-------------------------- MODULE SaturationProofs --------------------------
(***************************************************************************)
(* What the engine learns about classes stays within what it was told, and *)
(* what it grants stays accounted for, whatever the peers, the rates, the  *)
(* fractions kept and the bounds.                                          *)
(***************************************************************************)
EXTENDS Saturation, TLAPS

-----------------------------------------------------------------------------
(* Averages *)

LEMMA Monotonic ==
  ASSUME NEW a \in Nat, NEW b \in Nat, NEW c \in Nat, NEW d \in Nat, a <= b, c <= d
  PROVE  a * c \in Nat /\ b * d \in Nat /\ a * c <= b * d
<1>1. a * c <= b * c
  BY SMT
<1>2. b * c <= b * d
  BY SMT
<1>3. a * c \in Nat /\ b * c \in Nat /\ b * d \in Nat
  BY SMT
<1> QED BY <1>1, <1>2, <1>3, SMT

\* An average is between what it is an average of, also rounded down.
LEMMA BlendBetween ==
  ASSUME NEW n \in Nat \ {0}, NEW old \in Nat, NEW target \in Nat,
         NEW lo \in Nat, NEW hi \in Nat,
         lo <= old, lo <= target, old <= hi, target <= hi
  PROVE  Blend(old, target, n) \in lo..hi
<1> DEFINE x == (n - 1) * old + target
<1>1. Blend(old, target, n) = x \div n
  BY DEF Blend
<1>2. n - 1 \in Nat
  BY SMT
<1>3. (n - 1) * lo <= (n - 1) * old /\ (n - 1) * old <= (n - 1) * hi
  BY <1>2, Monotonic, SMT
<1>4. /\ (n - 1) * lo \in Nat /\ (n - 1) * old \in Nat /\ (n - 1) * hi \in Nat
      /\ (n - 1) * lo + lo = n * lo /\ (n - 1) * hi + hi = n * hi
  BY <1>2, SMT
<1>5. x \in Nat /\ n * lo <= x /\ x <= n * hi
  <2>1. x \in Nat /\ (n - 1) * lo + lo <= x /\ x <= (n - 1) * hi + hi
    BY <1>3, <1>4, SMT
  <2> HIDE DEF x
  <2> QED BY <1>4, <2>1, SMT
<1> HIDE DEF x
<1>6. x \div n \in Nat /\ lo <= x \div n /\ x \div n <= hi
  BY <1>5, SMT
<1> QED BY <1>1, <1>6, SMT

\* A point is never outside 1 and 64 ranges, and clamping moves it no further
\* than it has to.
LEMMA ClampLemma ==
  ASSUME NEW x \in Nat
  PROVE  /\ Clamped(x) \in Unit..(64 * Unit)
         /\ Clamped(x) <= x \/ Clamped(x) = Unit
         /\ Clamped(x) >= x \/ Clamped(x) = 64 * Unit
  BY UnitAssumption, SMT DEF Clamped, Larger, Smaller
-----------------------------------------------------------------------------
(* What one measured success does *)

Told == (Nat \ {0}) \X (Nat \ {0})

Types ==
  /\ TypeOK
  /\ heard \in [Class -> SUBSET Told]
  /\ met \in [Peer -> Nat]
  /\ pushed \in [Peer -> Nat]

EstimateTypes ==
  /\ point \in [Class -> Unit..(64 * Unit)]
  /\ best_throughput \in [Class -> Nat]
  /\ best_concurrency \in [Class -> Nat \ {0}]
  /\ samples \in [Class -> 0..Memory]

LEMMA AttributedLemma ==
  ASSUME Types, NEW p \in Peer
  PROVE  AttributedClass(p) \in Class /\ AttributedLoad(p) \in Nat \ {0}
<1>1. dispatched[p] \in Record \cup {None} /\ in_flight[p] \in Nat
  BY SMT DEF Types, TypeOK
<1>2. ClassOf(connection_class[p]) \in Class
  BY DEF ClassOf, Class
<1>3. dispatched[p] # None => /\ dispatched[p].class \in Class
                              /\ dispatched[p].in_flight_at_dispatch \in Nat
  BY <1>1, SMT DEF Record
<1>4. \A n \in Nat : Larger(1, n) \in Nat \ {0}
  BY SMT DEF Larger
<1> QED BY <1>1, <1>2, <1>3, <1>4, Zenon DEF AttributedClass, AttributedLoad

\* The point a sample pulls to `target`, within the bounds of both.
LEMMA TowardLemma ==
  ASSUME NEW old \in Unit..(64 * Unit), NEW load \in Nat \ {0}, NEW n \in Nat \ {0},
         NEW target \in Nat, target = load * Unit \/ target = Larger(load * Unit, old)
  PROVE  LET new == Clamped(Blend(old, target, n))
         IN  /\ new \in Unit..(64 * Unit)
             /\ new <= old \/ new <= load * Unit
             /\ target = Larger(load * Unit, old) => new >= old
<1> DEFINE x == Blend(old, target, n)
<1>0. /\ Unit \in Nat \ {0} /\ old \in Nat /\ load * Unit \in Nat /\ load * Unit >= Unit
      /\ Larger(load * Unit, old) \in Nat /\ 64 * Unit \in Nat
  <2>1. Unit \in Nat \ {0} /\ old \in Nat
    BY UnitAssumption, SMT
  <2>2. load * Unit \in Nat /\ load * Unit >= Unit
    BY <2>1, SMT
  <2> QED BY <2>1, <2>2, SMT DEF Larger
<1>1. x \in Nat /\ (x <= old \/ x <= load * Unit)
  <2>1. CASE target <= old
    <3>1. x \in 0..old
      <4>1. 0 \in Nat /\ old \in Nat /\ 0 <= old /\ 0 <= target /\ old <= old
        BY <1>0, SMT
      <4> QED BY <2>1, <4>1, BlendBetween, Zenon
    <3> QED BY <1>0, <3>1, SMT
  <2>2. CASE target > old
    <3>1. target = load * Unit
      BY <1>0, <2>2, SMT DEF Larger
    <3>2. x \in 0..target
      <4>1. /\ 0 \in Nat /\ old \in Nat /\ 0 <= old /\ 0 <= target
            /\ old <= target /\ target <= target
        BY <1>0, <2>2, SMT
      <4> QED BY <4>1, BlendBetween, Zenon
    <3> HIDE DEF x
    <3> QED BY <1>0, <3>1, <3>2, SMT
  <2> QED BY <1>0, <2>1, <2>2, SMT
<1>2. target = Larger(load * Unit, old) => x >= old
  <2> SUFFICES ASSUME target = Larger(load * Unit, old) PROVE x >= old
    OBVIOUS
  <2>1. old \in Nat /\ old <= old /\ old <= target /\ target <= target
    BY <1>0, SMT DEF Larger
  <2>2. x \in old..target
    BY <2>1, BlendBetween, Zenon
  <2> QED BY <1>0, <2>2, SMT
<1> HIDE DEF x
<1>3. /\ Clamped(x) \in Unit..(64 * Unit)
      /\ Clamped(x) <= x \/ Clamped(x) = Unit
      /\ Clamped(x) >= x \/ Clamped(x) = 64 * Unit
  BY <1>1, ClampLemma
<1>4. Clamped(x) <= old \/ Clamped(x) <= load * Unit
  BY <1>0, <1>1, <1>3, SMT
<1>5. target = Larger(load * Unit, old) => Clamped(x) >= old
  BY <1>0, <1>1, <1>2, <1>3, SMT
<1> QED BY <1>3, <1>4, <1>5 DEF x

\* Every class but the one told is left alone.
LEMMA ObserveLemma ==
  ASSUME EstimateTypes, NEW class \in Class, NEW load \in Nat \ {0}, NEW rate \in Nat \ {0},
         ObserveSaturation(class, load, rate)
  PROVE  /\ EstimateTypes'
         /\ \A c \in Class \ {class} :
              /\ point'[c] = point[c]
              /\ best_throughput'[c] = best_throughput[c]
              /\ best_concurrency'[c] = best_concurrency[c]
         /\ \/ /\ BestYet(class, rate)
               /\ best_throughput'[class] = rate /\ best_concurrency'[class] = load
               /\ point'[class] >= point[class]
               /\ point'[class] <= point[class] \/ point'[class] <= load * Unit
            \/ /\ ~BestYet(class, rate)
               /\ best_throughput'[class] = best_throughput[class]
               /\ best_concurrency'[class] = best_concurrency[class]
               /\ \/ point'[class] = point[class]
                  \/ /\ Oversubscribed(class, load, rate)
                     /\ \/ point'[class] <= point[class]
                        \/ point'[class] <= best_concurrency[class] * Unit
<1> DEFINE n == Smaller(samples[class] + 1, Memory)
           old == point[class]
           raise == Clamped(Blend(old, RaiseTarget(load, old), n))
           fall == Clamped(Blend(old, best_concurrency[class] * Unit, n))
<1>1. /\ n \in Nat \ {0} /\ n \in 0..Memory
      /\ old \in Unit..(64 * Unit) /\ best_concurrency[class] \in Nat \ {0}
  BY SMT DEF EstimateTypes, Smaller, Memory
<1>2. samples' = [samples EXCEPT ![class] = n]
  BY DEF ObserveSaturation
<1>3. CASE BestYet(class, rate)
  <2>1. /\ best_throughput' = [best_throughput EXCEPT ![class] = rate]
        /\ best_concurrency' = [best_concurrency EXCEPT ![class] = load]
        /\ point' = [point EXCEPT ![class] = raise]
    BY <1>3 DEF ObserveSaturation
  <2>2. RaiseTarget(load, old) = Larger(load * Unit, old) /\ RaiseTarget(load, old) \in Nat
    BY <1>1, UnitAssumption, SMT DEF RaiseTarget, Larger
  <2>3. raise \in Unit..(64 * Unit) /\ raise >= old /\ (raise <= old \/ raise <= load * Unit)
    BY <1>1, <2>2, TowardLemma
  <2> HIDE DEF n, raise
  <2> QED BY <1>1, <1>2, <1>3, <2>1, <2>3 DEF EstimateTypes
<1>4. CASE ~BestYet(class, rate) /\ Oversubscribed(class, load, rate)
  <2>1. /\ best_throughput' = best_throughput /\ best_concurrency' = best_concurrency
        /\ point' = [point EXCEPT ![class] = fall]
    BY <1>4 DEF ObserveSaturation
  <2>2. best_concurrency[class] * Unit \in Nat
    BY <1>1, UnitAssumption, SMT
  <2>3. fall \in Unit..(64 * Unit) /\ (fall <= old \/ fall <= best_concurrency[class] * Unit)
    BY <1>1, <2>2, TowardLemma
  <2> HIDE DEF n, fall
  <2> QED BY <1>1, <1>2, <1>4, <2>1, <2>3 DEF EstimateTypes
<1>5. CASE ~BestYet(class, rate) /\ ~Oversubscribed(class, load, rate)
  <2>1. /\ best_throughput' = best_throughput /\ best_concurrency' = best_concurrency
        /\ point' = [point EXCEPT ![class] = old]
    BY <1>5, Zenon DEF ObserveSaturation
  <2> HIDE DEF n
  <2> QED BY <1>1, <1>2, <1>5, <2>1 DEF EstimateTypes
<1> QED BY <1>3, <1>4, <1>5
-----------------------------------------------------------------------------
(* The accounts *)

LEMMA AccountLemma ==
  ASSUME NEW f \in Nat, NEW g \in Nat, NEW m \in Nat, NEW u \in Nat,
         NEW limit \in Nat, NEW add \in Nat,
         f <= m + u, g <= limit \/ g <= f + add
  PROVE  /\ (IF g = 0 THEN 0 ELSE Larger(m, limit)) \in Nat
         /\ Smaller(u + add, g) \in Nat
         /\ g <= (IF g = 0 THEN 0 ELSE Larger(m, limit)) + Smaller(u + add, g)
  BY SMT DEF Larger, Smaller

\* What the calls do to the accounts: up to the limit, or by what is counted.
LEMMA WatchLemma ==
  ASSUME Types, OverloadCounted, NEW limits, NEW more,
         in_flight' \in [Peer -> 0..MaxInFlight],
         limits \in [Peer -> Nat], more \in [Peer -> Nat],
         \A p \in Peer : in_flight'[p] <= limits[p] \/ in_flight'[p] <= in_flight[p] + more[p],
         Watch(limits, more)
  PROVE  met' \in [Peer -> Nat] /\ pushed' \in [Peer -> Nat] /\ OverloadCounted'
<1>1. /\ met' = [p \in Peer |-> IF in_flight'[p] = 0 THEN 0 ELSE Larger(met[p], limits[p])]
      /\ pushed' = [p \in Peer |-> Smaller(pushed[p] + more[p], in_flight'[p])]
  BY DEF Watch
<1>2. ASSUME NEW p \in Peer
      PROVE  /\ met'[p] \in Nat /\ pushed'[p] \in Nat
             /\ in_flight'[p] <= met'[p] + pushed'[p]
  <2>2. /\ in_flight[p] \in Nat /\ in_flight'[p] \in Nat /\ met[p] \in Nat /\ pushed[p] \in Nat
        /\ limits[p] \in Nat /\ more[p] \in Nat
    <3>1. in_flight[p] \in 0..MaxInFlight /\ in_flight'[p] \in 0..MaxInFlight
      BY DEF Types, TypeOK
    <3>2. \A g \in 0..MaxInFlight : g \in Nat
      BY SMT
    <3> QED BY <3>1, <3>2 DEF Types
  <2>3. in_flight[p] <= met[p] + pushed[p]
    BY DEF OverloadCounted
  <2>4. /\ met'[p] = IF in_flight'[p] = 0 THEN 0 ELSE Larger(met[p], limits[p])
        /\ pushed'[p] = Smaller(pushed[p] + more[p], in_flight'[p])
    BY <1>1
  <2>5. in_flight'[p] <= limits[p] \/ in_flight'[p] <= in_flight[p] + more[p]
    OBVIOUS
  <2> DEFINE m2 == IF in_flight'[p] = 0 THEN 0 ELSE Larger(met[p], limits[p])
             u2 == Smaller(pushed[p] + more[p], in_flight'[p])
  <2>6. m2 \in Nat /\ u2 \in Nat /\ in_flight'[p] <= m2 + u2
    BY <2>2, <2>3, <2>5, AccountLemma, Zenon
  <2>7. met'[p] = m2 /\ pushed'[p] = u2
    BY <2>4
  <2> HIDE DEF m2, u2
  <2> QED BY <2>6, <2>7
<1>3. DOMAIN met' = Peer /\ DOMAIN pushed' = Peer
  BY <1>1
<1>4. met' \in [Peer -> Nat] /\ pushed' \in [Peer -> Nat]
  BY <1>1, <1>2, <1>3, Zenon
<1> QED BY <1>2, <1>4 DEF OverloadCounted

LEMMA NothingLemma == Nothing \in [Peer -> Nat]
  BY SMT DEF Nothing

LEMMA LimitLemma ==
  ASSUME Types, NEW p \in Peer
  PROVE  Limit(p) \in Nat
<1>1. ClassOf(connection_class[p]) \in Class
  BY DEF ClassOf, Class
<1>2. point[ClassOf(connection_class[p])] \in Unit..(64 * Unit)
  BY <1>1 DEF Types, TypeOK
<1>3. \A x \in Unit..(64 * Unit) : (2 * x + Unit) \div (2 * Unit) \in Nat
  BY UnitAssumption, SMT
<1> QED BY <1>2, <1>3 DEF Limit, SaturationPoint

\* A call that leaves what is learned alone keeps the types of the rest.
Others ==
  /\ in_flight' \in [Peer -> 0..MaxInFlight]
  /\ connection_class' \in [Peer -> Kinds \cup {None}]
  /\ dispatched' \in [Peer -> Record \cup {None}]
  /\ met' \in [Peer -> Nat] /\ pushed' \in [Peer -> Nat]

LEMMA OthersLemma ==
  ASSUME Types, UNCHANGED <<estimates, relay, heard>>, Others
  PROVE  Types'
  BY DEF Types, TypeOK, Others, estimates, relay

LEMMA SelectStep ==
  ASSUME Types, OverloadCounted, NEW chosen \in SUBSET Peer, NEW active, Select(chosen, active)
  PROVE  Types' /\ OverloadCounted'
<1> DEFINE limits == [p \in Peer |-> IF p \in chosen THEN Limit(p) ELSE 0]
           more == [p \in Peer |-> IF p \in chosen /\ in_flight[p] >= Limit(p) THEN 1 ELSE 0]
<1>1. limits \in [Peer -> Nat] /\ more \in [Peer -> Nat]
  <2>1. 0 \in Nat /\ 1 \in Nat
    BY SMT
  <2> QED BY <2>1, LimitLemma
<1>2. in_flight \in [Peer -> 0..MaxInFlight] /\ dispatched \in [Peer -> Record \cup {None}]
  BY DEF Types, TypeOK
<1>3. ASSUME NEW p \in Peer
      PROVE  /\ in_flight'[p] \in 0..MaxInFlight
             /\ dispatched'[p] \in Record \cup {None}
             /\ in_flight'[p] <= limits[p] \/ in_flight'[p] <= in_flight[p] + more[p]
  <2>1. /\ in_flight'[p] = IF p \in chosen THEN in_flight[p] + Grant(p, active) ELSE in_flight[p]
        /\ p \in chosen => in_flight[p] + Grant(p, active) <= MaxInFlight
        /\ p \in chosen =>
             dispatched'[p] = [in_flight_at_dispatch |-> in_flight[p],
                               class |-> ClassOf(connection_class[p])]
        /\ p \notin chosen => dispatched'[p] = dispatched[p]
    BY DEF Select
  <2>2. ClassOf(connection_class[p]) \in Class
    BY DEF ClassOf, Class
  <2>3. dispatched'[p] \in Record \cup {None}
    BY <1>2, <2>1, <2>2 DEF Record
  <2>4. in_flight[p] \in 0..MaxInFlight /\ Limit(p) \in Nat
    BY <1>2, LimitLemma
  <2>5. CASE p \in chosen
    <3>1. /\ limits[p] = Limit(p)
          /\ more[p] = IF in_flight[p] >= Limit(p) THEN 1 ELSE 0
          /\ in_flight'[p] = in_flight[p] + Grant(p, active)
          /\ in_flight[p] + Grant(p, active) <= MaxInFlight
      BY <2>1, <2>5
    <3>2. /\ Grant(p, active) \in Nat
          /\ in_flight[p] >= Limit(p) => Grant(p, active) = 1
          /\ in_flight[p] < Limit(p) => Grant(p, active) <= Limit(p) - in_flight[p]
      BY <2>4, SMT DEF Grant, Room, Headroom, Larger
    <3> HIDE DEF limits, more
    <3>3. \/ in_flight[p] >= Limit(p) /\ Grant(p, active) = 1 /\ more[p] = 1
          \/ in_flight[p] < Limit(p) /\ Grant(p, active) <= Limit(p) - in_flight[p]
      BY <2>4, <3>1, <3>2, SMT
    <3> QED BY <2>3, <2>4, <3>1, <3>2, <3>3, LimitAssumption, SMT
  <2>6. CASE p \notin chosen
    <3>1. in_flight'[p] = in_flight[p] /\ more[p] = 0
      BY <2>1, <2>6
    <3> HIDE DEF limits, more
    <3> QED BY <2>3, <2>4, <3>1, SMT
  <2> QED BY <2>5, <2>6
<1>4. DOMAIN in_flight' = Peer /\ DOMAIN dispatched' = Peer
  BY DEF Select
<1>5. in_flight' \in [Peer -> 0..MaxInFlight] /\ dispatched' \in [Peer -> Record \cup {None}]
  <2>1. /\ in_flight' = [p \in Peer |-> in_flight'[p]]
        /\ dispatched' = [p \in Peer |-> dispatched'[p]]
    BY DEF Select
  <2> QED BY <1>3, <2>1
<1>6. Watch(limits, more)
  BY DEF Select
<1> HIDE DEF limits, more
<1>7. met' \in [Peer -> Nat] /\ pushed' \in [Peer -> Nat] /\ OverloadCounted'
  BY <1>1, <1>3, <1>5, <1>6, WatchLemma
<1>8. UNCHANGED <<estimates, relay, heard>> /\ connection_class' = connection_class
  BY DEF Select
<1>9. Types'
  BY <1>5, <1>7, <1>8, OthersLemma DEF Others, Types, TypeOK
<1> QED BY <1>7, <1>9
LEMMA DispatchStep ==
  ASSUME Types, OverloadCounted, NEW p \in Peer, NEW count \in 0..MaxCount, OnDispatch(p, count)
  PROVE  Types' /\ OverloadCounted'
<1> DEFINE more == [Nothing EXCEPT ![p] = count]
<1>1. count \in Nat /\ in_flight \in [Peer -> 0..MaxInFlight]
  BY LimitAssumption, SMT DEF Types, TypeOK
<1>2. more \in [Peer -> Nat]
  BY <1>1, NothingLemma
<1>3. in_flight' = [in_flight EXCEPT ![p] = @ + count] /\ in_flight[p] + count <= MaxInFlight
  BY DEF OnDispatch
<1>4. in_flight[p] + count \in 0..MaxInFlight
  BY <1>1, <1>3, LimitAssumption, SMT
<1>5. in_flight' \in [Peer -> 0..MaxInFlight]
  BY <1>1, <1>3, <1>4
<1>6. \A q \in Peer : in_flight'[q] <= Nothing[q] \/ in_flight'[q] <= in_flight[q] + more[q]
  <2> SUFFICES ASSUME NEW q \in Peer PROVE in_flight'[q] <= in_flight[q] + more[q]
    OBVIOUS
  <2>1. /\ in_flight[q] \in 0..MaxInFlight
        /\ in_flight'[q] = IF q = p THEN in_flight[q] + count ELSE in_flight[q]
        /\ more[q] = IF q = p THEN count ELSE 0
    BY <1>1, <1>3 DEF Nothing
  <2> HIDE DEF more
  <2> QED BY <1>1, <2>1, SMT
<1>7. Watch(Nothing, more)
  BY DEF OnDispatch
<1> HIDE DEF more
<1>8. met' \in [Peer -> Nat] /\ pushed' \in [Peer -> Nat] /\ OverloadCounted'
  BY <1>2, <1>5, <1>6, <1>7, NothingLemma, WatchLemma
<1>9. /\ UNCHANGED <<estimates, relay, heard>>
      /\ connection_class' = connection_class /\ dispatched' = dispatched
  BY DEF OnDispatch
<1>10. Types'
  BY <1>5, <1>8, <1>9, OthersLemma DEF Others, Types, TypeOK
<1> QED BY <1>8, <1>10

LEMMA ClassStep ==
  ASSUME Types, OverloadCounted, NEW p \in Peer, NEW kind \in Kinds, SetConnectionClass(p, kind)
  PROVE  Types' /\ OverloadCounted'
<1>1. /\ connection_class' = [connection_class EXCEPT ![p] = kind]
      /\ UNCHANGED <<estimates, relay, heard>>
      /\ in_flight' = in_flight /\ dispatched' = dispatched /\ met' = met /\ pushed' = pushed
  BY DEF SetConnectionClass
<1>2. connection_class' \in [Peer -> Kinds \cup {None}]
  BY <1>1 DEF Types, TypeOK
<1>3. Types'
  BY <1>1, <1>2, OthersLemma DEF Others, Types, TypeOK
<1> QED BY <1>1, <1>3 DEF OverloadCounted

\* An account that is lowered, for one peer, and nothing else counted.
LEMMA LoweredLemma ==
  ASSUME Types, OverloadCounted, NEW p \in Peer, NEW value \in Nat, value <= in_flight[p],
         in_flight' = [in_flight EXCEPT ![p] = value], Watch(Nothing, Nothing)
  PROVE  /\ in_flight' \in [Peer -> 0..MaxInFlight]
         /\ met' \in [Peer -> Nat] /\ pushed' \in [Peer -> Nat] /\ OverloadCounted'
<1>1. in_flight \in [Peer -> 0..MaxInFlight]
  BY DEF Types, TypeOK
<1>2. value \in 0..MaxInFlight
  <2>1. in_flight[p] \in 0..MaxInFlight
    BY <1>1
  <2> QED BY <2>1, LimitAssumption, SMT
<1>3. in_flight' \in [Peer -> 0..MaxInFlight]
  BY <1>1, <1>2
<1>4. \A q \in Peer : in_flight'[q] <= Nothing[q] \/ in_flight'[q] <= in_flight[q] + Nothing[q]
  <2> SUFFICES ASSUME NEW q \in Peer PROVE in_flight'[q] <= in_flight[q] + Nothing[q]
    OBVIOUS
  <2>1. /\ in_flight[q] \in 0..MaxInFlight
        /\ in_flight'[q] = IF q = p THEN value ELSE in_flight[q]
        /\ Nothing[q] = 0
    BY <1>1 DEF Nothing
  <2> QED BY <2>1, SMT
<1> QED BY <1>3, <1>4, NothingLemma, WatchLemma

LEMMA ReleaseLemma ==
  ASSUME Types, NEW p \in Peer
  PROVE  Release(in_flight[p]) \in Nat /\ Release(in_flight[p]) <= in_flight[p]
<1>1. in_flight[p] \in 0..MaxInFlight
  BY DEF Types, TypeOK
<1> QED BY <1>1, SMT DEF Release

LEMMA SettleLemma ==
  ASSUME Types, OverloadCounted, NEW p \in Peer, Settle(p), connection_class' = connection_class
  PROVE  Others /\ OverloadCounted'
<1>1. /\ dispatched' = [dispatched EXCEPT ![p] = None]
      /\ in_flight' = [in_flight EXCEPT ![p] = Release(in_flight[p])]
      /\ Watch(Nothing, Nothing)
  BY DEF Settle
<1>2. dispatched' \in [Peer -> Record \cup {None}]
  BY <1>1 DEF Types, TypeOK
<1>3. connection_class' \in [Peer -> Kinds \cup {None}]
  BY DEF Types, TypeOK
<1> QED BY <1>1, <1>2, <1>3, ReleaseLemma, LoweredLemma DEF Others

LEMMA OtherStep ==
  ASSUME Types, OverloadCounted, NEW p \in Peer, RecordOther(p)
  PROVE  Types' /\ OverloadCounted'
  BY SettleLemma, OthersLemma DEF RecordOther

LEMMA ReclaimStep ==
  ASSUME Types, OverloadCounted, NEW p \in Peer, Reclaim(p)
  PROVE  Types' /\ OverloadCounted'
<1>1. /\ in_flight' = [in_flight EXCEPT ![p] = 0] /\ Watch(Nothing, Nothing)
      /\ UNCHANGED <<estimates, relay, heard>>
      /\ connection_class' = connection_class /\ dispatched' = dispatched
  BY DEF Reclaim
<1>2. 0 \in Nat /\ 0 <= in_flight[p]
  BY SMT DEF Types, TypeOK
<1>3. /\ in_flight' \in [Peer -> 0..MaxInFlight]
      /\ met' \in [Peer -> Nat] /\ pushed' \in [Peer -> Nat] /\ OverloadCounted'
  BY <1>1, <1>2, LoweredLemma
<1> QED BY <1>1, <1>3, OthersLemma DEF Others, Types, TypeOK

LEMMA ForgetStep ==
  ASSUME Types, OverloadCounted, NEW p \in Peer, Forget(p)
  PROVE  Types' /\ OverloadCounted'
<1>1. /\ in_flight' = [in_flight EXCEPT ![p] = 0] /\ Watch(Nothing, Nothing)
      /\ UNCHANGED <<estimates, relay, heard>>
      /\ connection_class' = [connection_class EXCEPT ![p] = None]
      /\ dispatched' = [dispatched EXCEPT ![p] = None]
  BY DEF Forget
<1>2. 0 \in Nat /\ 0 <= in_flight[p]
  BY SMT DEF Types, TypeOK
<1>3. /\ in_flight' \in [Peer -> 0..MaxInFlight]
      /\ met' \in [Peer -> Nat] /\ pushed' \in [Peer -> Nat] /\ OverloadCounted'
  BY <1>1, <1>2, LoweredLemma
<1>4. /\ connection_class' \in [Peer -> Kinds \cup {None}]
      /\ dispatched' \in [Peer -> Record \cup {None}]
  BY <1>1 DEF Types, TypeOK
<1> QED BY <1>1, <1>3, <1>4, OthersLemma DEF Others

\* What a success adds to what was heard.
HeardMore(class, load, rate) == heard' = [heard EXCEPT ![class] = @ \cup {<<load, rate>>}]

LEMMA RelayTypes ==
  ASSUME Types, NEW path \in Path, NEW rate \in Nat \ {0}, ObserveRelay(path, rate)
  PROVE  mean' \in [Path -> Nat \cup {None}] /\ mean_samples' \in [Path -> 0..Memory]
<1> DEFINE n == Smaller(mean_samples[path] + 1, Memory)
           old == mean[path]
           new == NextMean(old, rate, n)
<1>1. /\ mean \in [Path -> Nat \cup {None}] /\ mean_samples \in [Path -> 0..Memory]
      /\ mean' = [mean EXCEPT ![path] = new]
      /\ mean_samples' = [mean_samples EXCEPT ![path] = n]
  BY DEF Types, TypeOK, ObserveRelay
<1>2. n \in 0..Memory /\ n \in Nat \ {0}
  BY <1>1, SMT DEF Smaller, Memory
<1>3. rate * Unit \in Nat
  BY UnitAssumption, SMT
<1>4. new \in Nat
  <2>1. CASE old = None
    BY <1>3, <2>1 DEF NextMean
  <2>2. CASE old # None
    <3> DEFINE hi == Larger(old, rate * Unit)
    <3>1. old \in Nat
      BY <1>1, <2>2
    <3> HIDE DEF n, old
    <3>2. 0 \in Nat /\ hi \in Nat /\ 0 <= old /\ 0 <= rate * Unit /\ old <= hi /\ rate * Unit <= hi
      BY <1>3, <3>1, SMT DEF Larger
    <3> HIDE DEF hi
    <3>3. Blend(old, rate * Unit, n) \in 0..hi
      BY <1>2, <1>3, <3>1, <3>2, BlendBetween, Zenon
    <3>4. \A x \in 0..hi : x \in Nat
      BY <3>2, SMT
    <3> QED BY <2>2, <3>3, <3>4 DEF NextMean
  <2> QED BY <2>1, <2>2
<1> HIDE DEF n, new
<1> QED BY <1>1, <1>2, <1>4

LEMMA SuccessStep ==
  ASSUME Types, OverloadCounted, NEW p \in Peer, NEW rate \in Rates, RecordSuccess(p, rate)
  PROVE  Types' /\ OverloadCounted'
<1> DEFINE class == AttributedClass(p)
           load == AttributedLoad(p)
<1>1. class \in Class /\ load \in Nat \ {0} /\ rate \in Nat \ {0}
  BY AttributedLemma, RateAssumption
<1>2. /\ ObserveSaturation(class, load, rate)
      /\ ObserveRelay(PathOf(class), rate)
      /\ HeardMore(class, load, rate)
      /\ Settle(p) /\ connection_class' = connection_class
  BY DEF RecordSuccess, HeardMore
<1> HIDE DEF class, load
<1>3. EstimateTypes'
  BY <1>1, <1>2, ObserveLemma DEF Types, TypeOK, EstimateTypes
<1>4. PathOf(class) \in Path
  BY DEF PathOf, Path
<1>5. mean' \in [Path -> Nat \cup {None}] /\ mean_samples' \in [Path -> 0..Memory]
  BY <1>1, <1>2, <1>4, RelayTypes
<1>6. heard' \in [Class -> SUBSET Told]
  <2>1. <<load, rate>> \in Told
    BY <1>1 DEF Told
  <2>2. heard \in [Class -> SUBSET Told] /\ heard' = [heard EXCEPT ![class] = @ \cup {<<load, rate>>}]
    BY <1>2 DEF Types, HeardMore
  <2>3. heard[class] \cup {<<load, rate>>} \in SUBSET Told
    BY <1>1, <2>1, <2>2
  <2> QED BY <2>2, <2>3
<1>7. Others /\ OverloadCounted'
  BY <1>2, SettleLemma
<1>8. Types'
  BY <1>3, <1>5, <1>6, <1>7 DEF Types, TypeOK, EstimateTypes, Others
<1> QED BY <1>7, <1>8
-----------------------------------------------------------------------------
(* What was heard *)

\* The best of a class is one of the transfers it heard of, and none beat it.
Informed ==
  \A c \in Class :
    /\ heard[c] = {} => best_throughput[c] = 0
    /\ heard[c] # {} => <<best_concurrency[c], best_throughput[c]>> \in heard[c]
    /\ \A o \in heard[c] : o[2] <= best_throughput[c]

LEMMA ToldLemma ==
  ASSUME Types, NEW c \in Class, NEW o \in heard[c]
  PROVE  o[1] \in Nat \ {0} /\ o[2] \in Nat \ {0}
<1>1. o \in Told
  BY DEF Types
<1> QED BY <1>1 DEF Told

LEMMA HeardLemma ==
  ASSUME Types, Informed, NEW class \in Class, NEW load \in Nat \ {0}, NEW rate \in Nat \ {0},
         ObserveSaturation(class, load, rate), HeardMore(class, load, rate)
  PROVE  /\ Informed'
         /\ ~BestYet(class, rate) => heard[class] # {}
<1> DEFINE told == <<load, rate>>
<1>1. /\ heard'[class] = heard[class] \cup {told}
      /\ \A c \in Class \ {class} : heard'[c] = heard[c]
  BY DEF HeardMore, Types
<1>2. told[1] = load /\ told[2] = rate
  OBVIOUS
<1>3. EstimateTypes
  BY DEF Types, TypeOK, EstimateTypes
<1>4. /\ best_throughput[class] \in Nat
      /\ \A o \in heard[class] : o[2] \in Nat
  BY <1>3, ToldLemma, SMT DEF EstimateTypes
<1>5. ~BestYet(class, rate) => heard[class] # {}
  <2>1. heard[class] = {} => best_throughput[class] = 0
    BY DEF Informed
  <2> QED BY <1>4, <2>1, SMT DEF BestYet
<1>6. ASSUME NEW c \in Class \ {class}
      PROVE  /\ heard'[c] = {} => best_throughput'[c] = 0
             /\ heard'[c] # {} => <<best_concurrency'[c], best_throughput'[c]>> \in heard'[c]
             /\ \A o \in heard'[c] : o[2] <= best_throughput'[c]
  <2>1. /\ best_throughput'[c] = best_throughput[c] /\ best_concurrency'[c] = best_concurrency[c]
        /\ heard'[c] = heard[c]
    BY <1>1, <1>3, ObserveLemma
  <2> QED BY <2>1 DEF Informed
<1> HIDE DEF told
<1>7. /\ heard'[class] # {}
      /\ <<best_concurrency'[class], best_throughput'[class]>> \in heard'[class]
      /\ \A o \in heard'[class] : o[2] <= best_throughput'[class]
  <2>1. CASE BestYet(class, rate)
    <3>1. best_throughput'[class] = rate /\ best_concurrency'[class] = load
      BY <1>3, <2>1, ObserveLemma
    <3>2. \A o \in heard[class] : o[2] <= rate
      <4>1. \A o \in heard[class] : o[2] <= best_throughput[class]
        BY DEF Informed
      <4> QED BY <1>4, <2>1, <4>1, SMT DEF BestYet
    <3>3. rate <= rate
      BY SMT
    <3> QED BY <1>1, <1>2, <3>1, <3>2, <3>3 DEF told
  <2>2. CASE ~BestYet(class, rate)
    <3>1. /\ best_throughput'[class] = best_throughput[class]
          /\ best_concurrency'[class] = best_concurrency[class]
      BY <1>3, <2>2, ObserveLemma
    <3>2. rate <= best_throughput[class]
      BY <1>4, <2>2, SMT DEF BestYet
    <3>3. /\ <<best_concurrency[class], best_throughput[class]>> \in heard[class]
          /\ \A o \in heard[class] : o[2] <= best_throughput[class]
      BY <1>5, <2>2 DEF Informed
    <3> QED BY <1>1, <1>2, <3>1, <3>2, <3>3
  <2> QED BY <2>1, <2>2
<1> QED BY <1>5, <1>6, <1>7 DEF Informed

LEMMA SeedLemma == \A c \in Class : Seed[c] \in 1..64
  BY SMT DEF Class, Seed

LEMMA EvidenceLemma ==
  ASSUME Types, Informed, PointWithinEvidence,
         NEW class \in Class, NEW load \in Nat \ {0}, NEW rate \in Nat \ {0},
         ObserveSaturation(class, load, rate), HeardMore(class, load, rate)
  PROVE  PointWithinEvidence'
<1>1. /\ heard'[class] = heard[class] \cup {<<load, rate>>}
      /\ \A c \in Class \ {class} : heard'[c] = heard[c]
  BY DEF HeardMore, Types
<1>2. EstimateTypes
  BY DEF Types, TypeOK, EstimateTypes
<1>3. ASSUME NEW c \in Class \ {class}
      PROVE  /\ point'[c] <= Seed[c] * Unit \/ \E o \in heard'[c] : point'[c] <= o[1] * Unit
             /\ Steady(c)' => point'[c] >= Seed[c] * Unit
  <2>1. point'[c] = point[c] /\ heard'[c] = heard[c]
    BY <1>1, <1>2, ObserveLemma
  <2> QED BY <2>1 DEF PointWithinEvidence, Steady
<1> DEFINE old == point[class]
           new == point'[class]
           seed == Seed[class] * Unit
<1>4. EstimateTypes'
  BY <1>2, ObserveLemma
<1>5. /\ old \in Nat /\ new \in Nat /\ seed \in Nat /\ load * Unit \in Nat
      /\ best_concurrency[class] * Unit \in Nat
  <2>1. old \in Unit..(64 * Unit) /\ new \in Unit..(64 * Unit) /\ best_concurrency[class] \in Nat
    BY <1>2, <1>4 DEF EstimateTypes
  <2>2. Seed[class] \in Nat
    BY SeedLemma, SMT
  <2> HIDE DEF old, new
  <2> QED BY <2>1, <2>2, UnitAssumption, SMT
<1>6. /\ old <= seed \/ \E o \in heard[class] : old <= o[1] * Unit
      /\ Steady(class) => old >= seed
  BY DEF PointWithinEvidence
<1>7. Steady(class)' => Steady(class)
  BY <1>1 DEF Steady
<1>8. new <= old => new <= seed \/ \E o \in heard'[class] : new <= o[1] * Unit
  <2> SUFFICES ASSUME new <= old PROVE new <= seed \/ \E o \in heard'[class] : new <= o[1] * Unit
    OBVIOUS
  <2> HIDE DEF old, new, seed
  <2>1. CASE old <= seed
    BY <1>5, <2>1, SMT
  <2>2. CASE \E o \in heard[class] : old <= o[1] * Unit
    <3>1. PICK o \in heard[class] : old <= o[1] * Unit
      BY <2>2
    <3>2. o[1] \in Nat
      BY ToldLemma
    <3>3. o[1] * Unit \in Nat
      BY <3>2, UnitAssumption, SMT
    <3>4. new <= o[1] * Unit
      BY <1>5, <3>1, <3>3, SMT
    <3> QED BY <1>1, <3>4
  <2> QED BY <1>6, <2>1, <2>2
<1>9. CASE BestYet(class, rate)
  <2>1. new >= old /\ (new <= old \/ new <= load * Unit)
    BY <1>2, <1>9, ObserveLemma
  <2>2. new <= load * Unit => \E o \in heard'[class] : new <= o[1] * Unit
    <3>1. <<load, rate>> \in heard'[class] /\ <<load, rate>>[1] = load
      BY <1>1
    <3> QED BY <3>1
  <2>3. old >= seed => new >= seed
    <3> HIDE DEF old, new, seed
    <3> QED BY <1>5, <2>1, SMT
  <2>4. new <= seed \/ \E o \in heard'[class] : new <= o[1] * Unit
    BY <1>8, <2>1, <2>2
  <2>5. Steady(class)' => new >= seed
    BY <1>6, <1>7, <2>3
  <2> QED BY <1>3, <2>4, <2>5 DEF PointWithinEvidence
<1>10. CASE ~BestYet(class, rate)
  <2>1. /\ heard[class] # {}
        /\ <<best_concurrency[class], best_throughput[class]>> \in heard[class]
    BY <1>10, HeardLemma DEF Informed
  <2>2. CASE new = old
    <3>1. new <= old
      BY <1>5, <2>2, SMT
    <3> QED BY <1>3, <1>6, <1>7, <1>8, <2>2, <3>1 DEF PointWithinEvidence
  <2>3. CASE /\ Oversubscribed(class, load, rate)
             /\ new <= old \/ new <= best_concurrency[class] * Unit
    <3> DEFINE best == <<best_concurrency[class], best_throughput[class]>>
    <3>1. best \in heard'[class] /\ best[1] = best_concurrency[class] /\ best[2] = best_throughput[class]
      BY <1>1, <2>1
    <3>2. new <= seed \/ \E o \in heard'[class] : new <= o[1] * Unit
      BY <1>8, <2>3, <3>1
    <3>3. ~Steady(class)'
      <4>1. <<load, rate>> \in heard'[class] /\ <<load, rate>>[2] = rate
        BY <1>1
      <4>2. ~(10 * rate >= 8 * best_throughput[class])
        BY <1>2, <2>3, SMT DEF Oversubscribed, EstimateTypes
      <4> QED BY <3>1, <4>1, <4>2 DEF Steady
    <3> QED BY <1>3, <3>2, <3>3 DEF PointWithinEvidence
  <2> QED BY <1>2, <1>10, <2>2, <2>3, ObserveLemma
<1> QED BY <1>9, <1>10
-----------------------------------------------------------------------------
(* The penalty of relayed paths *)

Within(path, lo, hi) == \A r \in RatesOf(path) : lo <= r /\ r <= hi

\* A mean is known once a rate was heard, and lies between those heard.
MeansBetween ==
  \A path \in Path :
    /\ mean[path] = None <=> RatesOf(path) = {}
    /\ mean[path] # None =>
         \A lo, hi \in Nat : Within(path, lo, hi)
           => lo * Unit <= mean[path] /\ mean[path] <= hi * Unit

LEMMA RatesLemma ==
  \A path, r : r \in RatesOf(path) <=>
                 \E c \in Class : PathOf(c) = path /\ \E o \in heard[c] : r = o[2]
  BY DEF RatesOf

\* A new mean is between the old one and the sample.
LEMMA NextMeanLemma ==
  ASSUME NEW old \in Nat \cup {None}, NEW rate \in Nat, NEW n \in Nat \ {0},
         NEW lo \in Nat, NEW hi \in Nat, lo <= rate, rate <= hi,
         old # None => lo * Unit <= old /\ old <= hi * Unit
  PROVE  /\ NextMean(old, rate, n) \in Nat
         /\ lo * Unit <= NextMean(old, rate, n) /\ NextMean(old, rate, n) <= hi * Unit
<1>1. Unit \in Nat /\ Unit <= Unit
  BY UnitAssumption, SMT
<1>2. /\ lo * Unit \in Nat /\ rate * Unit \in Nat /\ hi * Unit \in Nat
      /\ lo * Unit <= rate * Unit /\ rate * Unit <= hi * Unit
  BY <1>1, Monotonic
<1>3. CASE old = None
  BY <1>2, <1>3 DEF NextMean
<1>4. CASE old # None
  <2>1. Blend(old, rate * Unit, n) \in (lo * Unit)..(hi * Unit)
    BY <1>2, <1>4, BlendBetween, Zenon
  <2>2. \A x \in (lo * Unit)..(hi * Unit) : x \in Nat /\ lo * Unit <= x /\ x <= hi * Unit
    BY <1>2, SMT
  <2> QED BY <1>4, <2>1, <2>2, Zenon DEF NextMean
<1> QED BY <1>3, <1>4

LEMMA MeansLemma ==
  ASSUME Types, MeansBetween,
         NEW class \in Class, NEW load \in Nat \ {0}, NEW rate \in Nat \ {0},
         ObserveRelay(PathOf(class), rate), HeardMore(class, load, rate)
  PROVE  MeansBetween'
<1> DEFINE told == PathOf(class)
<1>1. /\ heard'[class] = heard[class] \cup {<<load, rate>>}
      /\ \A c \in Class \ {class} : heard'[c] = heard[c]
  BY DEF HeardMore, Types
<1>2. <<load, rate>>[2] = rate
  OBVIOUS
<1>3. \A path, r : r \in RatesOf(path)' <=>
                     \E c \in Class : PathOf(c) = path /\ \E o \in heard'[c] : r = o[2]
  BY DEF RatesOf
<1>4. RatesOf(told)' = RatesOf(told) \cup {rate}
  <2>1. \A r : r \in RatesOf(told)' <=> r \in RatesOf(told) \/ r = rate
    <3>1. ASSUME NEW r, r \in RatesOf(told)' PROVE r \in RatesOf(told) \/ r = rate
      <4>1. PICK c \in Class : PathOf(c) = told /\ \E o \in heard'[c] : r = o[2]
        BY <1>3, <3>1
      <4>2. PICK o \in heard'[c] : r = o[2]
        BY <4>1
      <4>3. o \in heard[c] \/ o = <<load, rate>>
        BY <1>1
      <4> QED BY <1>2, <4>1, <4>2, <4>3, RatesLemma
    <3>2. ASSUME NEW r, r \in RatesOf(told) PROVE r \in RatesOf(told)'
      <4>1. PICK c \in Class : PathOf(c) = told /\ \E o \in heard[c] : r = o[2]
        BY <3>2, RatesLemma
      <4>2. heard[c] \subseteq heard'[c]
        BY <1>1
      <4> QED BY <1>3, <4>1, <4>2
    <3>3. rate \in RatesOf(told)'
      BY <1>1, <1>2, <1>3
    <3> HIDE DEF told
    <3> QED BY <3>1, <3>2, <3>3
  <2> QED BY <2>1
<1>5. \A path \in Path \ {told} : RatesOf(path)' = RatesOf(path)
  <2> SUFFICES ASSUME NEW path \in Path \ {told} PROVE RatesOf(path)' = RatesOf(path)
    OBVIOUS
  <2>1. \A r : r \in RatesOf(path)' <=> r \in RatesOf(path)
    BY <1>1, <1>3, RatesLemma
  <2> QED BY <2>1
<1>6. told \in Path
  BY DEF PathOf, Path
<1> DEFINE n == Smaller(mean_samples[told] + 1, Memory)
           old == mean[told]
           new == NextMean(old, rate, n)
<1>7. /\ n \in Nat \ {0} /\ old \in Nat \cup {None} /\ rate \in Nat
      /\ mean' = [mean EXCEPT ![told] = new]
      /\ mean'[told] = new
      /\ \A path \in Path \ {told} : mean'[path] = mean[path]
  <2>1. /\ mean \in [Path -> Nat \cup {None}] /\ mean_samples \in [Path -> 0..Memory]
        /\ mean' = [mean EXCEPT ![told] = new]
    BY DEF Types, TypeOK, ObserveRelay
  <2>2. n \in Nat \ {0}
    BY <1>6, <2>1, SMT DEF Smaller, Memory
  <2>3. rate \in Nat
    OBVIOUS
  <2> HIDE DEF told, n, new
  <2> QED BY <1>6, <2>1, <2>2, <2>3
<1> HIDE DEF told, n, old, new
<1>8. ASSUME NEW lo \in Nat, NEW hi \in Nat, Within(told, lo, hi)'
      PROVE  new \in Nat /\ lo * Unit <= new /\ new <= hi * Unit
  <2>1. Within(told, lo, hi) /\ lo <= rate /\ rate <= hi
    BY <1>4, <1>8 DEF Within
  <2>2. old # None => lo * Unit <= old /\ old <= hi * Unit
    BY <1>6, <2>1 DEF MeansBetween, old
  <2> QED BY <1>7, <2>1, <2>2, NextMeanLemma, Zenon DEF new
<1>9. new # None
  <2>1. new \in Nat
    <3>1. rate * Unit \in Nat
      BY <1>7, UnitAssumption, SMT
    <3>2. CASE old = None
      BY <3>1, <3>2 DEF NextMean, new
    <3>3. CASE old # None
      <4> DEFINE hi == Larger(old, rate * Unit)
      <4>1. old \in Nat
        BY <1>7, <3>3
      <4>2. 0 \in Nat /\ hi \in Nat /\ 0 <= old /\ 0 <= rate * Unit /\ old <= hi /\ rate * Unit <= hi
        BY <3>1, <4>1, SMT DEF Larger
      <4> HIDE DEF hi
      <4>3. Blend(old, rate * Unit, n) \in 0..hi
        BY <1>7, <3>1, <4>1, <4>2, BlendBetween, Zenon
      <4>4. \A x \in 0..hi : x \in Nat
        BY <4>2, SMT
      <4> QED BY <3>3, <4>3, <4>4 DEF NextMean, new
    <3> QED BY <3>2, <3>3
  <2> QED BY <2>1, NoneAssumption
<1>10. ASSUME NEW path \in Path
       PROVE  /\ mean'[path] = None <=> RatesOf(path)' = {}
              /\ mean'[path] # None =>
                   \A lo, hi \in Nat : Within(path, lo, hi)'
                     => lo * Unit <= mean'[path] /\ mean'[path] <= hi * Unit
  <2>1. CASE path = told
    BY <1>4, <1>7, <1>8, <1>9, <2>1
  <2>2. CASE path # told
    <3>1. /\ mean'[path] = mean[path] /\ RatesOf(path)' = RatesOf(path)
          /\ \A lo, hi : Within(path, lo, hi)' <=> Within(path, lo, hi)
      BY <1>5, <1>7, <2>2 DEF Within
    <3> QED BY <3>1 DEF MeansBetween
  <2> QED BY <2>1, <2>2
<1> QED BY <1>10 DEF MeansBetween

LEMMA PenaltyLemma == Types /\ MeansBetween => PenaltyFair
<1> SUFFICES ASSUME Types, MeansBetween,
                    NEW slowR \in RatesOf("relayed"), NEW fastR \in RatesOf("relayed"),
                    NEW slowO \in RatesOf("other"), NEW fastO \in RatesOf("other"),
                    Within("relayed", slowR, fastR), Within("other", slowO, fastO)
             PROVE  /\ Penalty[1] * fastO >= Penalty[2] * Smaller(slowR, fastO)
                    /\ Penalty[1] * slowO * 4 <= Penalty[2] * Larger(slowO, 4 * fastR)
  BY DEF PenaltyFair, Within
<1>1. \A path : \A r \in RatesOf(path) : r \in Nat
  BY RatesLemma, ToldLemma
<1>2. slowR \in Nat /\ fastR \in Nat /\ slowO \in Nat /\ fastO \in Nat
  BY <1>1
<1>3. "relayed" \in Path /\ "other" \in Path
  BY DEF Path
<1> DEFINE relayed == mean["relayed"]
           other == mean["other"]
<1>4. relayed # None /\ other # None /\ relayed \in Nat /\ other \in Nat
  <2>1. relayed # None /\ other # None
    BY <1>3 DEF MeansBetween
  <2> QED BY <1>3, <2>1 DEF Types, TypeOK
<1>5. /\ slowR * Unit <= relayed /\ relayed <= fastR * Unit
      /\ slowO * Unit <= other /\ other <= fastO * Unit
  BY <1>2, <1>3, <1>4 DEF MeansBetween
<1> HIDE DEF relayed, other
<1>6. Unit \in Nat \ {0}
  BY UnitAssumption
<1>7. slowR <= fastR /\ slowO <= fastO
  BY DEF Within
<1>8. CASE 4 * relayed < other
  <2>1. Penalty[1] = 1 /\ Penalty[2] = 4
    BY <1>4, <1>8 DEF Penalty, relayed, other
  <2>2. 4 * slowR <= fastO
    <3>1. (4 * slowR) * Unit <= fastO * Unit
      <4>1. slowR * Unit \in Nat /\ fastO * Unit \in Nat /\ (4 * slowR) * Unit = 4 * (slowR * Unit)
        BY <1>2, <1>6, SMT
      <4> QED BY <1>4, <1>5, <1>8, <4>1, SMT
    <3> QED BY <1>2, <1>6, <3>1, SMT
  <2>3. 1 * fastO >= 4 * Smaller(slowR, fastO)
    BY <1>2, <2>2, SMT DEF Smaller
  <2>4. 1 * slowO * 4 <= 4 * Larger(slowO, 4 * fastR)
    BY <1>2, SMT DEF Larger
  <2> QED BY <2>1, <2>3, <2>4
<1>9. CASE ~(4 * relayed < other) /\ relayed > other
  <2>1. Penalty[1] = 1 /\ Penalty[2] = 1
    BY <1>4, <1>9 DEF Penalty, relayed, other
  <2>2. slowO <= fastR
    <3>1. slowO * Unit <= fastR * Unit
      <4>1. slowO * Unit \in Nat /\ fastR * Unit \in Nat
        BY <1>2, <1>6, SMT
      <4> QED BY <1>4, <1>5, <1>9, <4>1, SMT
    <3> QED BY <1>2, <1>6, <3>1, SMT
  <2>3. 1 * fastO >= 1 * Smaller(slowR, fastO)
    BY <1>2, SMT DEF Smaller
  <2>4. 1 * slowO * 4 <= 1 * Larger(slowO, 4 * fastR)
    BY <1>2, <2>2, SMT DEF Larger
  <2> QED BY <2>1, <2>3, <2>4
<1>10. CASE ~(4 * relayed < other) /\ ~(relayed > other)
  <2>1. Penalty[1] = relayed /\ Penalty[2] = other
    BY <1>4, <1>10 DEF Penalty, relayed, other
  <2>2. relayed * fastO >= other * Smaller(slowR, fastO)
    <3>1. Smaller(slowR, fastO) \in Nat /\ Smaller(slowR, fastO) <= slowR
      BY <1>2, SMT DEF Smaller
    <3>2. fastO * Unit \in Nat /\ slowR * Unit \in Nat
      BY <1>2, <1>6, SMT
    <3>3. other * Smaller(slowR, fastO) <= (fastO * Unit) * slowR
      BY <1>2, <1>4, <1>5, <3>1, <3>2, Monotonic
    <3>4. fastO <= fastO
      BY <1>2, SMT
    <3>5. (slowR * Unit) * fastO <= relayed * fastO
      BY <1>2, <1>4, <1>5, <3>2, <3>4, Monotonic
    <3>6. (fastO * Unit) * slowR = (slowR * Unit) * fastO
      BY <1>2, <1>6, SMT
    <3>7. /\ other * Smaller(slowR, fastO) \in Nat /\ (slowR * Unit) * fastO \in Nat
          /\ relayed * fastO \in Nat
      BY <1>2, <1>4, <3>1, <3>2, SMT
    <3> HIDE DEF Smaller
    <3> QED BY <3>3, <3>5, <3>6, <3>7, SMT
  <2>3. relayed * slowO * 4 <= other * Larger(slowO, 4 * fastR)
    <3>1. /\ Larger(slowO, 4 * fastR) \in Nat /\ 4 * fastR \in Nat
          /\ 4 * fastR <= Larger(slowO, 4 * fastR)
      BY <1>2, SMT DEF Larger
    <3>2. fastR * Unit \in Nat /\ slowO * Unit \in Nat /\ slowO <= slowO
      BY <1>2, <1>6, SMT
    <3>3. relayed * slowO <= (fastR * Unit) * slowO
      BY <1>2, <1>4, <1>5, <3>2, Monotonic
    <3>4. (slowO * Unit) * (4 * fastR) <= other * Larger(slowO, 4 * fastR)
      BY <1>2, <1>4, <1>5, <3>1, <3>2, Monotonic
    <3>5. (slowO * Unit) * (4 * fastR) = ((fastR * Unit) * slowO) * 4
      BY <1>2, <1>6, SMT
    <3>6. /\ relayed * slowO \in Nat /\ (fastR * Unit) * slowO \in Nat
          /\ other * Larger(slowO, 4 * fastR) \in Nat
      BY <1>2, <1>4, <3>1, <3>2, SMT
    <3>7. (relayed * slowO) * 4 <= ((fastR * Unit) * slowO) * 4
      BY <3>3, <3>6, SMT
    <3> QED BY <3>4, <3>5, <3>6, <3>7, SMT
  <2> QED BY <2>1, <2>2, <2>3
<1> QED BY <1>8, <1>9, <1>10
-----------------------------------------------------------------------------
(* The invariant *)

\* What is learned, next to what it was learned from.
Learned == Informed /\ PointWithinEvidence /\ MeansBetween

SatInv == Types /\ OverloadCounted /\ Learned

LEMMA UntoldLemma ==
  ASSUME Learned, UNCHANGED <<estimates, relay, heard>>
  PROVE  Learned'
<1>1. /\ heard' = heard /\ point' = point /\ mean' = mean
      /\ best_throughput' = best_throughput /\ best_concurrency' = best_concurrency
  BY DEF estimates, relay
<1>2. \A path : RatesOf(path)' = RatesOf(path)
  BY <1>1 DEF RatesOf
<1>3. \A path, lo, hi : Within(path, lo, hi)' <=> Within(path, lo, hi)
  BY <1>2 DEF Within
<1>4. \A c : Steady(c)' <=> Steady(c)
  BY <1>1 DEF Steady
<1>5. Informed' /\ PointWithinEvidence'
  BY <1>1, <1>4 DEF Learned, Informed, PointWithinEvidence
<1>6. MeansBetween'
  BY <1>1, <1>2, <1>3 DEF Learned, MeansBetween
<1> QED BY <1>5, <1>6 DEF Learned

LEMMA ToldStep ==
  ASSUME Types, Learned, NEW p \in Peer, NEW rate \in Rates, RecordSuccess(p, rate)
  PROVE  Learned'
<1> DEFINE class == AttributedClass(p)
           load == AttributedLoad(p)
<1>1. class \in Class /\ load \in Nat \ {0} /\ rate \in Nat \ {0}
  BY AttributedLemma, RateAssumption
<1>2. /\ ObserveSaturation(class, load, rate)
      /\ ObserveRelay(PathOf(class), rate)
      /\ HeardMore(class, load, rate)
  BY DEF RecordSuccess, HeardMore
<1> HIDE DEF class, load
<1> QED BY <1>1, <1>2, HeardLemma, EvidenceLemma, MeansLemma DEF Learned

LEMMA SatInvInit == Init => SatInv
<1> SUFFICES ASSUME Init PROVE SatInv
  OBVIOUS
<1>1. /\ point = [c \in Class |-> Seed[c] * Unit]
      /\ best_throughput = [c \in Class |-> 0] /\ best_concurrency = [c \in Class |-> 1]
      /\ samples = [c \in Class |-> 0]
      /\ mean = [t \in Path |-> None] /\ mean_samples = [t \in Path |-> 0]
      /\ connection_class = [p \in Peer |-> None] /\ in_flight = [p \in Peer |-> 0]
      /\ dispatched = [p \in Peer |-> None] /\ heard = [c \in Class |-> {}]
      /\ met = [p \in Peer |-> 0] /\ pushed = [p \in Peer |-> 0]
  BY DEF Init
<1>2. \A c \in Class : /\ Seed[c] * Unit \in Unit..(64 * Unit)
                       /\ Seed[c] * Unit \in Nat /\ Seed[c] * Unit <= Seed[c] * Unit
  <2> SUFFICES ASSUME NEW c \in Class
               PROVE  /\ Seed[c] * Unit \in Unit..(64 * Unit)
                      /\ Seed[c] * Unit \in Nat /\ Seed[c] * Unit <= Seed[c] * Unit
    OBVIOUS
  <2>1. 1 <= Seed[c] /\ Seed[c] <= 64 /\ Seed[c] \in Nat /\ Unit \in Nat /\ Unit <= Unit
    BY SeedLemma, UnitAssumption, SMT
  <2>2. /\ 1 * Unit <= Seed[c] * Unit /\ Seed[c] * Unit <= 64 * Unit
        /\ Seed[c] * Unit \in Nat /\ 64 * Unit \in Nat
    BY <2>1, Monotonic, SMT
  <2> QED BY <2>1, <2>2, SMT
<1>3. /\ 0 \in Nat /\ 1 \in Nat \ {0} /\ 0 \in 0..Memory /\ 0 \in 0..MaxInFlight /\ 0 <= 0 + 0
      /\ 0 >= 0
  BY LimitAssumption, SMT DEF Memory
<1>4. TypeOK
  BY <1>1, <1>2, <1>3 DEF TypeOK
<1>5. Types
  BY <1>1, <1>3, <1>4 DEF Types
<1>6. OverloadCounted
  BY <1>1, <1>3 DEF OverloadCounted
<1>7. Informed
  BY <1>1 DEF Informed
<1>8. PointWithinEvidence
  <2>1. \A c \in Class : point[c] <= Seed[c] * Unit /\ point[c] >= Seed[c] * Unit
    BY <1>1, <1>2, SMT
  <2> QED BY <2>1 DEF PointWithinEvidence
<1>9. MeansBetween
  <2>1. \A path : RatesOf(path) = {}
    BY <1>1 DEF RatesOf
  <2>2. \A path \in Path : mean[path] = None
    BY <1>1
  <2> QED BY <2>1, <2>2 DEF MeansBetween
<1> QED BY <1>5, <1>6, <1>7, <1>8, <1>9 DEF SatInv, Learned

LEMMA SatInvStep ==
  ASSUME SatInv, [Next]_vars
  PROVE  SatInv'
<1> USE DEF SatInv
<1>1. ASSUME NEW chosen \in SUBSET Peer \ {{}}, NEW active \in SUBSET Peer,
             Select(chosen, active)
      PROVE  SatInv'
  <2>1. UNCHANGED <<estimates, relay, heard>>
    BY <1>1 DEF Select
  <2> QED BY <1>1, <2>1, SelectStep, UntoldLemma
<1>2. ASSUME NEW p \in Peer, RecordOther(p) PROVE SatInv'
  <2>1. UNCHANGED <<estimates, relay, heard>>
    BY <1>2 DEF RecordOther
  <2> QED BY <1>2, <2>1, OtherStep, UntoldLemma
<1>3. ASSUME NEW p \in Peer, Reclaim(p) PROVE SatInv'
  <2>1. UNCHANGED <<estimates, relay, heard>>
    BY <1>3 DEF Reclaim
  <2> QED BY <1>3, <2>1, ReclaimStep, UntoldLemma
<1>4. ASSUME NEW p \in Peer, Forget(p) PROVE SatInv'
  <2>1. UNCHANGED <<estimates, relay, heard>>
    BY <1>4 DEF Forget
  <2> QED BY <1>4, <2>1, ForgetStep, UntoldLemma
<1>5. ASSUME NEW p \in Peer, NEW count \in 0..MaxCount, OnDispatch(p, count) PROVE SatInv'
  <2>1. UNCHANGED <<estimates, relay, heard>>
    BY <1>5 DEF OnDispatch
  <2> QED BY <1>5, <2>1, DispatchStep, UntoldLemma
<1>6. ASSUME NEW p \in Peer, NEW kind \in Kinds, SetConnectionClass(p, kind) PROVE SatInv'
  <2>1. UNCHANGED <<estimates, relay, heard>>
    BY <1>6 DEF SetConnectionClass
  <2> QED BY <1>6, <2>1, ClassStep, UntoldLemma
<1>7. ASSUME NEW p \in Peer, NEW rate \in Rates, RecordSuccess(p, rate) PROVE SatInv'
  BY <1>7, SuccessStep, ToldStep
<1>8. CASE UNCHANGED vars
  <2>1. UNCHANGED <<estimates, relay, heard>>
    BY <1>8 DEF vars
  <2>2. Types' /\ OverloadCounted'
    BY <1>8 DEF vars, estimates, relay, Types, TypeOK, OverloadCounted
  <2> QED BY <2>1, <2>2, UntoldLemma
<1> QED BY <1>1, <1>2, <1>3, <1>4, <1>5, <1>6, <1>7, <1>8 DEF Next

LEMMA SaturationInvariance == Spec => []SatInv
<1>1. SatInv /\ [Next]_vars => SatInv'
  BY SatInvStep
<1> QED BY <1>1, SatInvInit, PTL DEF Spec

\* Accounts never wrap below 0 and points never leave 1 and 64 ranges
\* (registry.rs:334-338, scoring.rs:168).
THEOREM AccountsAndPointsInRange == Spec => []TypeOK
<1>1. SatInv => TypeOK
  BY DEF SatInv, Types
<1> QED BY <1>1, SaturationInvariance, PTL

\* A saturation point never leaves the range of its seed and the loads its class
\* was told of, and falls below the seed only by clearly different rates
\* (scoring.rs:147-169), whichever outcome is attributed to whichever load.
THEOREM PointsStayWithinEvidence == Spec => []PointWithinEvidence
<1>1. SatInv => PointWithinEvidence
  BY DEF SatInv, Learned
<1> QED BY <1>1, SaturationInvariance, PTL

\* A peer is loaded beyond every limit a select found for it only by what is
\* counted: one range per select that found it saturated, and on_dispatch
\* (engine.rs:353).
THEOREM OverloadIsCounted == Spec => []OverloadCounted
<1>1. SatInv => OverloadCounted
  BY DEF SatInv
<1> QED BY <1>1, SaturationInvariance, PTL

\* Relayed peers are penalised no less than the best and no more than the worst
\* ratio of what was measured (scoring.rs:214-225).
THEOREM PenaltyIsFair == Spec => []PenaltyFair
<1>1. SatInv => PenaltyFair
  BY PenaltyLemma DEF SatInv, Learned
<1> QED BY <1>1, SaturationInvariance, PTL
=============================================================================

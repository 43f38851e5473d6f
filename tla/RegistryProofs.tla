--------------------------- MODULE RegistryProofs ---------------------------
(***************************************************************************)
(* What the registry operations return, for every capacity, every clock    *)
(* and every set of peers: the lemmas that PeerSelectorProofs cites.       *)
(***************************************************************************)
EXTENDS Registry, FiniteSetTheorems, TLAPS

\* An entry in order at time t: its stamp is there exactly while it is busy
\* and not ahead of t, and it is not both banned and connected.
Sound(e, t) ==
  /\ e.in_flight > 0 <=> e.in_flight_since # None
  /\ e.in_flight > 0 => e.in_flight_since <= t
  /\ e.banned => ~e.connected

\* What every operation leaves of the entry it found.
SameHistory(e, f) ==
  /\ f.connected = e.connected /\ f.banned = e.banned
  /\ f.standing = e.standing /\ f.worth = e.worth /\ f.reference = e.reference

-----------------------------------------------------------------------------
(* Entries *)

\* A fresh entry is well formed, idle, offline and not banned.
LEMMA ColdEntryLemma ==
  ASSUME NEW now \in Nat, NEW t \in Nat
  PROVE  /\ ColdEntry(now) \in PeerEntry
         /\ Sound(ColdEntry(now), t)
         /\ ~ColdEntry(now).connected /\ ~ColdEntry(now).banned
         /\ ColdEntry(now).in_flight = 0
  BY BoundsAssumption, SMT DEF ColdEntry, PeerEntry, Standing, Sound

\* The same for the entry of a peer first seen when it connects.
LEMMA ConnectedEntryLemma ==
  ASSUME NEW now \in Nat, NEW t \in Nat
  PROVE  LET e == [ColdEntry(now) EXCEPT !.connected = TRUE]
         IN  e \in PeerEntry /\ Sound(e, t) /\ e.connected /\ e.in_flight = 0
<1> DEFINE e == [ColdEntry(now) EXCEPT !.connected = TRUE]
<1>1. ColdEntry(now) \in PeerEntry /\ Sound(ColdEntry(now), t) /\ ~ColdEntry(now).banned
      /\ ColdEntry(now).in_flight = 0
  BY ColdEntryLemma
<1>2. /\ e \in PeerEntry /\ e.connected /\ e.banned = ColdEntry(now).banned
      /\ e.in_flight = ColdEntry(now).in_flight
      /\ e.in_flight_since = ColdEntry(now).in_flight_since
  BY <1>1, Zenon DEF PeerEntry
<1> HIDE DEF e
<1>3. Sound(e, t)
  BY <1>1, <1>2, SMT DEF Sound
<1> QED BY <1>1, <1>2, <1>3 DEF e

\* An entry in order stays so as time passes.
LEMMA SoundLater ==
  ASSUME NEW e \in PeerEntry, NEW t \in Nat, NEW u \in Nat, t <= u, Sound(e, t)
  PROVE  Sound(e, u)
  BY BoundsAssumption, NoneAssumption, SMT DEF PeerEntry, Sound

\* Adding in-flight work saturates, and stamps an idle entry.
LEMMA AddInFlightLemma ==
  ASSUME NEW e \in PeerEntry, NEW count \in Nat, NEW now \in Nat
  PROVE  LET f == AddInFlight(e, count, now)
         IN  /\ f \in PeerEntry
             /\ SameHistory(e, f)
             /\ f.in_flight >= e.in_flight
             /\ f.in_flight = e.in_flight + count \/ f.in_flight = MaxInFlight
             /\ f.in_flight_since \in {e.in_flight_since, now}
             /\ \A t \in Nat : now <= t /\ Sound(e, t) => Sound(f, t)
<1> DEFINE total == IF e.in_flight + count > MaxInFlight
                    THEN MaxInFlight ELSE e.in_flight + count
           since == IF e.in_flight = 0 /\ total > 0 THEN now ELSE e.in_flight_since
           f == [e EXCEPT !.in_flight = total, !.in_flight_since = since]
<1>1. /\ e.in_flight \in 0..MaxInFlight /\ e.in_flight_since \in Nat \cup {None}
      /\ total \in 0..MaxInFlight /\ total >= e.in_flight
      /\ total = e.in_flight + count \/ total = MaxInFlight
  BY BoundsAssumption, SMT DEF PeerEntry
<1>2. since \in Nat \cup {None} /\ since \in {e.in_flight_since, now}
  BY <1>1
<1>3. AddInFlight(e, count, now) = f
  BY DEF AddInFlight
<1>4. /\ f \in PeerEntry /\ SameHistory(e, f)
      /\ f.in_flight = total /\ f.in_flight_since = since
  <2>1. f = [e EXCEPT !.in_flight = total, !.in_flight_since = since]
    OBVIOUS
  <2> HIDE DEF f, total, since
  <2> QED BY <1>1, <1>2, <2>1, Zenon DEF PeerEntry, SameHistory
<1> HIDE DEF f
<1>5. ASSUME NEW t \in Nat, now <= t, Sound(e, t) PROVE Sound(f, t)
  <2>1. ~(f.banned /\ f.connected)
    BY <1>4, <1>5 DEF Sound, SameHistory
  <2>2. CASE e.in_flight = 0
    BY <1>1, <1>4, <1>5, <2>1, <2>2, NoneAssumption, BoundsAssumption, SMT DEF Sound
  <2>3. CASE e.in_flight > 0
    BY <1>1, <1>4, <1>5, <2>1, <2>3, NoneAssumption, BoundsAssumption, SMT DEF Sound
  <2> QED BY <1>1, <2>2, <2>3, BoundsAssumption, SMT
<1> HIDE DEF total, since
<1> QED BY <1>1, <1>2, <1>3, <1>4, <1>5

\* Releasing takes off at most what is asked for, and the stamp with the last.
LEMMA ReleaseInFlightLemma ==
  ASSUME NEW e \in PeerEntry, NEW count \in Nat
  PROVE  LET f == ReleaseInFlight(e, count)
         IN  /\ f \in PeerEntry
             /\ SameHistory(e, f)
             /\ f.in_flight >= e.in_flight - count
             /\ \A t \in Nat : Sound(e, t) => Sound(f, t)
<1> DEFINE left == IF e.in_flight > count THEN e.in_flight - count ELSE 0
           since == IF left = 0 THEN None ELSE e.in_flight_since
           f == [e EXCEPT !.in_flight = left, !.in_flight_since = since]
<1>1. /\ e.in_flight \in 0..MaxInFlight /\ e.in_flight_since \in Nat \cup {None}
      /\ left \in 0..MaxInFlight /\ left >= e.in_flight - count
      /\ left > 0 => e.in_flight > 0
  BY BoundsAssumption, SMT DEF PeerEntry
<1>2. since \in Nat \cup {None}
  BY <1>1
<1>3. ReleaseInFlight(e, count) = f
  BY DEF ReleaseInFlight
<1>4. /\ f \in PeerEntry /\ SameHistory(e, f)
      /\ f.in_flight = left /\ f.in_flight_since = since
  <2>1. f = [e EXCEPT !.in_flight = left, !.in_flight_since = since]
    OBVIOUS
  <2> HIDE DEF f, left, since
  <2> QED BY <1>1, <1>2, <2>1, Zenon DEF PeerEntry, SameHistory
<1> HIDE DEF f
<1>5. ASSUME NEW t \in Nat, Sound(e, t) PROVE Sound(f, t)
  <2>1. ~(f.banned /\ f.connected)
    BY <1>4, <1>5 DEF Sound, SameHistory
  <2> HIDE DEF left
  <2> QED BY <1>1, <1>4, <1>5, <2>1, NoneAssumption, BoundsAssumption, SMT DEF Sound
<1> QED BY <1>1, <1>3, <1>4, <1>5

\* Folding in an outcome touches the learned quality only; a measured entry is
\* never cold again and a verification failure is never forgotten.
LEMMA LearnedLemma ==
  ASSUME NEW e \in PeerEntry, NEW result, NEW f \in Learned(e, result)
  PROVE  /\ f \in PeerEntry
         /\ f.connected = e.connected /\ f.banned = e.banned
         /\ f.in_flight = e.in_flight /\ f.in_flight_since = e.in_flight_since
         /\ f.standing # "cold"
         /\ e.standing \in {"bad", "redeemed"} => f.standing \in {"bad", "redeemed"}
<1>1. e.standing \in Standing
  BY DEF PeerEntry
<1>2. \A s \in Standings(e, result) :
         /\ s \in Standing /\ s # "cold"
         /\ e.standing \in {"bad", "redeemed"} => s \in {"bad", "redeemed"}
  BY <1>1, SMT DEF Standing, Standings
<1>3. Worths(e, result) \subseteq 0..MaxWorth
  BY BoundsAssumption, SMT DEF Worths
<1>4. PICK s \in Standings(e, result), w \in Worths(e, result) :
        f = WithQuality(e, s, w)
  BY SMT DEF Learned
<1>5. s \in Standing /\ w \in 0..MaxWorth
  BY <1>2, <1>3
<1> QED BY <1>2, <1>4, <1>5, Zenon DEF PeerEntry, WithQuality

\* The reclaim takes all in-flight work off an entry, or leaves it alone.
LEMMA ReclaimedLemma ==
  ASSUME NEW e \in PeerEntry, NEW now \in Nat
  PROVE  LET f == Reclaimed(e, now)
         IN  /\ f \in PeerEntry
             /\ SameHistory(e, f)
             /\ f = e \/ IsStale(e, now)
             /\ IsStale(e, now) => f.in_flight_since = None
             /\ \A t \in Nat : Sound(e, t) => Sound(f, t)
<1>1. CASE ~IsStale(e, now)
  BY <1>1 DEF Reclaimed, SameHistory
<1>2. CASE IsStale(e, now)
  <2> DEFINE f == [e EXCEPT !.in_flight = 0, !.in_flight_since = None]
  <2>1. Reclaimed(e, now) = f
    BY <1>2 DEF Reclaimed
  <2>2. 0 \in 0..MaxInFlight
    BY BoundsAssumption, SMT
  <2>3. /\ f \in PeerEntry /\ SameHistory(e, f)
        /\ f.in_flight = 0 /\ f.in_flight_since = None
    BY <2>2, Zenon DEF PeerEntry, SameHistory
  <2> HIDE DEF f
  <2>4. \A t \in Nat : Sound(e, t) => Sound(f, t)
    BY <2>3, SMT DEF Sound, SameHistory
  <2> QED BY <1>2, <2>1, <2>3, <2>4
<1> QED BY <1>1, <1>2

-----------------------------------------------------------------------------
(* Maps *)

\* A map with one more key.
LEMMA WithLemma ==
  ASSUME NEW R, NEW map, IsPeerMap(map, R), NEW p \in Peer, NEW value \in R
  PROVE  /\ IsPeerMap(With(map, p, value), R)
         /\ DOMAIN With(map, p, value) = DOMAIN map \cup {p}
         /\ With(map, p, value)[p] = value
         /\ \A q \in DOMAIN map \ {p} : With(map, p, value)[q] = map[q]
  BY Zenon DEF IsPeerMap, With

\* A map with fewer keys.
LEMMA WithoutLemma ==
  ASSUME NEW R, NEW map, IsPeerMap(map, R), NEW P
  PROVE  /\ IsPeerMap(Without(map, P), R)
         /\ DOMAIN Without(map, P) = DOMAIN map \ P
         /\ \A q \in DOMAIN map \ P : Without(map, P)[q] = map[q]
  BY Zenon DEF IsPeerMap, Without

\* The reclaim over the whole map.
LEMMA ReclaimStaleLemma ==
  ASSUME NEW entries, IsPeerMap(entries, PeerEntry), NEW now \in Nat
  PROVE  LET live == ReclaimStaleInFlight(entries, now)
         IN  /\ IsPeerMap(live, PeerEntry)
             /\ DOMAIN live = DOMAIN entries
             /\ \A p \in DOMAIN entries : live[p] = Reclaimed(entries[p], now)
<1>1. \A p \in DOMAIN entries : Reclaimed(entries[p], now) \in PeerEntry
  BY ReclaimedLemma DEF IsPeerMap
<1> QED BY <1>1, Zenon DEF IsPeerMap, ReclaimStaleInFlight

\* The eviction loop removes disconnected peers only, and stops within the
\* capacity or when every peer left is connected.
LEMMA VictimsLemma ==
  ASSUME NEW entries, IsPeerMap(entries, PeerEntry), NEW now \in Nat,
         NEW V \in Victims(entries, now)
  PROVE  /\ V \subseteq DOMAIN entries
         /\ \A p \in V : ~entries[p].connected
         /\ \/ Cardinality(DOMAIN entries \ V) <= Capacity
            \/ \A p \in DOMAIN entries \ V : entries[p].connected
<1> DEFINE spare == {p \in DOMAIN entries : IsForceEvictable(entries[p])}
           count == IF Cardinality(spare) < Excess(entries)
                    THEN Cardinality(spare) ELSE Excess(entries)
<1>1. V \subseteq spare /\ Cardinality(V) = count
  BY DEF Victims
<1>2. /\ IsFiniteSet(DOMAIN entries) /\ IsFiniteSet(spare)
      /\ Cardinality(DOMAIN entries) \in Nat /\ Cardinality(spare) \in Nat
  BY PeerAssumption, FS_Subset, FS_CardinalityType DEF IsPeerMap
<1>3. CASE Cardinality(spare) < Excess(entries)
  <2>1. V = spare
    BY <1>1, <1>2, <1>3, FS_Subset
  <2> QED BY <1>1, <2>1 DEF IsForceEvictable
<1>4. CASE ~(Cardinality(spare) < Excess(entries))
  <2>1. Cardinality(V) = Excess(entries)
    BY <1>1, <1>4
  <2>2. Cardinality(DOMAIN entries \ V) = Cardinality(DOMAIN entries) - Cardinality(V)
    <3>1. DOMAIN entries \cap V = V
      BY <1>1
    <3> QED BY <1>2, <3>1, FS_Difference
  <2>3. Cardinality(DOMAIN entries \ V) <= Capacity
    BY <1>2, <2>1, <2>2, BoundsAssumption, SMT DEF Excess
  <2> QED BY <1>1, <2>3 DEF IsForceEvictable
<1> QED BY <1>3, <1>4

\* What may be said of a shed entry e and a kept one f: recent work was given
\* up for links and work only, and of two idle ones the better stayed.
Spares(e, f, now) ==
  /\ e.in_flight > 0 /\ ~IsStale(e, now) => f.connected \/ f.in_flight > 0
  /\ e.in_flight = 0 /\ f.in_flight = 0 /\ ~f.connected =>
       e.worth <= f.worth \/ e.reference < f.reference

\* Worth more and measured later is worth keeping: the two factors of the
\* eviction value never trade one for the other there.
LEMMA ValueLemma ==
  ASSUME NEW a \in PeerEntry, NEW b \in PeerEntry, NEW now \in Nat,
         ~LessValuable(b, a, now)
  PROVE  a.worth <= b.worth \/ a.reference < b.reference
<1> DEFINE x == HalfLife + Age(a, now)
           y == HalfLife + Age(b, now)
<1>1. /\ a.worth \in Nat /\ b.worth \in Nat /\ a.reference \in Nat /\ b.reference \in Nat
  BY BoundsAssumption, SMT DEF PeerEntry
<1>2. x \in Nat /\ y \in Nat /\ y > 0
  BY <1>1, BoundsAssumption, SMT DEF Age
<1>3. ~((b.worth + 1) * x < (a.worth + 1) * y)
  BY DEF LessValuable
<1>4. SUFFICES ASSUME a.worth > b.worth, a.reference >= b.reference PROVE FALSE
  BY <1>1, SMT
<1>5. x <= y
  BY <1>1, <1>4, BoundsAssumption, SMT DEF Age
<1> HIDE DEF x, y
<1> DEFINE m == a.worth + 1
           n == b.worth + 1
<1>6. m \in Nat /\ n \in Nat /\ n + 1 <= m
  BY <1>1, <1>4, SMT
<1>7. ~(n * x < m * y)
  BY <1>3
<1> HIDE DEF m, n
<1>8. n * x <= n * y
  BY <1>2, <1>5, <1>6, SMT
<1>9. (n + 1) * y <= m * y
  BY <1>2, <1>6, SMT
<1>10. (n + 1) * y = n * y + y
  BY <1>2, <1>6, SMT
<1>11. n * x \in Int /\ n * y \in Int /\ m * y \in Int
  BY <1>2, <1>6, SMT
<1> QED BY <1>2, <1>7, <1>8, <1>9, <1>10, <1>11, SMT

\* The order of the loop says that much.
LEMMA SparesLemma ==
  ASSUME NEW a \in PeerEntry, NEW b \in PeerEntry, NEW now \in Nat, ~a.connected,
         IsForceEvictable(Reclaimed(b, now)) =>
           ~ShedBefore(Reclaimed(b, now), Reclaimed(a, now), now)
  PROVE  Spares(a, Reclaimed(b, now), now)
<1> DEFINE e == Reclaimed(a, now)
           f == Reclaimed(b, now)
<1>1. /\ e \in PeerEntry /\ SameHistory(a, e) /\ (e = a \/ IsStale(a, now))
      /\ f \in PeerEntry
  BY ReclaimedLemma
<1>2. a.in_flight = 0 => e.in_flight = 0
  BY SMT DEF Reclaimed
<1>3. f.in_flight \in Nat
  BY <1>1, BoundsAssumption, SMT DEF PeerEntry
<1> HIDE DEF e, f
<1>4. ASSUME a.in_flight > 0, ~IsStale(a, now), ~f.connected PROVE f.in_flight > 0
  <2>1. e.in_flight > 0 /\ ~ShedBefore(f, e, now)
    BY <1>1, <1>4 DEF IsForceEvictable, e, f
  <2>2. ~IsEvictable(f)
    BY <2>1, <1>1, BoundsAssumption, SMT DEF ShedBefore, IsEvictable, PeerEntry
  <2> QED BY <1>3, <1>4, <2>2, SMT DEF IsEvictable
<1>5. ASSUME a.in_flight = 0, f.in_flight = 0, ~f.connected
      PROVE  a.worth <= f.worth \/ a.reference < f.reference
  <2>1. IsEvictable(f) /\ IsEvictable(e) /\ ~ShedBefore(f, e, now)
    BY <1>1, <1>2, <1>5 DEF IsEvictable, IsForceEvictable, SameHistory, e, f
  <2>2. ~LessValuable(f, e, now)
    BY <2>1 DEF ShedBefore
  <2> QED BY <1>1, <2>2, ValueLemma DEF SameHistory
<1> QED BY <1>4, <1>5 DEF Spares, f

\* enforce_capacity: what it sheds, what it keeps and what it does to it.
LEMMA EnforceCapacityLemma ==
  ASSUME NEW entries, IsPeerMap(entries, PeerEntry), NEW now \in Nat,
         NEW result \in EnforceCapacity(entries, now)
  PROVE  /\ IsPeerMap(result.entries, PeerEntry)
         /\ result.shed \subseteq DOMAIN entries
         /\ DOMAIN result.entries = DOMAIN entries \ result.shed
         /\ \A p \in result.shed : ~entries[p].connected
         /\ \A p \in DOMAIN result.entries :
              result.entries[p] = Reclaimed(entries[p], now)
         /\ \/ Cardinality(DOMAIN result.entries) <= Capacity
            \/ \A p \in DOMAIN result.entries : result.entries[p].connected
         /\ \A v \in result.shed, k \in DOMAIN result.entries :
              Spares(entries[v], result.entries[k], now)
<1> DEFINE live == ReclaimStaleInFlight(entries, now)
<1>1. /\ IsPeerMap(live, PeerEntry) /\ DOMAIN live = DOMAIN entries
      /\ \A p \in DOMAIN entries : live[p] = Reclaimed(entries[p], now)
  BY ReclaimStaleLemma
<1>2. \A p \in DOMAIN entries : live[p].connected = entries[p].connected
  BY <1>1, ReclaimedLemma DEF SameHistory, IsPeerMap
<1>3. PICK V \in Victims(live, now) :
        result = [entries |-> Without(live, V), shed |-> V]
  BY Zenon DEF EnforceCapacity
<1>4. result.entries = Without(live, V) /\ result.shed = V
  BY <1>3
<1> HIDE DEF live
<1>5. /\ V \subseteq DOMAIN live
      /\ \A p \in V : ~live[p].connected
      /\ \/ Cardinality(DOMAIN live \ V) <= Capacity
         \/ \A p \in DOMAIN live \ V : live[p].connected
  BY <1>1, VictimsLemma
<1>6. /\ IsPeerMap(Without(live, V), PeerEntry)
      /\ DOMAIN Without(live, V) = DOMAIN live \ V
      /\ \A q \in DOMAIN live \ V : Without(live, V)[q] = live[q]
  <2>1. IsPeerMap(live, PeerEntry)
    BY <1>1
  <2> QED BY <2>1, WithoutLemma, Zenon
<1>7. ASSUME NEW v \in V, NEW k \in DOMAIN live \ V
      PROVE  Spares(entries[v], live[k], now)
  <2>1. /\ v \in DOMAIN entries /\ k \in DOMAIN entries
        /\ entries[v] \in PeerEntry /\ entries[k] \in PeerEntry
        /\ live[v] = Reclaimed(entries[v], now) /\ live[k] = Reclaimed(entries[k], now)
        /\ ~entries[v].connected
    BY <1>1, <1>2, <1>5, <1>7 DEF IsPeerMap
  <2>2. IsForceEvictable(live[k]) => ~ShedBefore(live[k], live[v], now)
    BY <1>7 DEF Victims
  <2> QED BY <2>1, <2>2, SparesLemma
<1> QED BY <1>1, <1>2, <1>4, <1>5, <1>6, <1>7, Zenon

-----------------------------------------------------------------------------
(* The eviction loop *)

\* The least-number principle.
LEMMA LeastNatural ==
  ASSUME NEW T \in SUBSET Nat, T # {}
  PROVE  \E x \in T : \A y \in T : x <= y
<1>1. \E x \in T : \A y \in T : <<y, x>> \notin OpToRel(<, Nat)
  BY NatLessThanWellFounded, WFMin
<1>2. \A x, y \in Nat : y < x => <<y, x>> \in OpToRel(<, Nat)
  BY Zenon DEF OpToRel
<1>3. PICK x \in T : \A y \in T : ~(y < x)
  BY <1>1, <1>2, Zenon
<1> QED BY <1>3, SMT

\* A finite set with a strict partial order R has a foremost member.
LEMMA ForemostExists ==
  ASSUME NEW S, IsFiniteSet(S), S # {}, NEW R,
         \A a \in S : <<a, a>> \notin R,
         \A a, b, c \in S : <<a, b>> \in R /\ <<b, c>> \in R => <<a, c>> \in R
  PROVE  \E v \in S : \A k \in S : <<k, v>> \notin R
<1> DEFINE Ahead(v) == {k \in S : <<k, v>> \in R}
           counts == {Cardinality(Ahead(v)) : v \in S}
<1>1. \A v \in S : IsFiniteSet(Ahead(v)) /\ Cardinality(Ahead(v)) \in Nat
  BY FS_Subset, FS_CardinalityType
<1>2. PICK v \in S : \A k \in S : Cardinality(Ahead(v)) <= Cardinality(Ahead(k))
  <2> HIDE DEF Ahead
  <2>1. counts \in SUBSET Nat /\ counts # {}
    BY <1>1
  <2>2. PICK x \in counts : \A y \in counts : x <= y
    BY <2>1, LeastNatural
  <2> QED BY <2>2
<1>3. ASSUME NEW k \in S, <<k, v>> \in R PROVE FALSE
  <2>1. Ahead(k) \in SUBSET Ahead(v) /\ k \in Ahead(v) /\ k \notin Ahead(k)
    BY <1>3
  <2>2. Cardinality(Ahead(k)) <= Cardinality(Ahead(v)) /\ Cardinality(Ahead(k)) # Cardinality(Ahead(v))
    BY <1>1, <2>1, FS_Subset
  <2> HIDE DEF Ahead
  <2> QED BY <1>1, <1>2, <1>3, <2>2, SMT
<1> QED BY <1>3

\* Eviction values are comparable: LessValuable is a strict weak order.
LEMMA ValueOrder ==
  ASSUME NEW a \in PeerEntry, NEW b \in PeerEntry, NEW c \in PeerEntry, NEW now \in Nat
  PROVE  /\ ~LessValuable(a, a, now)
         /\ LessValuable(a, b, now) => ~LessValuable(b, a, now)
         /\ LessValuable(a, c, now) => LessValuable(a, b, now) \/ LessValuable(b, c, now)
<1> DEFINE m(e) == e.worth + 1
           y(e) == HalfLife + Age(e, now)
<1>1. \A e \in PeerEntry : m(e) \in Nat /\ m(e) > 0 /\ y(e) \in Nat /\ y(e) > 0
  BY BoundsAssumption, SMT DEF PeerEntry, Age
<1>2. \A d, e : LessValuable(d, e, now) <=> m(d) * y(e) < m(e) * y(d)
  BY DEF LessValuable
<1> HIDE DEF m, y
<1>3. ~LessValuable(a, a, now)
  <2>1. m(a) * y(a) \in Nat
    BY <1>1, SMT
  <2> QED BY <1>2, <2>1, SMT
<1>4. LessValuable(a, b, now) => ~LessValuable(b, a, now)
  <2>1. m(a) * y(b) \in Nat /\ m(b) * y(a) \in Nat
    BY <1>1, SMT
  <2> QED BY <1>2, <2>1, SMT
<1>5. ASSUME ~LessValuable(a, b, now), ~LessValuable(b, c, now)
      PROVE  ~LessValuable(a, c, now)
  <2> DEFINE ma == m(a)  mb == m(b)  mc == m(c)  ya == y(a)  yb == y(b)  yc == y(c)
  <2>1. /\ ma \in Nat /\ mb \in Nat /\ mc \in Nat
        /\ ya \in Nat /\ yb \in Nat /\ yc \in Nat /\ yb > 0
    BY <1>1
  <2>2. ~(ma * yb < mb * ya) /\ ~(mb * yc < mc * yb)
    BY <1>2, <1>5
  <2>3. LessValuable(a, c, now) <=> ma * yc < mc * ya
    BY <1>2
  <2> HIDE DEF ma, mb, mc, ya, yb, yc
  <2>4. mb * ya <= ma * yb /\ mc * yb <= mb * yc
    BY <2>1, <2>2, SMT
  <2>5. (mb * ya) * yc <= (ma * yb) * yc /\ (mc * yb) * ya <= (mb * yc) * ya
    <3>1. \A p, q, r \in Nat : p <= q => p * r <= q * r
      BY SMT
    <3>2. mb * ya \in Nat /\ ma * yb \in Nat /\ mc * yb \in Nat /\ mb * yc \in Nat
      BY <2>1, SMT
    <3> QED BY <2>1, <2>4, <3>1, <3>2
  <2>6. /\ (mb * ya) * yc = (mb * yc) * ya
        /\ (ma * yb) * yc = (ma * yc) * yb
        /\ (mc * yb) * ya = (mc * ya) * yb
    BY <2>1, SMT
  <2>7. ma * yc \in Nat /\ mc * ya \in Nat /\ (mb * yc) * ya \in Nat
        /\ (ma * yc) * yb \in Nat /\ (mc * ya) * yb \in Nat
    BY <2>1, SMT
  <2>8. (mc * ya) * yb <= (ma * yc) * yb
    BY <2>5, <2>6, <2>7, SMT
  <2>9. \A p, q, r \in Nat : r > 0 /\ p < q => p * r < q * r
    BY SMT
  <2>10. ~(ma * yc < mc * ya)
    <3> SUFFICES ASSUME ma * yc < mc * ya PROVE FALSE
      OBVIOUS
    <3>1. (ma * yc) * yb < (mc * ya) * yb
      BY <2>1, <2>7, <2>9
    <3> QED BY <2>7, <2>8, <3>1, SMT
  <2> QED BY <2>3, <2>10
<1> QED BY <1>3, <1>4, <1>5

\* And so is the order of the loop, which puts idle entries first.
LEMMA ShedOrder ==
  ASSUME NEW a \in PeerEntry, NEW b \in PeerEntry, NEW c \in PeerEntry, NEW now \in Nat
  PROVE  /\ ~ShedBefore(a, a, now)
         /\ ShedBefore(a, b, now) => ~ShedBefore(b, a, now)
         /\ ShedBefore(a, c, now) => ShedBefore(a, b, now) \/ ShedBefore(b, c, now)
         /\ ShedBefore(a, b, now) /\ ShedBefore(b, c, now) => ShedBefore(a, c, now)
<1>1. /\ ~LessValuable(a, a, now)
      /\ LessValuable(a, b, now) => ~LessValuable(b, a, now)
      /\ LessValuable(b, c, now) => ~LessValuable(c, b, now)
      /\ LessValuable(a, c, now) => LessValuable(a, b, now) \/ LessValuable(b, c, now)
      /\ LessValuable(a, b, now) => LessValuable(a, c, now) \/ LessValuable(c, b, now)
  BY ValueOrder
<1> QED BY <1>1 DEF ShedBefore

\* Who may be shed, and the groups of n that the order allows.
Spare(entries) == {p \in DOMAIN entries : IsForceEvictable(entries[p])}

InOrder(entries, V, now) ==
  \A v \in V, k \in Spare(entries) \ V : ~ShedBefore(entries[k], entries[v], now)

Group(entries, n, now) ==
  {V \in SUBSET Spare(entries) :
     /\ Cardinality(V) = IF Cardinality(Spare(entries)) < n
                         THEN Cardinality(Spare(entries)) ELSE n
     /\ InOrder(entries, V, now)}

Foremost(entries, V, now) ==
  {v \in Spare(entries) \ V :
     \A k \in Spare(entries) \ V : ~ShedBefore(entries[k], entries[v], now)}

\* What a round makes of the group V shed so far.
Further(entries, V, now) == {V \cup {v} : v \in NextVictims(Without(entries, V), now)}

\* A round picks what is foremost among the entries left, and somebody if
\* anybody may be shed.
LEMMA RoundLemma ==
  ASSUME NEW entries, IsPeerMap(entries, PeerEntry), NEW now \in Nat,
         NEW V \in SUBSET Spare(entries)
  PROVE  /\ NextVictims(Without(entries, V), now) = Foremost(entries, V, now)
         /\ V # Spare(entries) => Foremost(entries, V, now) # {}
<1> DEFINE left == Without(entries, V)
           rest == Spare(entries) \ V
           idle == {p \in DOMAIN left : IsEvictable(left[p])}
           spare == {p \in DOMAIN left : IsForceEvictable(left[p])}
           among == IF idle # {} THEN idle ELSE spare
<1>1. /\ DOMAIN left = DOMAIN entries \ V
      /\ \A p \in DOMAIN left : left[p] = entries[p]
  BY Zenon DEF Without
<1>2. \A p \in DOMAIN entries : entries[p] \in PeerEntry
  BY DEF IsPeerMap
<1>3. NextVictims(left, now) =
        {v \in among : \A k \in among : ~LessValuable(left[k], left[v], now)}
  BY DEF NextVictims
<1> HIDE DEF left
<1>4. spare = rest /\ idle \subseteq rest /\ rest \subseteq DOMAIN left
      /\ rest \subseteq DOMAIN entries
      /\ \A p \in rest : p \in idle <=> IsEvictable(entries[p])
  BY <1>1 DEF Spare, IsEvictable, IsForceEvictable
<1> HIDE DEF idle, spare, rest
<1>5. NextVictims(left, now) = {v \in rest : \A k \in rest : ~ShedBefore(entries[k], entries[v], now)}
  <2>1. CASE idle = {}
    <3>1. among = rest
      BY <1>4, <2>1
    <3>2. \A k, v \in rest : ShedBefore(entries[k], entries[v], now)
                               <=> LessValuable(left[k], left[v], now)
      BY <1>1, <1>4, <2>1 DEF ShedBefore
    <3> HIDE DEF among
    <3> QED BY <1>3, <3>1, <3>2
  <2>2. CASE idle # {}
    <3>1. among = idle
      BY <2>2
    <3>2. \A k, v \in idle : ShedBefore(entries[k], entries[v], now)
                               <=> LessValuable(left[k], left[v], now)
      BY <1>1, <1>4 DEF ShedBefore
    <3>3. \A k \in rest \ idle, v \in idle : /\ ~ShedBefore(entries[k], entries[v], now)
                                             /\ ShedBefore(entries[v], entries[k], now)
      BY <1>4 DEF ShedBefore
    <3> HIDE DEF among
    <3>4. ASSUME NEW v
          PROVE  v \in NextVictims(left, now)
                   <=> v \in rest /\ \A k \in rest : ~ShedBefore(entries[k], entries[v], now)
      <4>1. CASE v \in idle
        BY <1>3, <1>4, <3>1, <3>2, <3>3, <4>1
      <4>2. CASE v \notin idle
        <5>1. v \notin NextVictims(left, now)
          BY <1>3, <3>1, <4>2
        <5>2. PICK k \in idle : TRUE
          BY <2>2
        <5>3. v \in rest => ShedBefore(entries[k], entries[v], now)
          BY <3>3, <4>2
        <5> QED BY <1>4, <5>1, <5>3
      <4> QED BY <4>1, <4>2
    <3> QED BY <3>4
  <2> QED BY <2>1, <2>2
<1>6. ASSUME V # Spare(entries) PROVE Foremost(entries, V, now) # {}
  <2> DEFINE R == {e \in rest \X rest : ShedBefore(entries[e[1]], entries[e[2]], now)}
  <2>1. \A a, b \in rest : <<a, b>> \in R <=> ShedBefore(entries[a], entries[b], now)
    OBVIOUS
  <2> HIDE DEF R
  <2>2. rest # {}
    BY <1>6 DEF rest
  <2>3. IsFiniteSet(rest)
    <3>1. DOMAIN entries \subseteq Peer
      BY DEF IsPeerMap
    <3> QED BY <1>4, <3>1, PeerAssumption, FS_Subset
  <2>4. \A a \in rest : <<a, a>> \notin R
    BY <1>2, <1>4, <2>1, ShedOrder
  <2>5. \A a, b, c \in rest : <<a, b>> \in R /\ <<b, c>> \in R => <<a, c>> \in R
    BY <1>2, <1>4, <2>1, ShedOrder
  <2>6. PICK v \in rest : \A k \in rest : <<k, v>> \notin R
    BY <2>2, <2>3, <2>4, <2>5, ForemostExists
  <2>7. \A k \in rest : ~ShedBefore(entries[k], entries[v], now)
    BY <2>1, <2>6
  <2> QED BY <2>6, <2>7 DEF Foremost, rest
<1> QED BY <1>5, <1>6 DEF left, rest, Foremost

\* Adding a foremost entry to a group that is in order leaves it so.
LEMMA GroupGrows ==
  ASSUME NEW entries, IsPeerMap(entries, PeerEntry), NEW now \in Nat, NEW n \in Nat,
         n < Cardinality(Spare(entries)),
         NEW V \in Group(entries, n, now), NEW v \in Foremost(entries, V, now)
  PROVE  V \cup {v} \in Group(entries, n + 1, now)
<1>1. /\ IsFiniteSet(Spare(entries)) /\ Cardinality(Spare(entries)) \in Nat
      /\ IsFiniteSet(V)
  BY PeerAssumption, FS_Subset, FS_CardinalityType DEF IsPeerMap, Spare, Group
<1>2. /\ V \in SUBSET Spare(entries) /\ Cardinality(V) = n
      /\ InOrder(entries, V, now)
      /\ v \in Spare(entries) \ V
      /\ \A k \in Spare(entries) \ V : ~ShedBefore(entries[k], entries[v], now)
  BY <1>1, SMT DEF Group, Foremost
<1>3. Cardinality(V \cup {v}) = n + 1
  BY <1>1, <1>2, FS_AddElement
<1>4. ~(Cardinality(Spare(entries)) < n + 1)
  BY <1>1, SMT
<1>5. InOrder(entries, V \cup {v}, now)
  BY <1>2 DEF InOrder
<1> QED BY <1>2, <1>3, <1>4, <1>5 DEF Group

\* Every group in order comes about that way: take away the last of it.
LEMMA GroupShrinks ==
  ASSUME NEW entries, IsPeerMap(entries, PeerEntry), NEW now \in Nat, NEW n \in Nat,
         n < Cardinality(Spare(entries)),
         NEW W \in Group(entries, n + 1, now)
  PROVE  \E V \in Group(entries, n, now) : \E v \in Foremost(entries, V, now) : W = V \cup {v}
<1>1. /\ IsFiniteSet(Spare(entries)) /\ Cardinality(Spare(entries)) \in Nat
      /\ IsFiniteSet(W) /\ Spare(entries) \subseteq DOMAIN entries
  BY PeerAssumption, FS_Subset, FS_CardinalityType DEF IsPeerMap, Spare, Group
<1>2. /\ W \in SUBSET Spare(entries) /\ Cardinality(W) = n + 1
      /\ \A w \in W, k \in Spare(entries) \ W : ~ShedBefore(entries[k], entries[w], now)
  BY <1>1, SMT DEF Group, InOrder
<1>3. \A p \in DOMAIN entries : entries[p] \in PeerEntry
  BY DEF IsPeerMap
<1>4. PICK v \in W : \A w \in W : ~ShedBefore(entries[v], entries[w], now)
  <2> DEFINE R == {e \in W \X W : ShedBefore(entries[e[2]], entries[e[1]], now)}
  <2>1. \A a, b \in W : <<a, b>> \in R <=> ShedBefore(entries[b], entries[a], now)
    OBVIOUS
  <2> HIDE DEF R
  <2>2. W # {}
    BY <1>2, FS_EmptySet, SMT
  <2>3. \A a \in W : <<a, a>> \notin R
    BY <1>1, <1>2, <1>3, <2>1, ShedOrder
  <2>4. \A a, b, c \in W : <<a, b>> \in R /\ <<b, c>> \in R => <<a, c>> \in R
    BY <1>1, <1>2, <1>3, <2>1, ShedOrder
  <2>5. \E v \in W : \A w \in W : <<w, v>> \notin R
    BY <1>1, <2>2, <2>3, <2>4, ForemostExists
  <2> QED BY <2>1, <2>5
<1> DEFINE U == W \ {v}
<1>5. U \in SUBSET Spare(entries) /\ W = U \cup {v} /\ v \notin U /\ v \in Spare(entries)
  BY <1>2
<1>6. Cardinality(U) = n
  <2>1. Cardinality(U) = Cardinality(W) - 1
    BY <1>1, FS_RemoveElement
  <2> QED BY <1>2, <2>1, SMT
<1>7. InOrder(entries, U, now)
  BY <1>2, <1>4 DEF InOrder
<1>8. v \in Foremost(entries, U, now)
  <2>1. ~ShedBefore(entries[v], entries[v], now)
    BY <1>4
  <2>2. \A k \in Spare(entries) \ U : ~ShedBefore(entries[k], entries[v], now)
    BY <1>2, <2>1
  <2> QED BY <1>5, <2>2 DEF Foremost
<1>9. ~(Cardinality(Spare(entries)) < n)
  BY <1>1, SMT
<1>10. U \in Group(entries, n, now)
  <2> HIDE DEF U
  <2> QED BY <1>5, <1>6, <1>7, <1>9 DEF Group
<1> HIDE DEF U
<1> QED BY <1>5, <1>8, <1>10

\* One round takes the groups of n to the groups of n + 1.
LEMMA GroupStep ==
  ASSUME NEW entries, IsPeerMap(entries, PeerEntry), NEW now \in Nat, NEW n \in Nat
  PROVE  Group(entries, n + 1, now) =
           UNION {IF Further(entries, V, now) = {} THEN {V} ELSE Further(entries, V, now) :
                    V \in Group(entries, n, now)}
<1> DEFINE spare == Spare(entries)
           After(V) == IF Further(entries, V, now) = {} THEN {V} ELSE Further(entries, V, now)
<1>1. IsFiniteSet(spare) /\ Cardinality(spare) \in Nat
  BY PeerAssumption, FS_Subset, FS_CardinalityType DEF IsPeerMap, Spare
<1>2. \A V \in Group(entries, n, now) : V \in SUBSET spare
  BY DEF Group
<1>3. \A V \in SUBSET spare :
        /\ Further(entries, V, now) = {V \cup {v} : v \in Foremost(entries, V, now)}
        /\ V # spare => Foremost(entries, V, now) # {}
  BY RoundLemma DEF Further
<1>4. CASE n < Cardinality(spare)
  <2>1. ASSUME NEW V \in Group(entries, n, now)
        PROVE  After(V) = {V \cup {v} : v \in Foremost(entries, V, now)}
    <3>1. Cardinality(V) = n
      BY <1>1, <1>4, SMT DEF Group
    <3>2. V # spare
      BY <1>1, <1>4, <3>1, SMT
    <3>3. /\ Further(entries, V, now) = {V \cup {v} : v \in Foremost(entries, V, now)}
          /\ Foremost(entries, V, now) # {}
      BY <1>2, <1>3, <3>2
    <3> HIDE DEF spare
    <3>4. Further(entries, V, now) # {}
      BY <3>3
    <3> QED BY <3>3, <3>4
  <2> HIDE DEF After
  <2>2. ASSUME NEW W \in Group(entries, n + 1, now)
        PROVE  \E V \in Group(entries, n, now) : W \in After(V)
    <3>1. PICK V \in Group(entries, n, now) :
            \E v \in Foremost(entries, V, now) : W = V \cup {v}
      BY <1>4, GroupShrinks
    <3> QED BY <2>1, <3>1
  <2>3. ASSUME NEW V \in Group(entries, n, now), NEW W \in After(V)
        PROVE  W \in Group(entries, n + 1, now)
    <3>1. PICK v \in Foremost(entries, V, now) : W = V \cup {v}
      BY <2>1, <2>3
    <3> QED BY <1>4, <3>1, GroupGrows
  <2>4. Group(entries, n + 1, now) = UNION {After(V) : V \in Group(entries, n, now)}
    BY <2>2, <2>3
  <2> QED BY <2>4 DEF After
<1>5. CASE ~(n < Cardinality(spare))
  <2>1. \A m \in {n, n + 1} : (IF Cardinality(spare) < m THEN Cardinality(spare) ELSE m)
                                = Cardinality(spare) \/ m = n + 1
    BY <1>1, <1>5, SMT
  <2>2. /\ (IF Cardinality(spare) < n THEN Cardinality(spare) ELSE n) = Cardinality(spare)
        /\ (IF Cardinality(spare) < n + 1 THEN Cardinality(spare) ELSE n + 1) = Cardinality(spare)
    BY <1>1, <1>5, SMT
  <2>3. \A V \in SUBSET spare : Cardinality(V) = Cardinality(spare) <=> V = spare
    BY <1>1, FS_Subset
  <2>4. InOrder(entries, spare, now)
    BY DEF InOrder
  <2>5. Group(entries, n, now) = {spare} /\ Group(entries, n + 1, now) = {spare}
    <3> DEFINE c == Cardinality(spare)
    <3>1. /\ Group(entries, n, now) =
               {V \in SUBSET spare : Cardinality(V) = c /\ InOrder(entries, V, now)}
          /\ Group(entries, n + 1, now) =
               {V \in SUBSET spare : Cardinality(V) = c /\ InOrder(entries, V, now)}
      BY <2>2 DEF Group
    <3>2. {V \in SUBSET spare : Cardinality(V) = c /\ InOrder(entries, V, now)} = {spare}
      BY <2>3, <2>4
    <3> QED BY <3>1, <3>2
  <2>6. After(spare) = {spare}
    <3>1. Foremost(entries, spare, now) = {}
      BY DEF Foremost
    <3>2. Further(entries, spare, now) = {}
      BY <1>3, <3>1
    <3> QED BY <3>2
  <2> HIDE DEF After, spare
  <2>7. UNION {After(V) : V \in Group(entries, n, now)} = {spare}
    BY <2>5, <2>6
  <2> QED BY <2>5, <2>7 DEF After
<1> QED BY <1>4, <1>5

\* The loop sheds what Victims says, one by one (registry.rs:372-409), however
\* many entries there are in excess: its recursive function is Group at every
\* round, because Group satisfies its equation.
LEMMA LoopVictimsLemma ==
  ASSUME NEW entries, IsPeerMap(entries, PeerEntry), NEW now \in Nat
  PROVE  LoopVictims(entries, now) = Victims(entries, now)
<1> DEFINE n == Excess(entries)
           After(V) == IF Further(entries, V, now) = {} THEN {V} ELSE Further(entries, V, now)
           Round(f, i) == IF i = 0 THEN {{}} ELSE UNION {After(V) : V \in f[i - 1]}
           loop == CHOOSE f : f = [i \in 0..n |-> Round(f, i)]
           closed == [i \in 0..n |-> Group(entries, i, now)]
<1>1. n \in Nat
  BY PeerAssumption, FS_Subset, FS_CardinalityType, BoundsAssumption, SMT DEF IsPeerMap, Excess
<1>2. Group(entries, 0, now) = {{}}
  <2>1. IsFiniteSet(Spare(entries)) /\ Cardinality(Spare(entries)) \in Nat
    BY PeerAssumption, FS_Subset, FS_CardinalityType DEF IsPeerMap, Spare
  <2>2. ~(Cardinality(Spare(entries)) < 0)
    BY <2>1, SMT
  <2>3. \A V \in SUBSET Spare(entries) : Cardinality(V) = 0 <=> V = {}
    BY <2>1, FS_Subset, FS_EmptySet
  <2>4. InOrder(entries, {}, now)
    BY DEF InOrder
  <2> QED BY <2>2, <2>3, <2>4 DEF Group
<1>3. ASSUME NEW i \in 1..n
      PROVE  Group(entries, i, now) = UNION {After(V) : V \in Group(entries, i - 1, now)}
  <2>1. i - 1 \in Nat /\ (i - 1) + 1 = i
    BY <1>1, SMT
  <2>2. Group(entries, (i - 1) + 1, now) = UNION {After(V) : V \in Group(entries, i - 1, now)}
    BY <2>1, GroupStep
  <2> QED BY <2>1, <2>2
<1> HIDE DEF n, After
<1>4. closed = [i \in 0..n |-> Round(closed, i)]
  <2>1. ASSUME NEW i \in 0..n PROVE closed[i] = Round(closed, i)
    <3>1. CASE i = 0
      BY <1>2, <3>1
    <3>2. CASE i # 0
      <4>1. i \in 1..n /\ i - 1 \in 0..n
        BY <1>1, <3>2, SMT
      <4>2. closed[i - 1] = Group(entries, i - 1, now)
        BY <4>1
      <4> QED BY <1>3, <3>2, <4>1, <4>2
    <3> QED BY <3>1, <3>2
  <2>2. closed = [i \in 0..n |-> closed[i]]
    OBVIOUS
  <2> HIDE DEF closed, Round
  <2> QED BY <2>1, <2>2
<1>5. loop = [i \in 0..n |-> Round(loop, i)]
  <2> HIDE DEF closed, Round
  <2> QED BY <1>4
<1>6. \A i \in 0..n : loop[i] = Round(loop, i)
  <2> HIDE DEF loop, Round
  <2> QED BY <1>5
<1>7. LoopVictims(entries, now) = loop[n]
  BY DEF LoopVictims, loop, Further, After, n
<1> HIDE DEF loop
<1>8. \A i \in 0..n : loop[i] = Group(entries, i, now)
  <2> DEFINE differ == {i \in 0..n : loop[i] # Group(entries, i, now)}
  <2>1. ASSUME differ # {} PROVE FALSE
    <3>1. PICK i \in differ : \A j \in differ : i <= j
      <4>1. differ \in SUBSET Nat
        BY <1>1, SMT
      <4> HIDE DEF differ
      <4> QED BY <2>1, <4>1, LeastNatural
    <3>2. CASE i = 0
      BY <1>2, <1>6, <3>2
    <3>3. CASE i # 0
      <4>1. i \in 1..n /\ i - 1 \in 0..n /\ i \in 0..n /\ ~(i <= i - 1)
        BY <1>1, <3>3, SMT
      <4>2. loop[i - 1] = Group(entries, i - 1, now)
        BY <3>1, <4>1
      <4>3. loop[i] = UNION {After(V) : V \in loop[i - 1]}
        BY <1>6, <3>3, <4>1
      <4>4. loop[i] = Group(entries, i, now)
        BY <1>3, <4>1, <4>2, <4>3
      <4> QED BY <4>4
    <3> QED BY <3>2, <3>3
  <2> QED BY <2>1
<1>9. n \in 0..n
  BY <1>1, SMT
<1>10. Group(entries, n, now) = Victims(entries, now)
  BY DEF Group, Victims, Spare, InOrder, n
<1> QED BY <1>7, <1>8, <1>9, <1>10

-----------------------------------------------------------------------------
(* The operations *)

AllSound(entries, t) == \A p \in DOMAIN entries : Sound(entries[p], t)

\* An entry that is stale at `now` loses its stamp or gets a new one.
Lapses(e, f, now) == IsStale(e, now) /\ f.in_flight_since # e.in_flight_since

\* What an operation does to an entry that is registered before and after.
Kept(e, f, now) ==
  /\ f.standing = e.standing /\ f.worth = e.worth /\ f.reference = e.reference
  /\ f.in_flight = e.in_flight \/ Lapses(e, f, now)
  /\ e.banned => f.banned \/ f.connected

\* What an operation that may insert p can return.
Inserts(entries, p, result, now) ==
  /\ IsPeerMap(result.entries, PeerEntry)
  /\ result.shed \subseteq DOMAIN entries \cup {p}
  /\ DOMAIN result.entries = (DOMAIN entries \cup {p}) \ result.shed
  /\ \A q \in result.shed \cap DOMAIN entries : ~entries[q].connected
  /\ \A q \in DOMAIN entries \cap DOMAIN result.entries :
       Kept(entries[q], result.entries[q], now)
  /\ p \notin DOMAIN entries =>
       \/ Cardinality(DOMAIN result.entries) <= Capacity
       \/ \A q \in DOMAIN result.entries : result.entries[q].connected
  /\ \A v \in DOMAIN entries \ DOMAIN result.entries, k \in DOMAIN result.entries :
       Spares(entries[v], result.entries[k], now)
  /\ p \in DOMAIN result.entries \ DOMAIN entries => result.entries[p].in_flight = 0
  /\ \A t \in Nat : AllSound(entries, t) => AllSound(result.entries, t)

LEMMA ConnectedLemma ==
  ASSUME NEW e \in PeerEntry, NEW now
  PROVE  /\ Connected(e) \in PeerEntry
         /\ Kept(e, Connected(e), now)
         /\ \A t \in Nat : Sound(e, t) => Sound(Connected(e), t)
<1> DEFINE f == Connected(e)
<1>1. /\ f \in PeerEntry /\ f.connected /\ ~f.banned /\ f.standing = e.standing
      /\ f.worth = e.worth /\ f.reference = e.reference
      /\ f.in_flight = e.in_flight /\ f.in_flight_since = e.in_flight_since
  BY Zenon DEF PeerEntry, Connected
<1> HIDE DEF f
<1>2. Kept(e, f, now)
  BY <1>1 DEF Kept
<1>3. \A t \in Nat : Sound(e, t) => Sound(f, t)
  BY <1>1, SMT DEF Sound
<1> QED BY <1>1, <1>2, <1>3 DEF f

LEMMA DisconnectedLemma ==
  ASSUME NEW e \in PeerEntry, NEW banned \in BOOLEAN, NEW now
  PROVE  /\ Disconnected(e, banned) \in PeerEntry
         /\ Kept(e, Disconnected(e, banned), now)
         /\ \A t \in Nat : Sound(e, t) => Sound(Disconnected(e, banned), t)
<1> DEFINE f == Disconnected(e, banned)
<1>1. /\ f \in PeerEntry /\ ~f.connected /\ f.banned = (e.banned \/ banned)
      /\ f.standing = e.standing /\ f.worth = e.worth /\ f.reference = e.reference
      /\ f.in_flight = e.in_flight /\ f.in_flight_since = e.in_flight_since
  BY Zenon DEF PeerEntry, Disconnected
<1> HIDE DEF f
<1>2. Kept(e, f, now)
  BY <1>1, Zenon DEF Kept
<1>3. \A t \in Nat : Sound(e, t) => Sound(f, t)
  BY <1>1, SMT DEF Sound
<1> QED BY <1>1, <1>2, <1>3 DEF f

\* A map in which one entry is replaced by what `Kept` allows.
LEMMA ReplaceLemma ==
  ASSUME NEW entries, IsPeerMap(entries, PeerEntry), NEW p \in DOMAIN entries,
         NEW now, NEW f \in PeerEntry, Kept(entries[p], f, now),
         \A t \in Nat : Sound(entries[p], t) => Sound(f, t)
  PROVE  LET map == [entries EXCEPT ![p] = f]
         IN  /\ IsPeerMap(map, PeerEntry)
             /\ DOMAIN map = DOMAIN entries
             /\ \A q \in DOMAIN entries : Kept(entries[q], map[q], now)
             /\ \A t \in Nat : AllSound(entries, t) => AllSound(map, t)
<1> DEFINE map == [entries EXCEPT ![p] = f]
<1>1. /\ DOMAIN map = DOMAIN entries /\ IsPeerMap(map, PeerEntry)
      /\ map[p] = f /\ \A q \in DOMAIN entries \ {p} : map[q] = entries[q]
  BY Zenon DEF IsPeerMap
<1> HIDE DEF map
<1>2. \A q \in DOMAIN entries : Kept(entries[q], map[q], now)
  BY <1>1, Zenon DEF Kept
<1>3. \A t \in Nat : AllSound(entries, t) => AllSound(map, t)
  BY <1>1, Zenon DEF AllSound
<1> QED BY <1>1, <1>2, <1>3 DEF map

\* Inserting an idle entry and enforcing the capacity.
LEMMA InsertLemma ==
  ASSUME NEW entries, IsPeerMap(entries, PeerEntry), NEW now \in Nat,
         NEW p \in Peer \ DOMAIN entries, NEW e \in PeerEntry,
         e.in_flight = 0, \A t \in Nat : Sound(e, t),
         NEW result \in EnforceCapacity(With(entries, p, e), now)
  PROVE  Inserts(entries, p, result, now)
<1> DEFINE more == With(entries, p, e)
<1>1. /\ IsPeerMap(more, PeerEntry) /\ DOMAIN more = DOMAIN entries \cup {p}
      /\ more[p] = e /\ \A q \in DOMAIN entries : more[q] = entries[q]
  BY WithLemma
<1> HIDE DEF more
<1>2. /\ IsPeerMap(result.entries, PeerEntry)
      /\ result.shed \subseteq DOMAIN more
      /\ DOMAIN result.entries = DOMAIN more \ result.shed
      /\ \A q \in result.shed : ~more[q].connected
      /\ \A q \in DOMAIN result.entries : result.entries[q] = Reclaimed(more[q], now)
      /\ \/ Cardinality(DOMAIN result.entries) <= Capacity
         \/ \A q \in DOMAIN result.entries : result.entries[q].connected
      /\ \A v \in result.shed, k \in DOMAIN result.entries :
           Spares(more[v], result.entries[k], now)
  BY <1>1, EnforceCapacityLemma DEF more
<1>3. \A q \in DOMAIN more : more[q] \in PeerEntry
  BY <1>1 DEF IsPeerMap
<1>4. \A q \in DOMAIN entries \cap DOMAIN result.entries :
        Kept(entries[q], result.entries[q], now)
  BY <1>1, <1>2, <1>3, ReclaimedLemma DEF Kept, Lapses, IsStale, SameHistory
<1>5. ASSUME NEW t \in Nat, AllSound(entries, t) PROVE AllSound(result.entries, t)
  <2>1. \A q \in DOMAIN more : Sound(more[q], t)
    BY <1>1, <1>5 DEF AllSound
  <2> QED BY <1>2, <1>3, <2>1, ReclaimedLemma DEF AllSound
<1>6. \A v \in DOMAIN entries \ DOMAIN result.entries, k \in DOMAIN result.entries :
        Spares(entries[v], result.entries[k], now)
  BY <1>1, <1>2
<1>7. p \in DOMAIN result.entries => result.entries[p].in_flight = 0
  <2>1. ASSUME p \in DOMAIN result.entries
        PROVE  more[p] \in PeerEntry /\ result.entries[p] = Reclaimed(e, now)
    BY <1>1, <1>2, <1>3, <2>1
  <2>2. Reclaimed(e, now).in_flight = 0
    BY Zenon DEF Reclaimed, PeerEntry
  <2> QED BY <2>1, <2>2
<1> QED BY <1>1, <1>2, <1>4, <1>5, <1>6, <1>7 DEF Inserts

\* An operation that finds p registered.
LEMMA UnchangedLemma ==
  ASSUME NEW entries, IsPeerMap(entries, PeerEntry), NEW now,
         NEW p \in DOMAIN entries, NEW result \in Unchanged(entries)
  PROVE  Inserts(entries, p, result, now)
<1>1. result.entries = entries /\ result.shed = {}
  BY DEF Unchanged
<1>2. \A q \in DOMAIN entries : Kept(entries[q], entries[q], now)
  BY DEF Kept
<1> QED BY <1>1, <1>2 DEF Inserts

\* upsert_candidate, mark_connected and set_connection_class.
LEMMA UpsertCandidateLemma ==
  ASSUME NEW entries, IsPeerMap(entries, PeerEntry), NEW now \in Nat, NEW p \in Peer,
         NEW result \in UpsertCandidate(entries, p, now)
  PROVE  Inserts(entries, p, result, now)
<1>1. CASE p \in DOMAIN entries
  BY <1>1, UnchangedLemma DEF UpsertCandidate
<1>2. CASE p \notin DOMAIN entries
  <2>1. result \in EnforceCapacity(With(entries, p, ColdEntry(now)), now)
    BY <1>2 DEF UpsertCandidate
  <2> QED BY <1>2, <2>1, ColdEntryLemma, InsertLemma
<1> QED BY <1>1, <1>2

LEMMA SetConnectionClassLemma ==
  ASSUME NEW entries, IsPeerMap(entries, PeerEntry), NEW now \in Nat, NEW p \in Peer,
         NEW result \in SetConnectionClass(entries, p, now)
  PROVE  Inserts(entries, p, result, now)
<1>1. SetConnectionClass(entries, p, now) = UpsertCandidate(entries, p, now)
  BY DEF SetConnectionClass, UpsertCandidate
<1> QED BY <1>1, UpsertCandidateLemma

LEMMA MarkConnectedLemma ==
  ASSUME NEW entries, IsPeerMap(entries, PeerEntry), NEW now \in Nat, NEW p \in Peer,
         NEW result \in MarkConnected(entries, p, now)
  PROVE  Inserts(entries, p, result, now)
<1>1. CASE p \in DOMAIN entries
  <2> DEFINE map == [entries EXCEPT ![p] = Connected(entries[p])]
  <2>1. result.entries = map /\ result.shed = {}
    BY <1>1 DEF MarkConnected, Unchanged
  <2>2. entries[p] \in PeerEntry
    BY <1>1 DEF IsPeerMap
  <2>3. /\ IsPeerMap(map, PeerEntry) /\ DOMAIN map = DOMAIN entries
        /\ \A q \in DOMAIN entries : Kept(entries[q], map[q], now)
        /\ \A t \in Nat : AllSound(entries, t) => AllSound(map, t)
    BY <1>1, <2>2, ConnectedLemma, ReplaceLemma
  <2> HIDE DEF map
  <2> QED BY <1>1, <2>1, <2>3 DEF Inserts
<1>2. CASE p \notin DOMAIN entries
  <2> DEFINE e == [ColdEntry(now) EXCEPT !.connected = TRUE]
  <2>1. result \in EnforceCapacity(With(entries, p, e), now)
    BY <1>2 DEF MarkConnected
  <2>2. e \in PeerEntry /\ e.in_flight = 0 /\ \A t \in Nat : Sound(e, t)
    BY ConnectedEntryLemma
  <2> HIDE DEF e
  <2> QED BY <1>2, <2>1, <2>2, InsertLemma
<1> QED BY <1>1, <1>2
=============================================================================

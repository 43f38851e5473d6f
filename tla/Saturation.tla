----------------------------- MODULE Saturation -----------------------------
(***************************************************************************)
(* What the engine learns about whole classes of peers: the saturation     *)
(* point of each class and the penalty of relayed paths (SaturationModel   *)
(* and RelayModel, src/src/scoring.rs), together with how the engine       *)
(* attributes an outcome to a class and to a load (src/src/engine.rs): the *)
(* dispatch record select leaves, or else the account at settlement.       *)
(*                                                                         *)
(* Points and mean rates are numbers of 1/Unit, rounded down, in place of  *)
(* 64-bit floats.  Of the registry only the connection class and the       *)
(* account of a peer matter; a peer without an entry is one without class, *)
(* work in flight and record.  Which peers a select picks, when an account *)
(* has expired and whom an eviction sheds are free choices here.           *)
(***************************************************************************)
EXTENDS Integers, FiniteSets

CONSTANTS
  Peer,
  Kinds,        \* the connection kinds dig-nat reports (TraversalKind)
  Rates,        \* the throughputs measured
  Unit,         \* fractions of a range, or of a rate, kept apart
  MaxInFlight,  \* bound on the account of a peer
  MaxCount,     \* bound on the count given to on_dispatch
  MaxSamples,   \* bound on the measured successes
  None

ASSUME UnitAssumption == Unit \in Nat \ {0}
ASSUME RateAssumption == Rates \subseteq Nat \ {0}
ASSUME NoneAssumption == None \notin Nat
ASSUME LimitAssumption == MaxInFlight \in Nat /\ MaxCount \in Nat /\ MaxSamples \in Nat

Class == {"direct", "relayed", "unknown"}

\* Every kind but the relayed one is a path between the peers themselves.
ClassOf(kind) ==
  IF kind = None THEN "unknown" ELSE IF kind = "relayed" THEN "relayed" ELSE "direct"

Larger(a, b) == IF a > b THEN a ELSE b
Smaller(a, b) == IF a < b THEN a ELSE b

VARIABLES
  point,             \* SaturationEstimate::point of each class, in 1/Unit
  best_throughput,
  best_concurrency,
  samples,           \* samples of each class, no further than Memory
  mean,              \* RelayModel's mean rate of relayed and other transfers
  mean_samples,
  connection_class,  \* of each peer
  in_flight,
  dispatched,        \* the dispatch record of each peer, or None
  heard,             \* history: the (load, rate) pairs each class was told
  met,               \* history: the highest limit a select found for each
                     \* peer since its account was last empty
  pushed             \* history: what each account may have beyond it

estimates == <<point, best_throughput, best_concurrency, samples>>
relay == <<mean, mean_samples>>
vars == <<estimates, relay, connection_class, in_flight, dispatched, heard, met, pushed>>

-----------------------------------------------------------------------------
(* The estimators *)

Seed == [direct |-> 4, relayed |-> 2, unknown |-> 3]

\* The weight of a sample is 1 over their number, but never below 0.1.
Memory == 10
Blend(old, target, n) == ((n - 1) * old + target) \div n

Clamped(x) == Larger(Unit, Smaller(64 * Unit, x))

\* Fault: a success at a low load pulls the point down to it.
RaiseTargetAtLoad(load, old) == load * Unit

\* A rate as good as the best one lifts the point to the load it was got at.
RaiseTarget(load, old) == Larger(load * Unit, old)

BestYet(class, rate) == rate >= best_throughput[class]

\* More ranges at once, and each clearly slower.
Oversubscribed(class, load, rate) ==
  load > best_concurrency[class] /\ 10 * rate < 8 * best_throughput[class]

\* SaturationEstimate::observe, of a positive rate.
ObserveSaturation(class, load, rate) ==
  LET n == Smaller(samples[class] + 1, Memory)
      Toward(target) == Clamped(Blend(point[class], target, n))
  IN  /\ samples' = [samples EXCEPT ![class] = n]
      /\ IF BestYet(class, rate)
         THEN /\ best_throughput' = [best_throughput EXCEPT ![class] = rate]
              /\ best_concurrency' = [best_concurrency EXCEPT ![class] = load]
              /\ point' = [point EXCEPT ![class] = Toward(RaiseTarget(load, @))]
         ELSE /\ UNCHANGED <<best_throughput, best_concurrency>>
              /\ point' = [point EXCEPT ![class] =
                   IF Oversubscribed(class, load, rate)
                   THEN Toward(best_concurrency[class] * Unit) ELSE @]

Path == {"relayed", "other"}
PathOf(class) == IF class = "relayed" THEN "relayed" ELSE "other"

\* Fault: the mean starts at nothing instead of the first rate.
MeanFromZero(old, rate, n) == Blend(IF old = None THEN 0 ELSE old, rate * Unit, n + 1)

\* The first sample has all the weight.
NextMean(old, rate, n) == IF old = None THEN rate * Unit ELSE Blend(old, rate * Unit, n)

\* RelayModel::observe
ObserveRelay(path, rate) ==
  LET n == Smaller(mean_samples[path] + 1, Memory)
  IN  /\ mean_samples' = [mean_samples EXCEPT ![path] = n]
      /\ mean' = [mean EXCEPT ![path] = NextMean(@, rate, n)]

\* RelayModel::penalty as a pair <<numerator, denominator>>: the ratio of the
\* means between 1/4 and 1, and 0.85 before both are known.
Penalty ==
  IF None \in {mean["relayed"], mean["other"]} THEN <<85, 100>>
  ELSE IF 4 * mean["relayed"] < mean["other"] THEN <<1, 4>>
  ELSE IF mean["relayed"] > mean["other"] THEN <<1, 1>>
  ELSE <<mean["relayed"], mean["other"]>>

-----------------------------------------------------------------------------
(* The history of the accounts *)

\* What was pushed is never more than what is in flight now.
Watch(limits, more) ==
  /\ met' = [p \in Peer |->
       IF in_flight'[p] = 0 THEN 0 ELSE Larger(met[p], limits[p])]
  /\ pushed' = [p \in Peer |-> Smaller(pushed[p] + more[p], in_flight'[p])]

Nothing == [p \in Peer |-> 0]

-----------------------------------------------------------------------------
(* The calls *)

Init ==
  /\ point = [c \in Class |-> Seed[c] * Unit]
  /\ best_throughput = [c \in Class |-> 0]
  /\ best_concurrency = [c \in Class |-> 1]
  /\ samples = [c \in Class |-> 0]
  /\ mean = [t \in Path |-> None]
  /\ mean_samples = [t \in Path |-> 0]
  /\ connection_class = [p \in Peer |-> None]
  /\ in_flight = [p \in Peer |-> 0]
  /\ dispatched = [p \in Peer |-> None]
  /\ heard = [c \in Class |-> {}]
  /\ met = [p \in Peer |-> 0]
  /\ pushed = [p \in Peer |-> 0]

\* f64::round, half up.
SaturationPoint(class) == (2 * point[class] + Unit) \div (2 * Unit)

\* Fault: the headroom forgets what is already in flight.
HeadroomOfIdle(limit, load) == limit

Headroom(limit, load) == IF limit > load THEN limit - load ELSE 0

Limit(p) == SaturationPoint(ClassOf(connection_class[p]))

\* What there is room for; a peer that is active already gets one range less.
Room(p, active) ==
  LET headroom == Headroom(Limit(p), in_flight[p])
  IN  IF p \in active /\ headroom > 0 THEN headroom - 1 ELSE headroom

\* The ranges a selected peer is granted, and accounted for.
Grant(p, active) == Larger(1, Room(p, active))

\* `chosen` are picked, by a select with nobody active or by a rebalance that
\* de-ranks `active`.  The record holds the load before the grant, and replaces
\* an older one.
Select(chosen, active) ==
  /\ \A p \in chosen : in_flight[p] + Grant(p, active) <= MaxInFlight
  /\ dispatched' = [p \in Peer |->
       IF p \in chosen
       THEN [in_flight_at_dispatch |-> in_flight[p],
             class |-> ClassOf(connection_class[p])]
       ELSE dispatched[p]]
  /\ in_flight' = [p \in Peer |->
       IF p \in chosen THEN in_flight[p] + Grant(p, active) ELSE in_flight[p]]
  /\ Watch([p \in Peer |-> IF p \in chosen THEN Limit(p) ELSE 0],
           [p \in Peer |-> IF p \in chosen /\ in_flight[p] >= Limit(p) THEN 1 ELSE 0])
  /\ UNCHANGED <<estimates, relay, connection_class, heard>>

OnDispatch(p, count) ==
  /\ in_flight[p] + count <= MaxInFlight
  /\ in_flight' = [in_flight EXCEPT ![p] = @ + count]
  /\ Watch(Nothing, [Nothing EXCEPT ![p] = count])
  /\ UNCHANGED <<estimates, relay, connection_class, dispatched, heard>>

\* on_connection_class, or a candidate that names a kind.
SetConnectionClass(p, kind) ==
  /\ connection_class' = [connection_class EXCEPT ![p] = kind]
  /\ UNCHANGED <<estimates, relay, in_flight, dispatched, heard, met, pushed>>

\* Whom an outcome is attributed to: the record, or the present.
AttributedClass(p) ==
  IF dispatched[p] # None THEN dispatched[p].class ELSE ClassOf(connection_class[p])

AttributedLoad(p) ==
  Larger(1, IF dispatched[p] # None THEN dispatched[p].in_flight_at_dispatch
            ELSE in_flight[p])

\* Fault: releasing what is not there.
ReleaseWrapping(load) == load - 1

Release(load) == IF load > 0 THEN load - 1 ELSE 0

\* The part every outcome has: the record is used up, one range released.
Settle(p) ==
  /\ dispatched' = [dispatched EXCEPT ![p] = None]
  /\ in_flight' = [in_flight EXCEPT ![p] = Release(@)]
  /\ Watch(Nothing, Nothing)

\* A success of a rate that can be told.
RecordSuccess(p, rate) ==
  LET class == AttributedClass(p)
      load == AttributedLoad(p)
  IN  /\ samples["direct"] + samples["relayed"] + samples["unknown"] < MaxSamples
      /\ ObserveSaturation(class, load, rate)
      /\ ObserveRelay(PathOf(class), rate)
      /\ heard' = [heard EXCEPT ![class] = @ \cup {<<load, rate>>}]
      /\ Settle(p)
      /\ UNCHANGED connection_class

\* Any other outcome moves no model.
RecordOther(p) ==
  /\ Settle(p)
  /\ UNCHANGED <<estimates, relay, connection_class, heard>>

\* A select or rebalance finds the account of p expired; the record stays.
Reclaim(p) ==
  /\ in_flight' = [in_flight EXCEPT ![p] = 0]
  /\ Watch(Nothing, Nothing)
  /\ UNCHANGED <<estimates, relay, connection_class, dispatched, heard>>

\* p is evicted or removed, and pruned.
Forget(p) ==
  /\ connection_class' = [connection_class EXCEPT ![p] = None]
  /\ in_flight' = [in_flight EXCEPT ![p] = 0]
  /\ dispatched' = [dispatched EXCEPT ![p] = None]
  /\ Watch(Nothing, Nothing)
  /\ UNCHANGED <<estimates, relay, heard>>

Next ==
  \/ \E chosen \in SUBSET Peer \ {{}}, active \in SUBSET Peer : Select(chosen, active)
  \/ \E p \in Peer : RecordOther(p) \/ Reclaim(p) \/ Forget(p)
  \/ \E p \in Peer, count \in 0..MaxCount : OnDispatch(p, count)
  \/ \E p \in Peer, kind \in Kinds : SetConnectionClass(p, kind)
  \/ \E p \in Peer, rate \in Rates : RecordSuccess(p, rate)

Spec == Init /\ [][Next]_vars

-----------------------------------------------------------------------------
(* Properties *)

Record == [in_flight_at_dispatch : 0..MaxInFlight, class : Class]

\* Accounts stay counts however many outcomes come for no range, points within
\* 1 and 64 ranges.
TypeOK ==
  /\ point \in [Class -> Unit..(64 * Unit)]
  /\ best_throughput \in [Class -> Nat]
  /\ best_concurrency \in [Class -> Nat \ {0}]
  /\ samples \in [Class -> 0..Memory]
  /\ mean \in [Path -> Nat \cup {None}]
  /\ mean_samples \in [Path -> 0..Memory]
  /\ connection_class \in [Peer -> Kinds \cup {None}]
  /\ in_flight \in [Peer -> 0..MaxInFlight]
  /\ dispatched \in [Peer -> Record \cup {None}]

Steady(class) ==
  \A a, b \in heard[class] : 10 * a[2] >= 8 * b[2]

\* A saturation point is earned and kept (scoring.rs:147-169): it is never
\* above both its seed and every load some success was attributed to, and it
\* is below its seed only if the rates the class was told differ clearly.
PointWithinEvidence ==
  \A c \in Class :
    /\ point[c] <= Seed[c] * Unit \/ \E o \in heard[c] : point[c] <= o[1] * Unit
    /\ Steady(c) => point[c] >= Seed[c] * Unit

\* What is left of SPEC 4.4-B (engine.rs:353): since its account was last
\* empty, a peer exceeds the highest limit a select found for it by no more than
\* the dispatches outside select and one range for each select that found it
\* saturated, active or not; also when its class or the points change between two selects.
OverloadCounted ==
  \A p \in Peer : in_flight[p] <= met[p] + pushed[p]

RatesOf(path) ==
  UNION {{o[2] : o \in heard[c]} : c \in {c \in Class : PathOf(c) = path}}

\* The penalty of relayed paths is in the range of the ratios of what was
\* measured on both kinds of path (scoring.rs:214-225): none if every relayed
\* transfer was as fast as every other one, at least the worst ratio, at most
\* the best, within 1/4 and 1.
PenaltyFair ==
  \A slowR, fastR \in RatesOf("relayed"), slowO, fastO \in RatesOf("other") :
    /\ \A r \in RatesOf("relayed") : slowR <= r /\ r <= fastR
    /\ \A r \in RatesOf("other") : slowO <= r /\ r <= fastO
    => /\ Penalty[1] * fastO >= Penalty[2] * Smaller(slowR, fastO)
       /\ Penalty[1] * slowO * 4 <= Penalty[2] * Larger(slowO, 4 * fastR)

\* The model "lowers it when higher concurrency coincides with degraded
\* per-range throughput" (scoring.rs:110-111): such an outcome never raises
\* the point.
DegradationLowers ==
  [][\A p \in Peer, rate \in Rates :
       RecordSuccess(p, rate) /\ Oversubscribed(AttributedClass(p), AttributedLoad(p), rate)
         => point'[AttributedClass(p)] <= point[AttributedClass(p)]]_vars
=============================================================================

------------------------------ MODULE Quality -------------------------------
(***************************************************************************)
(* The learned quality of one peer (src/src/quality.rs), as record_outcome *)
(* moves it (apply_outcome_to_quality, src/src/engine.rs), and the score   *)
(* it gives the peer, load and path apart (src/src/scoring.rs).            *)
(*                                                                         *)
(* Throughputs are in 1/Unit and reliabilities in 1/Scale, rounded down,   *)
(* in place of 64-bit floats.  A sample count is kept no further than the  *)
(* weights read it.  The round-trip estimate is the same estimator over    *)
(* other samples and no decision reads it: it is left out.                 *)
(***************************************************************************)
EXTENDS Registry

CONSTANTS
  Rates,      \* the throughputs measured
  Unit,       \* fractions of a throughput kept apart
  Scale,      \* a reliability of 1
  MaxSamples, \* stands for u64::MAX: the count of outcomes saturates here
  Salts,      \* the tie-break keys a peer may have, times 1e-6 in the code
  FloorDepth, \* the verification-failure floor, 1.0e12
  Bonuses     \* the exploration bonuses a cold peer may be given

ASSUME RatesAssumption == Rates \subseteq Nat \ {0} /\ Unit \in Nat \ {0}
ASSUME ScaleAssumption == Scale \in Nat \ {0}
ASSUME SamplesAssumption == MaxSamples \in Nat \ {0}
ASSUME ScoreAssumption == Salts \subseteq Nat /\ FloorDepth \in Nat /\ Bonuses \subseteq Nat

VARIABLES
  throughput,   \* Estimate: mean or None, mad, samples up to Bootstrap
  reliability,  \* rate or None, samples up to Responsive, hard_failures > 0
  samples,      \* PeerQuality::samples
  seen          \* history: the extremes measured, the latest, how often in a row

vars == <<throughput, reliability, samples, seen>>

Smaller(a, b) == IF a < b THEN a ELSE b
Larger(a, b) == IF a > b THEN a ELSE b
Distance(a, b) == IF a > b THEN a - b ELSE b - a

\* (1 - alpha) * old + alpha * sample
Blend(old, sample, alpha) ==
  ((alpha.den - alpha.num) * old + alpha.num * sample) \div alpha.den

-----------------------------------------------------------------------------
(* Estimate *)

\* Beyond 6 samples 1/(n+1) is below the steady weight 0.15.
Bootstrap == 6

\* Fault: a fixed weight.
FixedAlpha(e) == [num |-> 1, den |-> 10]

\* The larger of 1/(n+1) and 0.15 + 0.45 * volatility, where the volatility
\* is mad / mean and at most 1.
NextAlpha(e) ==
  LET volatile == [num |-> 15 * e.mean + 45 * Smaller(e.mad, e.mean), den |-> 100 * e.mean]
  IN  IF volatile.num * (e.samples + 1) >= volatile.den
      THEN volatile ELSE [num |-> 1, den |-> e.samples + 1]

\* Fault: the sample that sets the mean is not counted.
ObserveUncounted(e, sample) ==
  IF e.mean = None THEN [e EXCEPT !.mean = sample]
  ELSE [mean    |-> Blend(e.mean, sample, NextAlpha(e)),
        mad     |-> Blend(e.mad, Distance(sample, e.mean), NextAlpha(e)),
        samples |-> Smaller(e.samples + 1, Bootstrap)]

\* Estimate::observe; the deviation is from the mean before the sample.
Observe(e, sample) ==
  [mean    |-> IF e.mean = None THEN sample ELSE Blend(e.mean, sample, NextAlpha(e)),
   mad     |-> IF e.mean = None THEN 0
               ELSE Blend(e.mad, Distance(sample, e.mean), NextAlpha(e)),
   samples |-> Smaller(e.samples + 1, Bootstrap)]

-----------------------------------------------------------------------------
(* Reliability *)

\* From the fourth sample on the weight is 0.25.
Responsive == 3

\* The first sample replaces whatever prior was seeded.
Judge(r, target) ==
  [r EXCEPT !.rate = IF @ = None THEN target
                     ELSE Blend(@, target, [num |-> 1, den |-> r.samples + 1]),
            !.samples = Smaller(@ + 1, Responsive)]

\* Fault: a verification failure weighs what any failure does.
FailHardOnce(r) == [Judge(r, 0) EXCEPT !.failed = TRUE]

\* A verification failure is folded in three times.
FailHard(r) == [Judge(Judge(Judge(r, 0), 0), 0) EXCEPT !.failed = TRUE]

\* Fault: a stalled or broken transfer is nobody's fault.
FailSoftBlameless(r) == r

FailSoft(r) == Judge(r, 0)

Succeed(r) == Judge(r, Scale)

-----------------------------------------------------------------------------
(* Outcomes *)

\* An entry comes from a candidate or a class, with a prior of 0.5, or from the
\* pool, without.
Init ==
  /\ throughput = [mean |-> None, mad |-> 0, samples |-> 0]
  /\ \E prior \in {None, Scale \div 2} :
       reliability = [rate |-> prior, samples |-> 0, failed |-> FALSE]
  /\ samples = 0
  /\ seen = [slowest |-> None, fastest |-> None, latest |-> None, times |-> 0]

\* bump_samples, of every outcome.
Counted == samples' = Smaller(samples + 1, MaxSamples)

\* Only how often up to MaxTimes is told apart.
MaxTimes == 4

Saw(rate) ==
  [slowest |-> IF seen.slowest = None THEN rate ELSE Smaller(seen.slowest, rate),
   fastest |-> IF seen.fastest = None THEN rate ELSE Larger(seen.fastest, rate),
   latest  |-> rate,
   times   |-> IF seen.latest = rate THEN Smaller(seen.times + 1, MaxTimes) ELSE 1]

SuccessMeasured(rate) ==
  /\ Counted
  /\ throughput' = Observe(throughput, rate * Unit)
  /\ reliability' = Succeed(reliability)
  /\ seen' = Saw(rate)

\* No bytes or no duration: nothing to derive a throughput from.
SuccessUnmeasured ==
  /\ Counted
  /\ reliability' = Succeed(reliability)
  /\ UNCHANGED <<throughput, seen>>

\* Interrupted, or a failure the peer is to blame for.
SoftFailure ==
  /\ Counted
  /\ reliability' = FailSoft(reliability)
  /\ UNCHANGED <<throughput, seen>>

HardFailure ==
  /\ Counted
  /\ reliability' = FailHard(reliability)
  /\ UNCHANGED <<throughput, seen>>

\* The host's doing: it moves no estimate, and counts.
Cancelled == Counted /\ UNCHANGED <<throughput, reliability, seen>>

Next ==
  \/ \E rate \in Rates : SuccessMeasured(rate)
  \/ SuccessUnmeasured \/ SoftFailure \/ HardFailure \/ Cancelled

Spec == Init /\ [][Next]_vars

-----------------------------------------------------------------------------
(* What is read from it *)

IsCold == samples = 0

IsBadSource == reliability.failed /\ 2 * reliability.rate < Scale

\* throughput * (1 - volatility/2) * reliability * (1 + reliability)/2
\* * (0.3 + 0.7 * n/(n+4)), as a fraction.
MeasuredScore ==
  [num |-> IF throughput.mean = None THEN 0
           ELSE (2 * throughput.mean - Smaller(throughput.mad, throughput.mean))
                  * reliability.rate * (Scale + reliability.rate)
                  * (3 * (samples + 4) + 7 * samples),
   den |-> samples + 4]

\* score_peer: in 1/(40 * Unit * Scale^2), the constant factors of the product,
\* the floor and the bonus included.  The bonus is never negative
\* (src/src/engine.rs:197-206).
Score(salt, bonus) ==
  CASE IsCold      -> [num |-> bonus, den |-> 1]
    [] IsBadSource -> [num |-> salt - FloorDepth, den |-> 1]
    [] OTHER       -> MeasuredScore

-----------------------------------------------------------------------------
(* Properties *)

Estimate == [mean : Nat \cup {None}, mad : Nat, samples : 0..Bootstrap]
Reliability == [rate : 0..Scale \cup {None}, samples : 0..Responsive, failed : BOOLEAN]

\* Rates stay probabilities, and what is measured is there: an estimate has
\* a mean iff it has samples.
TypeOK ==
  /\ throughput \in Estimate
  /\ throughput.mean = None <=> throughput.samples = 0
  /\ throughput.mean # None => throughput.mean > 0
  /\ reliability \in Reliability
  /\ reliability.rate = None => reliability.samples = 0
  /\ reliability.failed => reliability.samples > 0
  /\ samples \in 0..MaxSamples

\* The estimator's promises of recency and of responsive degradation
\* (quality.rs:14-19): after k equal samples in a row the mean is within
\* 0.85^k of the span of all that was ever measured, from any history, whether
\* the peer got slower or faster; up to one rounding per sample.
FollowsShift ==
  seen.times > 0 =>
    LET k == seen.times
        span == Unit * (seen.fastest - seen.slowest)
    IN  Distance(throughput.mean, Unit * seen.latest) * 20^k <= 17^k * span + k * 20^k

View ==
  WithQuality(ColdEntry(0),
    IF IsCold THEN "cold"
    ELSE IF ~reliability.failed THEN "clean"
    ELSE IF IsBadSource THEN "bad" ELSE "redeemed",
    IF throughput.mean = None THEN 0 ELSE 1)

Abstract == INSTANCE Learning WITH entry <- View

\* The arithmetic moves the standing of a peer as the other modules assume:
\* above all, one verification failure makes it a bad source from any history
\* (quality.rs:180-198), and only a success can redeem it.
LearnsAsAssumed == Abstract!LearnSpec

\* A failure the peer is to blame for does not raise its score (SPEC 3.4), cold
\* or measured, with load, path and bonus the same, although it raises the
\* confidence a score is weighted with; up to the failure that sends a peer to a
\* floor above which its own key lifts it (BadSourceBelowCold in Coverage is that
\* finding).  What the host cancels raises the confidence with nothing to
\* outweigh it and is not covered.
FailureNeverHelps ==
  [][SoftFailure \/ HardFailure
       => \A salt \in Salts, bonus \in Bonuses :
            \/ Score(salt, bonus)'.num * Score(salt, bonus).den
                 <= Score(salt, bonus).num * Score(salt, bonus)'.den
            \/ IsBadSource' /\ ~IsBadSource /\ salt > FloorDepth]_vars
=============================================================================

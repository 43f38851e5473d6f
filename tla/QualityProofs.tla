---------------------------- MODULE QualityProofs ----------------------------
(***************************************************************************)
(* What the estimators of one peer do over every history of outcomes,      *)
(* whatever the rates, the unit and the scale: reliabilities stay within   *)
(* 0 and Scale, the throughput follows a shift within a number of samples, *)
(* the standing of a peer moves as Learning says, and no failure raises    *)
(* the score short of the floor of the bad sources.                        *)
(***************************************************************************)
EXTENDS Quality, TLAPS

-----------------------------------------------------------------------------
(* Reliability *)

Ordered(r) == r \in Reliability /\ (r.rate = None => r.samples = 0)

\* The new rate, by the number of samples before.
LEMMA RateLemma ==
  ASSUME NEW n \in 0..Responsive, NEW old \in 0..Scale, NEW target \in {0, Scale}
  PROVE  LET new == Blend(old, target, [num |-> 1, den |-> n + 1])
         IN  /\ new \in 0..Scale
             /\ target = 0 => /\ n = 0 => new = 0
                              /\ n = 1 => 2 * new <= old
                              /\ n = 2 => 3 * new <= 2 * old
                              /\ n = 3 => 4 * new <= 3 * old
             /\ target = Scale => new >= old
<1> DEFINE new == Blend(old, target, [num |-> 1, den |-> n + 1])
           Falls == target = 0 => /\ n = 0 => new = 0
                                  /\ n = 1 => 2 * new <= old
                                  /\ n = 2 => 3 * new <= 2 * old
                                  /\ n = 3 => 4 * new <= 3 * old
           Rises == target = Scale => new >= old
<1>1. new = (n * old + target) \div (n + 1)
  <2>1. new = (((n + 1) - 1) * old + 1 * target) \div (n + 1)
    BY DEF Blend
  <2>2. (n + 1) - 1 = n /\ 1 * target = target
    BY ScaleAssumption, SMT DEF Responsive
  <2> QED BY <2>1, <2>2, Zenon
<1>2. n = 0 \/ n = 1 \/ n = 2 \/ n = 3
  BY SMT DEF Responsive
<1> HIDE DEF new
<1>3. ASSUME n = 0 PROVE new \in 0..Scale /\ Falls /\ Rises
  <2>1. new = (0 * old + target) \div 1
    <3>1. n + 1 = 1
      BY <1>3
    <3> QED BY <1>1, <1>3, <3>1, Zenon
  <2> QED BY <1>3, <2>1, ScaleAssumption, SMT
<1>4. ASSUME n = 1 PROVE new \in 0..Scale /\ Falls /\ Rises
  <2>1. new = (1 * old + target) \div 2
    <3>1. n + 1 = 2
      BY <1>4
    <3> QED BY <1>1, <1>4, <3>1, Zenon
  <2> QED BY <1>4, <2>1, ScaleAssumption, SMT
<1>5. ASSUME n = 2 PROVE new \in 0..Scale /\ Falls /\ Rises
  <2>1. new = (2 * old + target) \div 3
    <3>1. n + 1 = 3
      BY <1>5
    <3> QED BY <1>1, <1>5, <3>1, Zenon
  <2> QED BY <1>5, <2>1, ScaleAssumption, SMT
<1>6. ASSUME n = 3 PROVE new \in 0..Scale /\ Falls /\ Rises
  <2>1. new = (3 * old + target) \div 4
    <3>1. n + 1 = 4
      BY <1>6
    <3> QED BY <1>1, <1>6, <3>1, Zenon
  <2> QED BY <1>6, <2>1, ScaleAssumption, SMT
<1>7. new \in 0..Scale /\ Falls /\ Rises
  BY <1>2, <1>3, <1>4, <1>5, <1>6
<1> QED BY <1>7 DEF new

\* One sample: the count rises to its limit, a failure takes at least a quarter
\* off the rate, a success takes nothing.
LEMMA JudgeLemma ==
  ASSUME NEW r, Ordered(r), NEW target \in {0, Scale}
  PROVE  /\ Ordered(Judge(r, target))
         /\ Judge(r, target).rate \in 0..Scale
         /\ Judge(r, target).failed = r.failed
         /\ Judge(r, target).samples = IF r.samples < Responsive THEN r.samples + 1 ELSE r.samples
         /\ target = 0 =>
              /\ r.samples = 0 => Judge(r, target).rate = 0
              /\ r.samples = 1 => 2 * Judge(r, target).rate <= r.rate
              /\ r.samples = 2 => 3 * Judge(r, target).rate <= 2 * r.rate
              /\ r.samples = 3 => 4 * Judge(r, target).rate <= 3 * r.rate
         /\ target = Scale /\ r.rate # None => Judge(r, target).rate >= r.rate
<1> DEFINE new == IF r.rate = None THEN target
                  ELSE Blend(r.rate, target, [num |-> 1, den |-> r.samples + 1])
           count == Smaller(r.samples + 1, Responsive)
<1>1. /\ r.samples \in 0..Responsive /\ r.rate \in 0..Scale \cup {None}
      /\ r.rate = None => r.samples = 0
  BY DEF Ordered, Reliability
<1>2. Judge(r, target) = [r EXCEPT !.rate = new, !.samples = count]
  BY DEF Judge
<1>3. /\ count \in 0..Responsive /\ count > 0
      /\ count = IF r.samples < Responsive THEN r.samples + 1 ELSE r.samples
  BY <1>1, SMT DEF Smaller, Responsive
<1>4. /\ new \in 0..Scale
      /\ target = 0 =>
              /\ r.samples = 0 => new = 0
              /\ r.samples = 1 => 2 * new <= r.rate
              /\ r.samples = 2 => 3 * new <= 2 * r.rate
              /\ r.samples = 3 => 4 * new <= 3 * r.rate
      /\ target = Scale /\ r.rate # None => new >= r.rate
  <2>1. CASE r.rate = None
    BY <1>1, <2>1, ScaleAssumption, SMT
  <2>2. CASE r.rate # None
    BY <1>1, <2>2, RateLemma
  <2> QED BY <2>1, <2>2
<1> HIDE DEF new, count
<1>5. /\ Judge(r, target) \in Reliability
      /\ Judge(r, target).rate = new /\ Judge(r, target).samples = count
      /\ Judge(r, target).failed = r.failed
  BY <1>2, <1>3, <1>4, Zenon DEF Ordered, Reliability
<1>6. new # None
  BY <1>4, NoneAssumption, SMT
<1> QED BY <1>3, <1>4, <1>5, <1>6, Zenon DEF Ordered

\* Three zeroes bring any rate below one half (quality.rs:185-204).
LEMMA FailHardLemma ==
  ASSUME NEW r, Ordered(r)
  PROVE  /\ Ordered(FailHard(r)) /\ FailHard(r).samples > 0
         /\ FailHard(r).failed
         /\ FailHard(r).rate \in 0..Scale
         /\ 2 * FailHard(r).rate < Scale
         /\ r.rate # None => 4 * FailHard(r).rate <= 3 * r.rate
<1> DEFINE a == Judge(r, 0)
           b == Judge(a, 0)
           c == Judge(b, 0)
<1>1. /\ Ordered(a) /\ a.rate \in 0..Scale
      /\ a.samples = IF r.samples < Responsive THEN r.samples + 1 ELSE r.samples
      /\ r.samples = 0 => a.rate = 0
      /\ r.samples = 1 => 2 * a.rate <= r.rate
      /\ r.samples = 2 => 3 * a.rate <= 2 * r.rate
      /\ r.samples = 3 => 4 * a.rate <= 3 * r.rate
  BY JudgeLemma
<1>2. /\ Ordered(b) /\ b.rate \in 0..Scale
      /\ b.samples = IF a.samples < Responsive THEN a.samples + 1 ELSE a.samples
      /\ a.samples = 0 => b.rate = 0
      /\ a.samples = 1 => 2 * b.rate <= a.rate
      /\ a.samples = 2 => 3 * b.rate <= 2 * a.rate
      /\ a.samples = 3 => 4 * b.rate <= 3 * a.rate
  BY <1>1, JudgeLemma
<1>3. /\ Ordered(c) /\ c.rate \in 0..Scale
      /\ c.samples = IF b.samples < Responsive THEN b.samples + 1 ELSE b.samples
      /\ b.samples = 0 => c.rate = 0
      /\ b.samples = 1 => 2 * c.rate <= b.rate
      /\ b.samples = 2 => 3 * c.rate <= 2 * b.rate
      /\ b.samples = 3 => 4 * c.rate <= 3 * b.rate
  BY <1>2, JudgeLemma
<1>4. FailHard(r) = [c EXCEPT !.failed = TRUE]
  BY DEF FailHard
<1> HIDE DEF a, b, c
<1>5. /\ FailHard(r) \in Reliability /\ FailHard(r).failed
      /\ FailHard(r).rate = c.rate /\ FailHard(r).samples = c.samples
  BY <1>3, <1>4, Zenon DEF Ordered, Reliability
<1>6. r.samples \in 0..Responsive /\ r.rate \in 0..Scale \cup {None}
      /\ (r.rate = None => r.samples = 0)
  BY DEF Ordered, Reliability
<1>7. /\ c.samples > 0 /\ 2 * c.rate < Scale
      /\ r.rate # None => 4 * c.rate <= 3 * r.rate
  <2>1. r.samples = 0 \/ r.samples = 1 \/ r.samples = 2 \/ r.samples = 3
    BY <1>6, SMT DEF Responsive
  <2>2. CASE r.samples = 0
    <3>1. a.rate = 0 /\ a.samples = 1 /\ b.samples = 2 /\ c.samples = 3
      BY <1>1, <1>2, <1>3, <2>2, SMT DEF Responsive
    <3>2. c.rate = 0
      BY <1>2, <1>3, <3>1, SMT
    <3> QED BY <1>6, <3>1, <3>2, ScaleAssumption, SMT
  <2>3. CASE r.samples = 1
    <3>1. a.samples = 2 /\ b.samples = 3 /\ c.samples = 3
      BY <1>1, <1>2, <1>3, <2>3, SMT DEF Responsive
    <3>2. r.rate \in 0..Scale
      BY <1>6, <2>3
    <3> QED BY <1>1, <1>2, <1>3, <2>3, <3>1, <3>2, ScaleAssumption, SMT
  <2>4. CASE r.samples = 2
    <3>1. a.samples = 3 /\ b.samples = 3 /\ c.samples = 3
      BY <1>1, <1>2, <1>3, <2>4, SMT DEF Responsive
    <3>2. r.rate \in 0..Scale
      BY <1>6, <2>4
    <3> QED BY <1>1, <1>2, <1>3, <2>4, <3>1, <3>2, ScaleAssumption, SMT
  <2>5. CASE r.samples = 3
    <3>1. a.samples = 3 /\ b.samples = 3 /\ c.samples = 3
      BY <1>1, <1>2, <1>3, <2>5, SMT DEF Responsive
    <3>2. r.rate \in 0..Scale
      BY <1>6, <2>5
    <3> QED BY <1>1, <1>2, <1>3, <2>5, <3>1, <3>2, ScaleAssumption, SMT
  <2> QED BY <2>1, <2>2, <2>3, <2>4, <2>5
<1> QED BY <1>3, <1>5, <1>7, Zenon DEF Ordered

\* A stall or a broken transfer: no higher a rate, at least a quarter off it.
LEMMA FailSoftLemma ==
  ASSUME NEW r, Ordered(r)
  PROVE  /\ Ordered(FailSoft(r)) /\ FailSoft(r).samples > 0
         /\ FailSoft(r).failed = r.failed
         /\ FailSoft(r).rate \in 0..Scale
         /\ r.rate # None => 4 * FailSoft(r).rate <= 3 * r.rate
<1>1. /\ Ordered(FailSoft(r)) /\ FailSoft(r).rate \in 0..Scale
      /\ FailSoft(r).failed = r.failed
      /\ FailSoft(r).samples = IF r.samples < Responsive THEN r.samples + 1 ELSE r.samples
      /\ r.samples = 0 => FailSoft(r).rate = 0
      /\ r.samples = 1 => 2 * FailSoft(r).rate <= r.rate
      /\ r.samples = 2 => 3 * FailSoft(r).rate <= 2 * r.rate
      /\ r.samples = 3 => 4 * FailSoft(r).rate <= 3 * r.rate
  BY JudgeLemma DEF FailSoft
<1>2. r.samples \in 0..Responsive /\ r.rate \in 0..Scale \cup {None}
  BY DEF Ordered, Reliability
<1>3. FailSoft(r).samples > 0
  BY <1>1, <1>2, SMT DEF Responsive
<1>4. ASSUME r.rate # None PROVE 4 * FailSoft(r).rate <= 3 * r.rate
  BY <1>1, <1>2, <1>4, ScaleAssumption, SMT DEF Responsive
<1> QED BY <1>1, <1>3, <1>4

LEMMA SucceedLemma ==
  ASSUME NEW r, Ordered(r)
  PROVE  /\ Ordered(Succeed(r)) /\ Succeed(r).samples > 0
         /\ Succeed(r).failed = r.failed
         /\ Succeed(r).rate \in 0..Scale
         /\ r.rate # None => Succeed(r).rate >= r.rate
<1>1. /\ Ordered(Succeed(r)) /\ Succeed(r).rate \in 0..Scale
      /\ Succeed(r).failed = r.failed
      /\ Succeed(r).samples = IF r.samples < Responsive THEN r.samples + 1 ELSE r.samples
      /\ r.rate # None => Succeed(r).rate >= r.rate
  BY JudgeLemma DEF Succeed
<1>2. r.samples \in 0..Responsive
  BY DEF Ordered, Reliability
<1>3. Succeed(r).samples > 0
  BY <1>1, <1>2, SMT DEF Responsive
<1> QED BY <1>1, <1>3

-----------------------------------------------------------------------------
(* The throughput estimate *)

\* A mean of positive numbers is positive, also rounded down.
LEMMA BlendLemma ==
  ASSUME NEW old \in Nat, NEW sample \in Nat, NEW num \in Nat, NEW den \in Nat \ {0},
         num <= den
  PROVE  LET new == Blend(old, sample, [num |-> num, den |-> den])
         IN  new \in Nat /\ (old > 0 /\ sample > 0 => new > 0)
<1> DEFINE x == (den - num) * old + num * sample
<1>1. Blend(old, sample, [num |-> num, den |-> den]) = x \div den
  BY DEF Blend
<1>2. x \in Nat
  <2>1. (den - num) * old \in Nat /\ num * sample \in Nat
    BY SMT
  <2> QED BY <2>1, SMT
<1>3. old > 0 /\ sample > 0 => x >= den
  <2> SUFFICES ASSUME old > 0, sample > 0 PROVE x >= den
    OBVIOUS
  <2>1. (den - num) * old >= den - num /\ num * sample >= num
    BY SMT
  <2>2. (den - num) * old \in Nat /\ num * sample \in Nat
    BY SMT
  <2> QED BY <2>1, <2>2, SMT
<1> HIDE DEF x
<1>4. x \div den \in Nat /\ (x >= den => x \div den > 0)
  BY <1>2, SMT
<1> QED BY <1>1, <1>3, <1>4

Measured(e) ==
  /\ e \in Estimate
  /\ e.mean = None <=> e.samples = 0
  /\ e.mean # None => e.mean > 0

\* The weight of a sample is a fraction.
LEMMA NextAlphaLemma ==
  ASSUME NEW e \in Estimate, e.mean \in Nat, e.mean > 0
  PROVE  \E num \in Nat, den \in Nat \ {0} :
           num <= den /\ NextAlpha(e) = [num |-> num, den |-> den]
<1> DEFINE num == 15 * e.mean + 45 * Smaller(e.mad, e.mean)
           den == 100 * e.mean
<1>1. e.mad \in Nat /\ e.samples \in Nat
  BY SMT DEF Estimate, Bootstrap
<1>2. Smaller(e.mad, e.mean) \in Nat /\ Smaller(e.mad, e.mean) <= e.mean
  BY <1>1, SMT DEF Smaller
<1>3. num \in Nat /\ den \in Nat \ {0} /\ num <= den
  BY <1>2, SMT
<1>4. 1 \in Nat /\ e.samples + 1 \in Nat \ {0} /\ 1 <= e.samples + 1
  BY <1>1, SMT
<1>5. NextAlpha(e) = [num |-> num, den |-> den]
        \/ NextAlpha(e) = [num |-> 1, den |-> e.samples + 1]
  BY Zenon DEF NextAlpha
<1> HIDE DEF num, den
<1> QED BY <1>3, <1>4, <1>5

LEMMA ObserveLemma ==
  ASSUME NEW e, Measured(e), NEW sample \in Nat \ {0}
  PROVE  Measured(Observe(e, sample)) /\ Observe(e, sample).mean # None
<1> DEFINE count == Smaller(e.samples + 1, Bootstrap)
<1>1. /\ e.mean \in Nat \cup {None} /\ e.mad \in Nat /\ e.samples \in 0..Bootstrap
      /\ e \in Estimate
      /\ e.mean # None => e.mean \in Nat /\ e.mean > 0
  BY DEF Measured, Estimate
<1>2. count \in 0..Bootstrap /\ count # 0
  BY <1>1, SMT DEF Smaller, Bootstrap
<1>3. \A m \in Nat, d \in Nat :
        Observe(e, sample) = [mean |-> m, mad |-> d, samples |-> count] /\ m > 0
          => Measured(Observe(e, sample)) /\ Observe(e, sample).mean # None
  <2> HIDE DEF count
  <2>1. \A m \in Nat : m # None
    BY NoneAssumption
  <2> QED BY <1>2, <2>1 DEF Measured, Estimate
<1>4. CASE e.mean = None
  <2>1. Observe(e, sample) = [mean |-> sample, mad |-> 0, samples |-> count]
    BY <1>4, Zenon DEF Observe
  <2>2. sample \in Nat /\ 0 \in Nat /\ sample > 0
    BY SMT
  <2> HIDE DEF count
  <2> QED BY <1>3, <2>1, <2>2
<1>5. CASE e.mean # None
  <2> DEFINE m == Blend(e.mean, sample, NextAlpha(e))
             d == Blend(e.mad, Distance(sample, e.mean), NextAlpha(e))
  <2>1. PICK num \in Nat, den \in Nat \ {0} :
          num <= den /\ NextAlpha(e) = [num |-> num, den |-> den]
    <3>1. e \in Estimate /\ e.mean \in Nat /\ e.mean > 0
      BY <1>1, <1>5
    <3> HIDE DEF count, m, d
    <3> QED BY <3>1, NextAlphaLemma
  <2>2. Distance(sample, e.mean) \in Nat
    BY <1>1, <1>5, SMT DEF Distance
  <2>3. m \in Nat /\ m > 0
    <3>1. e.mean \in Nat /\ e.mean > 0 /\ sample \in Nat /\ sample > 0
      BY <1>1, <1>5, SMT
    <3>2. m = Blend(e.mean, sample, [num |-> num, den |-> den])
      BY <2>1
    <3> QED BY <2>1, <3>1, <3>2, BlendLemma
  <2>4. d \in Nat
    BY <1>1, <2>1, <2>2, BlendLemma
  <2>5. Observe(e, sample) = [mean |-> m, mad |-> d, samples |-> count]
    BY <1>5, Zenon DEF Observe
  <2> HIDE DEF m, d, count
  <2> QED BY <1>3, <2>3, <2>4, <2>5
<1> QED BY <1>4, <1>5

-----------------------------------------------------------------------------
(* The invariant *)

\* A peer that was judged, or measured, has outcomes; a measured one was
\* judged too.
QualityInv ==
  /\ Measured(throughput)
  /\ Ordered(reliability)
  /\ reliability.failed => reliability.samples > 0
  /\ samples \in 0..MaxSamples
  /\ reliability.samples > 0 => samples > 0
  /\ throughput.mean # None => reliability.rate # None /\ samples > 0

LEMMA InvTypeOK == QualityInv => TypeOK
  BY DEF QualityInv, TypeOK, Measured, Ordered

LEMMA CountedLemma ==
  ASSUME QualityInv, Counted
  PROVE  samples' \in 0..MaxSamples /\ samples' > 0 /\ samples' >= samples
  BY SamplesAssumption, SMT DEF QualityInv, Counted, Smaller

\* What an outcome that judges the peer does, beside the throughput.
LEMMA JudgedStep ==
  ASSUME QualityInv, Counted, Measured(throughput'),
         Ordered(reliability'), reliability'.samples > 0
  PROVE  QualityInv'
<1>1. samples' \in 0..MaxSamples /\ samples' > 0
  BY CountedLemma
<1>2. reliability'.rate # None
  <2>1. reliability'.samples # 0
    BY SMT
  <2> QED BY <2>1 DEF Ordered
<1> QED BY <1>1, <1>2, Zenon DEF QualityInv

LEMMA InvStep ==
  ASSUME QualityInv, [Next]_vars
  PROVE  QualityInv'
<1>1. ASSUME NEW rate \in Rates, SuccessMeasured(rate) PROVE QualityInv'
  <2>1. rate * Unit \in Nat \ {0}
    <3>1. rate \in Nat \ {0} /\ Unit \in Nat \ {0}
      BY RatesAssumption
    <3> QED BY <3>1, SMT
  <2>2. Measured(throughput')
    BY <1>1, <2>1, ObserveLemma DEF QualityInv, SuccessMeasured
  <2> QED BY <1>1, <2>2, SucceedLemma, JudgedStep DEF QualityInv, SuccessMeasured
<1>2. CASE SuccessUnmeasured
  BY <1>2, SucceedLemma, JudgedStep DEF QualityInv, SuccessUnmeasured
<1>3. CASE SoftFailure
  BY <1>3, FailSoftLemma, JudgedStep DEF QualityInv, SoftFailure
<1>4. CASE HardFailure
  BY <1>4, FailHardLemma, JudgedStep DEF QualityInv, HardFailure
<1>5. CASE Cancelled
  BY <1>5, CountedLemma DEF QualityInv, Cancelled
<1>6. CASE UNCHANGED vars
  BY <1>6 DEF QualityInv, vars
<1> QED BY <1>1, <1>2, <1>3, <1>4, <1>5, <1>6 DEF Next

LEMMA InvInit == Init => QualityInv
<1> SUFFICES ASSUME Init PROVE QualityInv
  OBVIOUS
<1>1. Measured(throughput)
  BY SMT DEF Init, Measured, Estimate, Bootstrap
<1>2. PICK prior \in {None, Scale \div 2} :
        reliability = [rate |-> prior, samples |-> 0, failed |-> FALSE]
  BY DEF Init
<1>3. Scale \div 2 \in 0..Scale
  BY ScaleAssumption, SMT
<1>4. Ordered(reliability)
  BY <1>2, <1>3, SMT DEF Ordered, Reliability, Responsive
<1>5. samples \in 0..MaxSamples
  BY SamplesAssumption, SMT DEF Init
<1> QED BY <1>1, <1>2, <1>4, <1>5 DEF QualityInv, Init

LEMMA QualityInvariance == Spec => []QualityInv
<1>1. QualityInv /\ [Next]_vars => QualityInv'
  BY InvStep
<1> QED BY <1>1, InvInit, PTL DEF Spec

\* Rates stay within 0 and Scale, and an estimate has a mean exactly when it has
\* samples, for every unit, scale and set of rates.
THEOREM EstimatesInRange == Spec => []TypeOK
  BY QualityInvariance, InvTypeOK, PTL

-----------------------------------------------------------------------------
(* Recency *)

\* A weighted mean lies between its two arguments, rounded down; a weight of
\* at least 3/20 leaves at most 17/20 of the distance, and one rounding.
LEMMA ShrinkLemma ==
  ASSUME NEW old \in Nat, NEW sample \in Nat, NEW num \in Nat, NEW den \in Nat \ {0},
         num <= den, 3 * den <= 20 * num
  PROVE  LET new == Blend(old, sample, [num |-> num, den |-> den])
         IN  /\ new \in Nat
             /\ Smaller(old, sample) <= new /\ new <= Larger(old, sample)
             /\ 20 * Distance(new, sample) <= 17 * Distance(old, sample) + 20
<1> DEFINE x == (den - num) * old + num * sample
           new == x \div den
           rest == den - num
<1>1. Blend(old, sample, [num |-> num, den |-> den]) = new
  BY DEF Blend
<1>2. rest \in Nat /\ 20 * rest <= 17 * den
  BY SMT
<1>3. x \in Nat
  <2>1. rest * old \in Nat /\ num * sample \in Nat
    BY <1>2, SMT
  <2> QED BY <2>1, SMT
<1>4. new \in Nat /\ den * new <= x /\ x < den * new + den
  <2> HIDE DEF x
  <2> QED BY <1>3, SMT
<1>5. ASSUME old >= sample
      PROVE  sample <= new /\ new <= old /\ 20 * (new - sample) <= 17 * (old - sample)
  <2> DEFINE d == old - sample
  <2>1. d \in Nat /\ old = sample + d
    BY <1>5, SMT
  <2>2. x = den * sample + rest * d
    <3>1. x = rest * (sample + d) + num * sample
      BY <2>1
    <3>2. rest * (sample + d) = rest * sample + rest * d
      BY <1>2, <2>1, SMT
    <3>3. rest * sample + num * sample = den * sample
      BY <1>2, SMT
    <3>4. rest * sample \in Nat /\ rest * d \in Nat /\ num * sample \in Nat /\ den * sample \in Nat
      BY <1>2, <2>1, SMT
    <3> HIDE DEF x, rest, d
    <3> QED BY <3>1, <3>2, <3>3, <3>4, SMT
  <2> HIDE DEF x, new, rest, d
  <2>3. rest * d \in Nat /\ 20 * (rest * d) <= 17 * (den * d)
    <3>1. (20 * rest) * d <= (17 * den) * d
      BY <1>2, <2>1, SMT
    <3>2. (20 * rest) * d = 20 * (rest * d) /\ (17 * den) * d = 17 * (den * d)
      BY <1>2, <2>1, SMT
    <3> QED BY <1>2, <2>1, <3>1, <3>2, SMT
  <2>4. sample <= new
    <3> SUFFICES ASSUME new + 1 <= sample PROVE FALSE
      BY <1>4, SMT
    <3>1. den * (new + 1) <= den * sample
      BY <1>4, SMT
    <3>2. den * (new + 1) = den * new + den
      BY <1>4, SMT
    <3>3. den * sample \in Nat /\ den * new \in Nat
      BY <1>4, SMT
    <3> QED BY <1>4, <2>2, <2>3, <3>1, <3>2, <3>3, SMT
  <2> DEFINE c == new - sample
  <2>5. c \in Nat /\ new = sample + c
    BY <1>4, <2>4, SMT
  <2> HIDE DEF c
  <2>6. den * c <= rest * d
    <3>1. den * new = den * sample + den * c
      BY <2>5, SMT
    <3>2. den * sample \in Nat /\ den * c \in Nat
      BY <2>5, SMT
    <3> QED BY <1>4, <2>2, <2>3, <3>1, <3>2, SMT
  <2>7. 20 * c <= 17 * d
    <3> SUFFICES ASSUME 17 * d + 1 <= 20 * c PROVE FALSE
      BY <2>1, <2>5, SMT
    <3>1. den * (17 * d + 1) <= den * (20 * c)
      BY <2>1, <2>5, SMT
    <3>2. den * (17 * d + 1) = 17 * (den * d) + den /\ den * (20 * c) = 20 * (den * c)
      BY <2>1, <2>5, SMT
    <3>3. den * d \in Nat /\ den * c \in Nat
      BY <2>1, <2>5, SMT
    <3> QED BY <2>3, <2>6, <3>1, <3>2, <3>3, SMT
  <2>8. new <= old
    BY <2>1, <2>5, <2>7, SMT
  <2> QED BY <2>4, <2>5, <2>7, <2>8 DEF d, c
<1>6. ASSUME old < sample
      PROVE  old <= new /\ new <= sample /\ 20 * (sample - new) <= 17 * (sample - old) + 20
  <2> DEFINE d == sample - old
  <2>1. d \in Nat /\ sample = old + d
    BY <1>6, SMT
  <2>2. x = den * old + num * d /\ x + rest * d = den * sample
    <3>1. x = rest * old + num * sample
      OBVIOUS
    <3>2. num * sample = num * old + num * d
      BY <2>1, SMT
    <3>3. rest * old + num * old = den * old /\ rest * d + num * d = den * d
      BY <1>2, <2>1, SMT
    <3>4. den * sample = den * old + den * d
      BY <2>1, SMT
    <3>5. /\ rest * old \in Nat /\ rest * d \in Nat /\ num * old \in Nat /\ num * d \in Nat
          /\ den * old \in Nat /\ den * d \in Nat
      BY <1>2, <2>1, SMT
    <3> HIDE DEF x, rest, d
    <3> QED BY <3>1, <3>2, <3>3, <3>4, <3>5, SMT
  <2> HIDE DEF x, new, rest, d
  <2>3. rest * d \in Nat /\ num * d \in Nat /\ 20 * (rest * d) <= 17 * (den * d)
    <3>1. (20 * rest) * d <= (17 * den) * d
      BY <1>2, <2>1, SMT
    <3>2. (20 * rest) * d = 20 * (rest * d) /\ (17 * den) * d = 17 * (den * d)
      BY <1>2, <2>1, SMT
    <3> QED BY <1>2, <2>1, <3>1, <3>2, SMT
  <2>4. new <= sample
    <3> SUFFICES ASSUME sample + 1 <= new PROVE FALSE
      BY <1>4, SMT
    <3>1. den * (sample + 1) <= den * new
      BY <1>4, SMT
    <3>2. den * (sample + 1) = den * sample + den /\ den * sample \in Nat /\ den * new \in Nat
      BY <1>4, SMT
    <3> QED BY <1>3, <1>4, <2>2, <2>3, <3>1, <3>2, SMT
  <2>5. old <= new
    <3> SUFFICES ASSUME new + 1 <= old PROVE FALSE
      BY <1>4, SMT
    <3>1. den * (new + 1) <= den * old
      BY <1>4, SMT
    <3>2. den * (new + 1) = den * new + den /\ den * old \in Nat /\ den * new \in Nat
      BY <1>4, SMT
    <3> QED BY <1>3, <1>4, <2>2, <2>3, <3>1, <3>2, SMT
  <2> DEFINE c == sample - new
  <2>6. c \in Nat /\ sample = new + c
    BY <1>4, <2>4, SMT
  <2> HIDE DEF c
  <2>7. den * c < rest * d + den
    <3>1. den * sample = den * new + den * c
      BY <1>4, <2>6, SMT
    <3>2. den * new \in Nat /\ den * c \in Nat
      BY <1>4, <2>6, SMT
    <3> QED BY <1>3, <1>4, <2>2, <2>3, <3>1, <3>2, SMT
  <2>8. 20 * c <= 17 * d + 20
    <3> SUFFICES ASSUME 17 * d + 20 <= 20 * c PROVE 20 * c <= 17 * d + 20
      BY <2>1, <2>6, SMT
    <3> SUFFICES ASSUME 17 * d + 21 <= 20 * c PROVE FALSE
      BY <2>1, <2>6, SMT
    <3>1. den * (17 * d + 21) <= den * (20 * c)
      BY <2>1, <2>6, SMT
    <3>2. den * (17 * d + 21) = 17 * (den * d) + 21 * den /\ den * (20 * c) = 20 * (den * c)
      BY <2>1, <2>6, SMT
    <3>3. den * d \in Nat /\ den * c \in Nat
      BY <2>1, <2>6, SMT
    <3> QED BY <2>3, <2>7, <3>1, <3>2, <3>3, SMT
  <2> QED BY <2>4, <2>5, <2>8 DEF d, c
<1> HIDE DEF new
<1>7. /\ Smaller(old, sample) <= new /\ new <= Larger(old, sample)
      /\ 20 * Distance(new, sample) <= 17 * Distance(old, sample) + 20
  BY <1>4, <1>5, <1>6, SMT DEF Smaller, Larger, Distance
<1> QED BY <1>1, <1>4, <1>7 DEF new

\* Steady or volatile, early or late, a sample weighs at least 3/20.
LEMMA WeightLemma ==
  ASSUME NEW e \in Estimate, e.mean \in Nat, e.mean > 0
  PROVE  \E num \in Nat, den \in Nat \ {0} :
           /\ num <= den /\ 3 * den <= 20 * num
           /\ NextAlpha(e) = [num |-> num, den |-> den]
<1> DEFINE num == 15 * e.mean + 45 * Smaller(e.mad, e.mean)
           den == 100 * e.mean
           n == e.samples + 1
<1>1. e.mad \in Nat /\ e.samples \in Nat
  BY SMT DEF Estimate, Bootstrap
<1>2. Smaller(e.mad, e.mean) \in Nat /\ Smaller(e.mad, e.mean) <= e.mean
  BY <1>1, SMT DEF Smaller
<1>3. num \in Nat /\ den \in Nat \ {0} /\ num <= den /\ 3 * den <= 20 * num /\ n \in Nat \ {0}
  BY <1>1, <1>2, SMT
<1>4. NextAlpha(e) = IF num * n >= den THEN [num |-> num, den |-> den]
                     ELSE [num |-> 1, den |-> n]
  BY DEF NextAlpha
<1> HIDE DEF num, den, n
<1>5. CASE num * n >= den
  BY <1>3, <1>4, <1>5
<1>6. CASE ~(num * n >= den)
  <2>1. 1 \in Nat /\ 1 <= n /\ NextAlpha(e) = [num |-> 1, den |-> n]
    BY <1>3, <1>4, <1>6, SMT
  <2>2. 3 * n <= 20
    <3> SUFFICES ASSUME 21 <= 3 * n PROVE FALSE
      BY <1>3, SMT
    <3>1. num * 7 <= num * n
      BY <1>3, SMT
    <3> QED BY <1>3, <1>6, <3>1, SMT
  <2> QED BY <1>3, <2>1, <2>2, SMT
<1> QED BY <1>5, <1>6

\* The bound of FollowsShift, for a distance d and a span s.
Within(d, s, k) == d * 20^k <= 17^k * s + k * 20^k

\* One more equal sample keeps the bound; at MaxTimes, where the count stops,
\* because no distance exceeds the span.
LEMMA WithinLemma ==
  ASSUME NEW d \in Nat, NEW s \in Nat, NEW c \in Nat, 20 * c <= 17 * d + 20, c <= s
  PROVE  /\ d <= s => Within(c, s, 1)
         /\ \A k \in 1..MaxTimes : Within(d, s, k) => Within(c, s, Smaller(k + 1, MaxTimes))
<1>1. /\ 20^1 = 20 /\ 20^2 = 400 /\ 20^3 = 8000 /\ 20^4 = 160000
      /\ 17^1 = 17 /\ 17^2 = 289 /\ 17^3 = 4913 /\ 17^4 = 83521
  BY SMT
<1>2. \A x \in Nat : /\ Within(x, s, 1) <=> x * 20 <= 17 * s + 20
                     /\ Within(x, s, 2) <=> x * 400 <= 289 * s + 800
                     /\ Within(x, s, 3) <=> x * 8000 <= 4913 * s + 24000
                     /\ Within(x, s, 4) <=> x * 160000 <= 83521 * s + 640000
  <2> TAKE x \in Nat
  <2>1. 1 * 20 = 20 /\ 2 * 400 = 800 /\ 3 * 8000 = 24000 /\ 4 * 160000 = 640000
    BY SMT
  <2>2. Within(x, s, 1) <=> x * 20^1 <= 17^1 * s + 1 * 20^1
    BY DEF Within
  <2>3. Within(x, s, 2) <=> x * 20^2 <= 17^2 * s + 2 * 20^2
    BY DEF Within
  <2>4. Within(x, s, 3) <=> x * 20^3 <= 17^3 * s + 3 * 20^3
    BY DEF Within
  <2>5. Within(x, s, 4) <=> x * 20^4 <= 17^4 * s + 4 * 20^4
    BY DEF Within
  <2> QED BY <1>1, <2>1, <2>2, <2>3, <2>4, <2>5
<1>3. d <= s => Within(c, s, 1)
  BY <1>2, SMT
<1>4. /\ Within(d, s, 1) => Within(c, s, 2)
      /\ Within(d, s, 2) => Within(c, s, 3)
      /\ Within(d, s, 3) => Within(c, s, 4)
      /\ Within(d, s, 4) => Within(c, s, 4)
  BY <1>2, SMT
<1>5. ASSUME NEW k \in 1..MaxTimes, Within(d, s, k)
      PROVE  Within(c, s, Smaller(k + 1, MaxTimes))
  <2>1. \/ k = 1 /\ Smaller(k + 1, MaxTimes) = 2
        \/ k = 2 /\ Smaller(k + 1, MaxTimes) = 3
        \/ k = 3 /\ Smaller(k + 1, MaxTimes) = 4
        \/ k = 4 /\ Smaller(k + 1, MaxTimes) = 4
    BY SMT DEF Smaller, MaxTimes
  <2> QED BY <1>4, <1>5, <2>1
<1> QED BY <1>3, <1>5

\* What the history says of the estimate: the mean lies among what was
\* measured, and as near to the latest as the number of repeats demands.
ShiftInv ==
  \/ /\ seen.times = 0 /\ seen.latest = None /\ seen.slowest = None /\ seen.fastest = None
     /\ throughput.mean = None
  \/ /\ seen.times \in 1..MaxTimes
     /\ seen.slowest \in Nat /\ seen.latest \in Nat /\ seen.fastest \in Nat
     /\ seen.slowest <= seen.latest /\ seen.latest <= seen.fastest
     /\ throughput.mean \in Nat
     /\ Unit * seen.slowest <= throughput.mean /\ throughput.mean <= Unit * seen.fastest
     /\ Within(Distance(throughput.mean, Unit * seen.latest),
               Unit * (seen.fastest - seen.slowest), seen.times)

LEMMA FirstSampleStep ==
  ASSUME QualityInv, NEW rate \in Rates, SuccessMeasured(rate),
         throughput.mean = None, seen.latest = None, seen.slowest = None, seen.fastest = None
  PROVE  ShiftInv'
<1>1. rate \in Nat /\ Unit \in Nat /\ rate # None
  BY RatesAssumption, NoneAssumption
<1>2. /\ seen'.slowest = rate /\ seen'.fastest = rate /\ seen'.latest = rate
      /\ seen'.times = 1
  BY <1>1, Zenon DEF SuccessMeasured, Saw
<1>3. throughput'.mean = rate * Unit
  BY Zenon DEF SuccessMeasured, Observe
<1>4. /\ rate * Unit \in Nat /\ rate * Unit = Unit * rate
      /\ rate - rate = 0 /\ Unit * 0 = 0 /\ 1 \in 1..MaxTimes
  BY <1>1, SMT DEF MaxTimes
<1>5. Distance(Unit * rate, Unit * rate) = 0
  BY <1>1, <1>4, SMT DEF Distance
<1>6. Within(0, 0, 1)
  <2>1. 20^1 = 20 /\ 17^1 = 17
    BY SMT
  <2>2. 0 * 20 <= 17 * 0 + 1 * 20
    BY SMT
  <2> QED BY <2>1, <2>2 DEF Within
<1>7. Within(Distance(throughput'.mean, Unit * rate), Unit * (rate - rate), 1)
  BY <1>3, <1>4, <1>5, <1>6, Zenon
<1>8. Unit * rate <= Unit * rate /\ rate <= rate
  BY <1>1, <1>4, SMT
<1> QED BY <1>1, <1>2, <1>3, <1>4, <1>7, <1>8, Zenon DEF ShiftInv

LEMMA NextSampleStep ==
  ASSUME QualityInv, ShiftInv, NEW rate \in Rates, SuccessMeasured(rate),
         throughput.mean # None
  PROVE  ShiftInv'
<1> DEFINE slow == seen.slowest
           fast == seen.fastest
           slow2 == Smaller(slow, rate)
           fast2 == Larger(fast, rate)
           mean == throughput.mean
           mean2 == throughput'.mean
           d == Distance(mean, Unit * rate)
           d2 == Distance(mean2, Unit * rate)
           span == Unit * (fast2 - slow2)
<1>1. /\ rate \in Nat /\ Unit \in Nat /\ mean \in Nat /\ mean > 0
      /\ seen.times \in 1..MaxTimes
      /\ slow \in Nat /\ seen.latest \in Nat /\ fast \in Nat
      /\ slow <= seen.latest /\ seen.latest <= fast
      /\ Unit * slow <= mean /\ mean <= Unit * fast
      /\ Within(Distance(mean, Unit * seen.latest), Unit * (fast - slow), seen.times)
  <2>1. rate \in Nat /\ Unit \in Nat
    BY RatesAssumption
  <2>2. mean > 0
    BY DEF QualityInv, Measured
  <2> QED BY <2>1, <2>2, Zenon DEF ShiftInv
<1>2. slow # None /\ fast # None
  BY <1>1, NoneAssumption
<1>3. /\ seen'.slowest = slow2 /\ seen'.fastest = fast2 /\ seen'.latest = rate
      /\ seen'.times = IF seen.latest = rate THEN Smaller(seen.times + 1, MaxTimes) ELSE 1
  BY <1>2, Zenon DEF SuccessMeasured, Saw
<1>4. /\ slow2 \in Nat /\ fast2 \in Nat /\ slow2 <= rate /\ rate <= fast2
      /\ slow2 <= slow /\ fast <= fast2
      /\ seen.latest = rate => slow2 = slow /\ fast2 = fast
  <2>1. \A a, b, c \in Nat : a <= b /\ b <= c =>
          /\ \A r \in Nat : /\ Smaller(a, r) \in Nat /\ Larger(c, r) \in Nat
                            /\ Smaller(a, r) <= r /\ r <= Larger(c, r)
                            /\ Smaller(a, r) <= a /\ c <= Larger(c, r)
          /\ Smaller(a, b) = a /\ Larger(c, b) = c
    BY SMT DEF Smaller, Larger
  <2>2. /\ \A r \in Nat : /\ Smaller(slow, r) \in Nat /\ Larger(fast, r) \in Nat
                          /\ Smaller(slow, r) <= r /\ r <= Larger(fast, r)
                          /\ Smaller(slow, r) <= slow /\ fast <= Larger(fast, r)
        /\ Smaller(slow, seen.latest) = slow /\ Larger(fast, seen.latest) = fast
    <3> HIDE DEF slow, fast
    <3> QED BY <1>1, <2>1, Zenon
  <2> QED BY <1>1, <2>2, Zenon
<1>5. /\ Unit * slow2 <= Unit * slow /\ Unit * fast <= Unit * fast2
      /\ Unit * slow2 <= Unit * rate /\ Unit * rate <= Unit * fast2
      /\ Unit * slow2 \in Nat /\ Unit * fast2 \in Nat /\ Unit * rate \in Nat
      /\ Unit * slow \in Nat /\ Unit * fast \in Nat
      /\ span \in Nat /\ span = Unit * fast2 - Unit * slow2 /\ rate * Unit = Unit * rate
  <2> HIDE DEF slow2, fast2
  <2> QED BY <1>1, <1>4, SMT
<1> HIDE DEF slow2, fast2, span
<1>6. /\ mean2 \in Nat
      /\ Smaller(mean, Unit * rate) <= mean2 /\ mean2 <= Larger(mean, Unit * rate)
      /\ 20 * d2 <= 17 * d + 20
  <2>1. mean2 = Blend(mean, rate * Unit, NextAlpha(throughput))
    BY Zenon DEF SuccessMeasured, Observe
  <2>2. throughput \in Estimate
    BY DEF QualityInv, Measured
  <2>3. PICK num \in Nat, den \in Nat \ {0} :
          /\ num <= den /\ 3 * den <= 20 * num
          /\ NextAlpha(throughput) = [num |-> num, den |-> den]
    BY <1>1, <2>2, WeightLemma
  <2>4. mean2 = Blend(mean, Unit * rate, [num |-> num, den |-> den])
    BY <1>5, <2>1, <2>3, Zenon
  <2> HIDE DEF mean, mean2
  <2> QED BY <1>1, <1>5, <2>3, <2>4, ShrinkLemma DEF d, d2
<1> HIDE DEF mean, mean2
<1>7. /\ d \in Nat /\ d2 \in Nat /\ d <= span /\ d2 <= span
      /\ Unit * slow2 <= mean2 /\ mean2 <= Unit * fast2
  BY <1>1, <1>5, <1>6, SMT DEF Smaller, Larger, Distance, d, d2
<1>8. Within(d2, span, seen'.times) /\ seen'.times \in 1..MaxTimes
  <2>1. CASE seen.latest = rate
    <3>1. Within(d, span, seen.times)
      BY <1>1, <1>4, <2>1 DEF span, d
    <3>2. seen'.times = Smaller(seen.times + 1, MaxTimes)
      BY <1>3, <2>1
    <3>3. Smaller(seen.times + 1, MaxTimes) \in 1..MaxTimes
      BY <1>1, SMT DEF Smaller, MaxTimes
    <3> HIDE DEF d, d2
    <3> QED BY <1>1, <1>5, <1>6, <1>7, <3>1, <3>2, <3>3, WithinLemma
  <2>2. CASE seen.latest # rate
    <3>1. seen'.times = 1 /\ 1 \in 1..MaxTimes
      BY <1>3, <2>2, SMT DEF MaxTimes
    <3> HIDE DEF d, d2
    <3> QED BY <1>5, <1>6, <1>7, <3>1, WithinLemma
  <2> QED BY <2>1, <2>2
<1> QED BY <1>1, <1>3, <1>4, <1>6, <1>7, <1>8 DEF ShiftInv, span, d2, mean2

LEMMA ShiftStep ==
  ASSUME QualityInv, ShiftInv, [Next]_vars
  PROVE  ShiftInv'
<1>1. ASSUME NEW rate \in Rates, SuccessMeasured(rate) PROVE ShiftInv'
  <2>1. CASE throughput.mean = None
    <3>1. seen.latest = None /\ seen.slowest = None /\ seen.fastest = None
      BY <2>1, NoneAssumption DEF ShiftInv
    <3> QED BY <1>1, <2>1, <3>1, FirstSampleStep
  <2>2. CASE throughput.mean # None
    BY <1>1, <2>2, NextSampleStep
  <2> QED BY <2>1, <2>2
<1>2. ASSUME UNCHANGED <<throughput, seen>> PROVE ShiftInv'
  BY <1>2 DEF ShiftInv
<1> QED BY <1>1, <1>2
        DEF Next, SuccessUnmeasured, SoftFailure, HardFailure, Cancelled, vars

\* Recency and responsive degradation (quality.rs:14-19) as a rate: k equal
\* samples in a row leave at most 0.85^k of the span of all that was measured,
\* and a rounding each, for every set of rates, whatever came before them and
\* whatever failed or went unmeasured in between.
THEOREM EstimatesFollowShifts == Spec => []FollowsShift
<1>1. Init => ShiftInv
  BY DEF Init, ShiftInv
<1>2. QualityInv /\ ShiftInv /\ [Next]_vars => ShiftInv'
  BY ShiftStep
<1>3. ShiftInv => FollowsShift
  BY DEF ShiftInv, FollowsShift, Within
<1> QED BY <1>1, <1>2, <1>3, QualityInvariance, PTL DEF Spec

-----------------------------------------------------------------------------
(* The abstraction the other modules use *)

StandingNow ==
  IF IsCold THEN "cold"
  ELSE IF ~reliability.failed THEN "clean"
  ELSE IF IsBadSource THEN "bad" ELSE "redeemed"

WorthNow == IF throughput.mean = None THEN 0 ELSE 1

LEMMA ViewLemma ==
  /\ View = WithQuality(ColdEntry(0), StandingNow, WorthNow)
  /\ View.standing = StandingNow /\ View.worth = WorthNow
  /\ \A s, w : WithQuality(View, s, w) = WithQuality(ColdEntry(0), s, w)
<1>1. View = WithQuality(ColdEntry(0), StandingNow, WorthNow)
  BY Zenon DEF View, StandingNow, WorthNow
<1>2. \A s, w : /\ WithQuality(ColdEntry(0), s, w).standing = s
                /\ WithQuality(ColdEntry(0), s, w).worth = w
  BY Zenon DEF WithQuality, ColdEntry
<1>3. \A e, a, b, s, w : WithQuality(WithQuality(e, a, b), s, w) = WithQuality(e, s, w)
  BY Zenon DEF WithQuality
<1> QED BY <1>1, <1>2, <1>3

\* A step moves the view as Learning does when it moves the two parts of it so.
LEMMA LearnLemma ==
  ASSUME NEW result \in {"measured", "unmeasured", "soft", "hard", "cancelled"},
         StandingNow' \in Standings(View, result), WorthNow' \in Worths(View, result)
  PROVE  Abstract!LearnNext
<1>1. View' = WithQuality(ColdEntry(0), StandingNow', WorthNow')
  BY Zenon DEF View, StandingNow, WorthNow
<1>2. View' \in Learned(View, result)
  <2>1. View' = WithQuality(View, StandingNow', WorthNow')
    BY <1>1, ViewLemma
  <2> QED BY <2>1 DEF Learned
<1>3. Abstract!Learned(View, result) = Learned(View, result)
  BY DEF Learned, Standings, Worths, WithQuality, Abstract!Learned, Abstract!Standings,
         Abstract!Worths, Abstract!WithQuality
<1>4. Abstract!Learn(result)
  BY <1>2, <1>3 DEF Abstract!Learn
<1> QED BY <1>4 DEF Abstract!LearnNext, Abstract!Results

\* A peer of any standing has a rate once it failed verification.
LEMMA RatedLemma ==
  ASSUME QualityInv, reliability.failed
  PROVE  /\ reliability.rate \in 0..Scale /\ reliability.rate # None
         /\ StandingNow \in {"bad", "redeemed"}
         /\ StandingNow = "bad" <=> 2 * reliability.rate < Scale
<1>1. reliability.samples # 0 /\ samples # 0
  BY SMT DEF QualityInv, Ordered, Reliability
<1>2. reliability.rate \in 0..Scale /\ reliability.rate # None
  BY <1>1 DEF QualityInv, Ordered, Reliability
<1>3. ~IsCold /\ (IsBadSource <=> 2 * reliability.rate < Scale)
  BY <1>1 DEF IsCold, IsBadSource
<1> QED BY <1>2, <1>3 DEF StandingNow

\* The standing after an outcome that counts.
LEMMA StandingLater ==
  ASSUME QualityInv, Counted
  PROVE  StandingNow' = IF ~reliability'.failed THEN "clean"
                        ELSE IF 2 * reliability'.rate < Scale THEN "bad" ELSE "redeemed"
<1>1. samples' # 0
  BY CountedLemma, SMT
<1> QED BY <1>1, Zenon DEF StandingNow, IsCold, IsBadSource

LEMMA SuccessLearns ==
  ASSUME QualityInv, Counted, reliability' = Succeed(reliability),
         NEW result \in {"measured", "unmeasured"}
  PROVE  StandingNow' \in Standings(View, result)
<1>1. View.standing = StandingNow
  BY ViewLemma
<1>2. /\ reliability'.failed = reliability.failed /\ reliability'.rate \in 0..Scale
      /\ reliability.rate # None => reliability'.rate >= reliability.rate
  BY SucceedLemma DEF QualityInv
<1>3. CASE ~reliability.failed
  <2>1. StandingNow' = "clean" /\ StandingNow \in {"cold", "clean"}
    BY <1>2, <1>3, StandingLater DEF StandingNow
  <2> QED BY <1>1, <2>1 DEF Standings
<1>4. CASE reliability.failed
  <2>1. /\ reliability.rate \in 0..Scale /\ reliability.rate # None
        /\ StandingNow \in {"bad", "redeemed"}
        /\ StandingNow = "bad" <=> 2 * reliability.rate < Scale
    BY <1>4, RatedLemma
  <2>2. StandingNow' = IF 2 * reliability'.rate < Scale THEN "bad" ELSE "redeemed"
    BY <1>2, <1>4, StandingLater
  <2>3. ~(2 * reliability.rate < Scale) => ~(2 * reliability'.rate < Scale)
    BY <1>2, <2>1, ScaleAssumption, SMT
  <2> QED BY <1>1, <2>1, <2>2, <2>3 DEF Standings
<1> QED BY <1>3, <1>4

LEMMA SoftLearns ==
  ASSUME QualityInv, SoftFailure
  PROVE  StandingNow' \in Standings(View, "soft")
<1>1. View.standing = StandingNow
  BY ViewLemma
<1>2. /\ Counted
      /\ reliability'.failed = reliability.failed /\ reliability'.rate \in 0..Scale
      /\ reliability.rate # None => 4 * reliability'.rate <= 3 * reliability.rate
  BY FailSoftLemma DEF QualityInv, SoftFailure
<1>3. CASE ~reliability.failed
  <2>1. StandingNow' = "clean" /\ StandingNow \in {"cold", "clean"}
    BY <1>2, <1>3, StandingLater DEF StandingNow
  <2> QED BY <1>1, <2>1 DEF Standings
<1>4. CASE reliability.failed
  <2>1. /\ reliability.rate \in 0..Scale /\ reliability.rate # None
        /\ StandingNow \in {"bad", "redeemed"}
        /\ StandingNow = "bad" <=> 2 * reliability.rate < Scale
    BY <1>4, RatedLemma
  <2>2. StandingNow' = IF 2 * reliability'.rate < Scale THEN "bad" ELSE "redeemed"
    BY <1>2, <1>4, StandingLater
  <2>3. 2 * reliability.rate < Scale => 2 * reliability'.rate < Scale
    BY <1>2, <2>1, ScaleAssumption, SMT
  <2> QED BY <1>1, <2>1, <2>2, <2>3 DEF Standings
<1> QED BY <1>3, <1>4

LEMMA HardLearns ==
  ASSUME QualityInv, HardFailure
  PROVE  StandingNow' \in Standings(View, "hard")
<1>1. /\ Counted /\ reliability'.failed /\ 2 * reliability'.rate < Scale
  BY FailHardLemma DEF QualityInv, HardFailure
<1>2. StandingNow' = "bad"
  BY <1>1, StandingLater
<1> QED BY <1>2 DEF Standings

LEMMA CancelLearns ==
  ASSUME QualityInv, Cancelled
  PROVE  StandingNow' \in Standings(View, "cancelled")
<1>1. View.standing = StandingNow
  BY ViewLemma
<1>2. Counted /\ reliability' = reliability
  BY DEF Cancelled
<1>3. StandingNow' = IF ~reliability.failed THEN "clean"
                     ELSE IF 2 * reliability.rate < Scale THEN "bad" ELSE "redeemed"
  BY <1>2, StandingLater
<1>4. CASE ~reliability.failed
  BY <1>1, <1>3, <1>4 DEF Standings, StandingNow
<1>5. CASE reliability.failed
  <2>1. /\ StandingNow \in {"bad", "redeemed"}
        /\ StandingNow = "bad" <=> 2 * reliability.rate < Scale
    BY <1>5, RatedLemma
  <2> QED BY <1>1, <1>3, <1>5, <2>1 DEF Standings
<1> QED BY <1>4, <1>5

\* The worth comes with the first measured throughput, and stays.
LEMMA WorthLearns ==
  ASSUME NEW result,
         result = "measured" \/ throughput' = throughput,
         result = "measured" => throughput'.mean # None
  PROVE  WorthNow' \in Worths(View, result)
<1>1. View.worth = WorthNow
  BY ViewLemma
<1>2. 1 \in 1..MaxWorth
  BY BoundsAssumption, SMT
<1>3. CASE result = "measured"
  BY <1>2, <1>3 DEF Worths, WorthNow
<1>4. CASE result # "measured"
  BY <1>1, <1>2, <1>4 DEF Worths, WorthNow
<1> QED BY <1>3, <1>4

LEMMA LearnStep ==
  ASSUME QualityInv, [Next]_vars
  PROVE  Abstract!LearnNext \/ View' = View
<1>1. ASSUME NEW rate \in Rates, SuccessMeasured(rate) PROVE Abstract!LearnNext
  <2>1. rate * Unit \in Nat \ {0}
    <3>1. rate \in Nat \ {0} /\ Unit \in Nat \ {0}
      BY RatesAssumption
    <3> QED BY <3>1, SMT
  <2>2. throughput'.mean # None
    BY <1>1, <2>1, ObserveLemma DEF QualityInv, SuccessMeasured
  <2>3. WorthNow' \in Worths(View, "measured")
    BY <2>2, WorthLearns
  <2>4. StandingNow' \in Standings(View, "measured")
    BY <1>1, SuccessLearns DEF SuccessMeasured
  <2> QED BY <2>3, <2>4, LearnLemma
<1>2. CASE SuccessUnmeasured
  <2>1. StandingNow' \in Standings(View, "unmeasured")
    BY <1>2, SuccessLearns DEF SuccessUnmeasured
  <2>2. WorthNow' \in Worths(View, "unmeasured")
    BY <1>2, WorthLearns DEF SuccessUnmeasured
  <2> QED BY <2>1, <2>2, LearnLemma
<1>3. CASE SoftFailure
  <2>1. WorthNow' \in Worths(View, "soft")
    BY <1>3, WorthLearns DEF SoftFailure
  <2> QED BY <1>3, <2>1, SoftLearns, LearnLemma
<1>4. CASE HardFailure
  <2>1. WorthNow' \in Worths(View, "hard")
    BY <1>4, WorthLearns DEF HardFailure
  <2> QED BY <1>4, <2>1, HardLearns, LearnLemma
<1>5. CASE Cancelled
  <2>1. WorthNow' \in Worths(View, "cancelled")
    BY <1>5, WorthLearns DEF Cancelled
  <2> QED BY <1>5, <2>1, CancelLearns, LearnLemma
<1>6. CASE UNCHANGED vars
  <2>1. StandingNow' = StandingNow /\ WorthNow' = WorthNow
    BY <1>6 DEF vars, StandingNow, WorthNow, IsCold, IsBadSource
  <2>2. View' = WithQuality(ColdEntry(0), StandingNow', WorthNow')
    BY Zenon DEF View, StandingNow, WorthNow
  <2> QED BY <2>1, <2>2, ViewLemma
<1> QED BY <1>1, <1>2, <1>3, <1>4, <1>5, <1>6 DEF Next

\* A cold entry is one whose standing is cold and whose worth is 0.
LEMMA ColdUnchanged == WithQuality(ColdEntry(0), "cold", 0) = ColdEntry(0)
<1> DEFINE e == ColdEntry(0)
           d == WithQuality(e, "cold", 0)
<1>2. e.standing = "cold" /\ e.worth = 0
  BY SMT DEF ColdEntry
<1>3. e = [x \in DOMAIN e |-> e[x]]
  BY SMT DEF ColdEntry
<1>4. d = [x \in DOMAIN e |-> d[x]]
  BY Zenon DEF WithQuality
<1>5. \A x \in DOMAIN e : d[x] = e[x]
  <2> HIDE DEF e
  <2> SUFFICES ASSUME NEW x \in DOMAIN e PROVE [e EXCEPT !.standing = "cold", !.worth = 0][x] = e[x]
    BY DEF WithQuality
  <2>1. CASE x = "standing"  BY <1>2, <2>1
  <2>2. CASE x = "worth"  BY <1>2, <2>2
  <2>3. CASE x # "standing" /\ x # "worth" BY <2>3
  <2> QED BY <2>1, <2>2, <2>3
<1>6. [x \in DOMAIN e |-> d[x]] = [x \in DOMAIN e |-> e[x]]
  <2> HIDE DEF e, d
  <2> QED BY <1>5, SMT
<1>7. d = e
  <2> HIDE DEF e, d
  <2> QED BY <1>3, <1>4, <1>6, Zenon
<1> QED BY <1>7

\* The arithmetic implements the abstraction (quality.rs:180-204): one
\* verification failure makes a bad source of a peer with any history, only a
\* success redeems it, and a redeemed one stays so while it succeeds.
THEOREM QualityImplementsLearning == Spec => LearnsAsAssumed
<1>1. Init => Abstract!LearnInit
  <2> SUFFICES ASSUME Init PROVE View = ColdEntry(0)
    BY DEF Abstract!LearnInit, Abstract!ColdEntry, ColdEntry
  <2>1. StandingNow = "cold" /\ WorthNow = 0
    BY DEF Init, StandingNow, WorthNow, IsCold
  <2>2. View = WithQuality(ColdEntry(0), StandingNow, WorthNow)
    BY Zenon DEF View, StandingNow, WorthNow
  <2> QED BY <2>1, <2>2, ColdUnchanged
<1>2. QualityInv /\ [Next]_vars => [Abstract!LearnNext]_View
  BY LearnStep
<1> QED BY <1>1, <1>2, QualityInvariance, PTL
        DEF Spec, LearnsAsAssumed, Abstract!LearnSpec

-----------------------------------------------------------------------------
(* The score *)

LEMMA Monotonic ==
  ASSUME NEW a \in Nat, NEW b \in Nat, NEW c \in Nat, NEW d \in Nat, a <= b, c <= d
  PROVE  a * c \in Nat /\ b * d \in Nat /\ a * c <= b * d
<1>1. a * c <= b * c
  BY SMT
<1>2. b * c <= b * d
  BY SMT
<1>3. a * c \in Nat /\ b * c \in Nat /\ b * d \in Nat
  BY SMT
<1> QED BY <1>1, <1>2, <1>3, SMT

\* One more outcome raises the confidence by less than a third.
LEMMA ConfidenceLemma ==
  ASSUME NEW n \in Nat \ {0}, NEW m \in {n, n + 1}
  PROVE  3 * ((3 * (m + 4) + 7 * m) * (n + 4)) <= 4 * ((3 * (n + 4) + 7 * n) * (m + 4))
<1>1. CASE m = n
  <2>1. (3 * (n + 4) + 7 * n) * (n + 4) \in Nat
    BY SMT
  <2> QED BY <1>1, <2>1, SMT
<1>2. CASE m = n + 1
  <2>1. 3 * ((3 * (m + 4) + 7 * m) * (n + 4)) = 30 * (n * n) + 186 * n + 264
    BY <1>2, SMT
  <2>2. 4 * ((3 * (n + 4) + 7 * n) * (m + 4)) = 40 * (n * n) + 248 * n + 240
    BY <1>2, SMT
  <2>3. n * n \in Nat /\ n * n >= 1
    BY SMT
  <2> QED BY <2>1, <2>2, <2>3, SMT
<1> QED BY <1>1, <1>2

\* A rate a quarter lower outweighs it.
LEMMA WeighedLemma ==
  ASSUME NEW r \in Nat, NEW s \in Nat, 4 * s <= 3 * r,
         NEW A \in Nat, NEW B \in Nat, 3 * A <= 4 * B
  PROVE  s * A <= r * B
<1>1. (4 * s) * A <= (3 * r) * A
  BY Monotonic, SMT
<1>2. r * (3 * A) <= r * (4 * B)
  BY Monotonic, SMT
<1>3. (4 * s) * A = 4 * (s * A) /\ (3 * r) * A = r * (3 * A) /\ r * (4 * B) = 4 * (r * B)
  BY SMT
<1>4. s * A \in Nat /\ r * B \in Nat /\ r * (3 * A) \in Nat
  BY SMT
<1> QED BY <1>1, <1>2, <1>3, <1>4, SMT

LEMMA ProductLemma ==
  ASSUME NEW v \in Nat, NEW r \in Nat, NEW s \in Nat, NEW c \in Nat, NEW d \in Nat,
         NEW m \in Nat, NEW n \in Nat, s <= r, s * (d * n) <= r * (c * m)
  PROVE  (v * s * (Scale + s) * d) * n <= (v * r * (Scale + r) * c) * m
<1>0. Scale \in Nat
  BY ScaleAssumption
<1>1. Scale + s \in Nat /\ Scale + r \in Nat /\ Scale + s <= Scale + r
  BY <1>0, SMT
<1>2. v * (Scale + s) \in Nat /\ v * (Scale + r) \in Nat /\ v * (Scale + s) <= v * (Scale + r)
  BY <1>1, Monotonic
<1>3. s * (d * n) \in Nat /\ r * (c * m) \in Nat
  BY SMT
<1>4. (v * (Scale + s)) * (s * (d * n)) <= (v * (Scale + r)) * (r * (c * m))
  BY <1>2, <1>3, Monotonic
<1>5. (v * (Scale + s)) * (s * (d * n)) = (v * s * (Scale + s) * d) * n
  BY <1>0, SMT
<1>6. (v * (Scale + r)) * (r * (c * m)) = (v * r * (Scale + r) * c) * m
  BY <1>0, SMT
<1> QED BY <1>4, <1>5, <1>6

\* A failure takes a quarter off the rate of a peer, or more.
LEMMA FailureLemma ==
  ASSUME QualityInv, SoftFailure \/ HardFailure
  PROVE  /\ reliability'.rate \in 0..Scale
         /\ reliability.rate # None => 4 * reliability'.rate <= 3 * reliability.rate
         /\ Counted
         /\ throughput' = throughput
<1>1. Ordered(reliability)
  BY DEF QualityInv
<1>2. CASE SoftFailure
  BY <1>1, <1>2, FailSoftLemma DEF SoftFailure
<1>3. CASE HardFailure
  BY <1>1, <1>3, FailHardLemma DEF HardFailure
<1> QED BY <1>2, <1>3

\* Among measured scores: the rate a failure takes off outweighs the confidence
\* it adds.
LEMMA MeasuredStep ==
  ASSUME QualityInv, ~IsCold, SoftFailure \/ HardFailure
  PROVE  MeasuredScore'.num * MeasuredScore.den <= MeasuredScore.num * MeasuredScore'.den
<1> DEFINE confidence == 3 * (samples + 4) + 7 * samples
           confidence2 == 3 * (samples' + 4) + 7 * samples'
<1>1. samples \in Nat \ {0} /\ samples' \in {samples, samples + 1}
  BY FailureLemma, SamplesAssumption, SMT DEF QualityInv, IsCold, Counted, Smaller
<1>0. \A n \in {samples, samples'} : /\ n + 4 \in Nat
                                    /\ 3 * (n + 4) + 7 * n \in Nat
                                    /\ 0 * (n + 4) = 0
  <2>1. \A n \in Nat : n + 4 \in Nat /\ 3 * (n + 4) + 7 * n \in Nat /\ 0 * (n + 4) = 0
    BY SMT
  <2>2. samples \in Nat /\ samples' \in Nat
    BY <1>1, SMT
  <2> QED BY <2>1, <2>2, Zenon
<1>2. MeasuredScore.den = samples + 4 /\ MeasuredScore'.den = samples' + 4
  BY DEF MeasuredScore
<1>3. CASE throughput.mean = None
  <2>1. MeasuredScore.num = 0 /\ MeasuredScore'.num = 0
    BY <1>3, FailureLemma DEF MeasuredScore
  <2>2. 0 * (samples + 4) <= 0 * (samples' + 4)
    <3>1. 0 * (samples + 4) = 0 /\ 0 * (samples' + 4) = 0
      BY <1>0, Zenon
    <3> QED BY <3>1
  <2> QED BY <1>2, <2>1, <2>2, Zenon
<1>4. CASE throughput.mean # None
  <2> DEFINE v == 2 * throughput.mean - Smaller(throughput.mad, throughput.mean)
             r == reliability.rate
             s == reliability'.rate
  <2>1. /\ MeasuredScore.num = v * r * (Scale + r) * confidence
        /\ MeasuredScore'.num = v * s * (Scale + s) * confidence2
    BY <1>4, FailureLemma DEF MeasuredScore
  <2>2. v \in Nat
    <3>1. throughput.mean \in Nat /\ throughput.mad \in Nat
      BY <1>4 DEF QualityInv, Measured, Estimate
    <3> QED BY <3>1, SMT DEF Smaller
  <2>3. r \in Nat /\ s \in Nat /\ 4 * s <= 3 * r
    <3>1. r # None /\ r \in 0..Scale \cup {None}
      BY <1>4 DEF QualityInv, Ordered, Reliability
    <3>2. s \in 0..Scale /\ 4 * s <= 3 * r
      BY <3>1, FailureLemma
    <3> HIDE DEF r, s
    <3> QED BY <3>1, <3>2, ScaleAssumption, SMT
  <2>4. 3 * (confidence2 * (samples + 4)) <= 4 * (confidence * (samples' + 4))
    BY <1>1, ConfidenceLemma
  <2>5. /\ confidence \in Nat /\ confidence2 \in Nat
        /\ samples + 4 \in Nat /\ samples' + 4 \in Nat
    BY <1>0, Zenon
  <2> HIDE DEF confidence, confidence2, v, r, s
  <2>6. confidence2 * (samples + 4) \in Nat /\ confidence * (samples' + 4) \in Nat
    BY <2>5, SMT
  <2>7. s * (confidence2 * (samples + 4)) <= r * (confidence * (samples' + 4))
    BY <2>3, <2>4, <2>6, WeighedLemma
  <2>8. s <= r
    BY <2>3, SMT
  <2>9. (v * s * (Scale + s) * confidence2) * (samples + 4)
          <= (v * r * (Scale + r) * confidence) * (samples' + 4)
    BY <2>2, <2>3, <2>5, <2>7, <2>8, ProductLemma
  <2> QED BY <1>2, <2>1, <2>9
<1> QED BY <1>3, <1>4

LEMMA MeasuredScoreNat ==
  ASSUME QualityInv
  PROVE  MeasuredScore.num \in Nat /\ MeasuredScore.den \in Nat
<1> DEFINE v == 2 * throughput.mean - Smaller(throughput.mad, throughput.mean)
           r == reliability.rate
           c == 3 * (samples + 4) + 7 * samples
<1>1. samples \in Nat
  BY SamplesAssumption, SMT DEF QualityInv
<1>2. MeasuredScore.den = samples + 4 /\ samples + 4 \in Nat /\ c \in Nat
  BY <1>1, SMT DEF MeasuredScore
<1>3. CASE throughput.mean = None
  BY <1>2, <1>3 DEF MeasuredScore
<1>4. CASE throughput.mean # None
  <2>1. MeasuredScore.num = v * r * (Scale + r) * c
    BY <1>4 DEF MeasuredScore
  <2>2. v \in Nat
    <3>1. throughput.mean \in Nat /\ throughput.mad \in Nat
      BY <1>4 DEF QualityInv, Measured, Estimate
    <3> QED BY <3>1, SMT DEF Smaller
  <2>3. r \in Nat /\ Scale + r \in Nat
    <3>1. r \in 0..Scale
      BY <1>4 DEF QualityInv, Ordered, Reliability
    <3> HIDE DEF r
    <3> QED BY <3>1, ScaleAssumption, SMT
  <2> HIDE DEF v, r, c
  <2>4. v * r \in Nat
    BY <2>2, <2>3, SMT
  <2>5. v * r * (Scale + r) \in Nat
    BY <2>3, <2>4, SMT
  <2>6. v * r * (Scale + r) * c \in Nat
    BY <1>2, <2>5, SMT
  <2> QED BY <1>2, <2>1, <2>6
<1> QED BY <1>3, <1>4

\* A failed peer is no longer cold, and one that was a bad source stays one.
LEMMA FailureMoves ==
  ASSUME QualityInv, SoftFailure \/ HardFailure
  PROVE  /\ ~IsCold'
         /\ IsBadSource => ~IsCold /\ IsBadSource'
<1>1. ~IsCold'
  <2>1. samples' > 0
    BY FailureLemma, CountedLemma
  <2> QED BY <2>1, SMT DEF IsCold
<1>2. ASSUME IsBadSource PROVE ~IsCold /\ IsBadSource'
  <2>1. reliability.failed /\ 2 * reliability.rate < Scale /\ reliability.samples > 0
    BY <1>2 DEF IsBadSource, QualityInv
  <2>2. Ordered(reliability) /\ reliability.samples \in 0..Responsive
        /\ reliability.rate \in 0..Scale \cup {None}
    BY DEF QualityInv, Ordered, Reliability
  <2>3. ~IsCold
    <3>1. samples > 0
      BY <2>1 DEF QualityInv
    <3> QED BY <3>1, SMT DEF IsCold
  <2>4. reliability.rate # None
    BY <2>1, <2>2, SMT DEF Ordered
  <2>5. reliability'.failed
    BY <2>1, <2>2, FailSoftLemma, FailHardLemma DEF SoftFailure, HardFailure
  <2>6. 2 * reliability'.rate < Scale
    <3>1. /\ 4 * reliability'.rate <= 3 * reliability.rate
          /\ reliability'.rate \in 0..Scale /\ reliability.rate \in 0..Scale
      BY <2>2, <2>4, FailureLemma
    <3> QED BY <2>1, <3>1, ScaleAssumption, SMT
  <2> QED BY <2>3, <2>5, <2>6 DEF IsBadSource
<1> QED BY <1>1, <1>2

\* What the score of a failed peer becomes: it is rated, or on the floor.
LEMMA ScoreStep ==
  ASSUME QualityInv, SoftFailure \/ HardFailure, NEW salt \in Salts, NEW bonus \in Bonuses
  PROVE  \/ Score(salt, bonus)'.num * Score(salt, bonus).den
              <= Score(salt, bonus).num * Score(salt, bonus)'.den
         \/ IsBadSource' /\ ~IsBadSource /\ salt > FloorDepth
<1> DEFINE floor == salt - FloorDepth
           x == Score(salt, bonus)
           y == Score(salt, bonus)'
<1>1. salt \in Nat /\ bonus \in Nat /\ FloorDepth \in Nat /\ floor \in Int
  BY ScoreAssumption, SMT
<1>2. ~IsCold' /\ (IsBadSource => ~IsCold /\ IsBadSource')
  BY FailureMoves
<1>3. ~IsCold => MeasuredScore.num \in Nat /\ MeasuredScore.den \in Nat
  BY MeasuredScoreNat DEF QualityInv
<1>4. /\ IsCold => x = [num |-> bonus, den |-> 1]
      /\ ~IsCold /\ IsBadSource => x = [num |-> floor, den |-> 1]
      /\ ~IsCold /\ ~IsBadSource => x = MeasuredScore
  BY <1>2, Zenon DEF Score
<1>5. /\ IsBadSource' => y = [num |-> floor, den |-> 1]
      /\ ~IsBadSource' => y = MeasuredScore'
  BY <1>2, Zenon DEF Score
<1> HIDE DEF x, y
<1>6. CASE IsBadSource
  <2>1. x = [num |-> floor, den |-> 1] /\ y = x
    BY <1>2, <1>4, <1>5, <1>6
  <2>2. y.num * x.den <= x.num * y.den
    BY <1>1, <2>1, SMT
  <2> QED BY <2>2 DEF x, y
<1>7. CASE ~IsBadSource /\ IsBadSource' /\ salt <= FloorDepth
  <2>1. floor <= 0 /\ y.num = floor /\ y.den = 1
    BY <1>1, <1>5, <1>7, SMT
  <2>2. x.num \in Nat /\ x.den \in Nat
    <3>1. CASE IsCold
      BY <1>1, <1>4, <3>1, SMT
    <3>2. CASE ~IsCold
      BY <1>3, <1>4, <1>7, <3>2
    <3> QED BY <3>1, <3>2
  <2> HIDE DEF floor
  <2>3. floor * x.den <= 0
    BY <1>1, <2>1, <2>2, SMT
  <2>4. floor * x.den <= x.num * 1
    BY <1>1, <2>2, <2>3, SMT
  <2>5. y.num * x.den <= x.num * y.den
    BY <2>1, <2>4, Zenon
  <2> QED BY <2>5 DEF x, y
<1>8. CASE ~IsBadSource /\ IsBadSource' /\ ~(salt <= FloorDepth)
  BY <1>1, <1>8, SMT
<1>9. CASE ~IsBadSource' /\ IsCold
  <2>1. x = [num |-> bonus, den |-> 1] /\ y = MeasuredScore'
    BY <1>4, <1>5, <1>9
  <2>2. throughput'.mean = None
    <3>1. samples = 0
      BY <1>9 DEF IsCold
    <3>2. throughput.mean = None
      BY <3>1, SMT DEF QualityInv
    <3> QED BY <3>2, FailureLemma
  <2>3. samples' \in Nat /\ samples' + 4 \in Nat
    <3>1. samples' \in Nat
      BY FailureLemma, CountedLemma, SamplesAssumption, SMT
    <3>2. \A n \in Nat : n + 4 \in Nat
      BY SMT
    <3> QED BY <3>1, <3>2, Zenon
  <2>4. /\ y.num = 0 /\ y.den = samples' + 4
        /\ x.num = bonus /\ x.den = 1
    BY <2>1, <2>2 DEF MeasuredScore
  <2>5. bonus * (samples' + 4) \in Nat
    <3>1. \A n \in Nat : bonus * n \in Nat
      BY <1>1, SMT
    <3> QED BY <2>3, <3>1, Zenon
  <2>6. y.num * x.den = 0 /\ x.num * y.den = bonus * (samples' + 4)
    BY <2>4
  <2>7. y.num * x.den <= x.num * y.den
    BY <2>5, <2>6, SMT
  <2> QED BY <2>7 DEF x, y
<1>10. CASE ~IsBadSource' /\ ~IsCold
  <2>1. x = MeasuredScore /\ y = MeasuredScore'
    BY <1>2, <1>4, <1>5, <1>10
  <2>2. y.num * x.den <= x.num * y.den
    BY <1>10, <2>1, MeasuredStep
  <2> QED BY <2>2 DEF x, y
<1> QED BY <1>6, <1>7, <1>8, <1>9, <1>10

\* A failure the peer is to blame for does not raise its score (SPEC 3.4), though
\* it raises the confidence (engine.rs:446): whatever the history, the rate it
\* takes off weighs more.  Only the step onto the floor may, for a peer whose
\* key exceeds the depth of the floor.
THEOREM FailuresNeverHelp == Spec => FailureNeverHelps
<1>1. QualityInv => [SoftFailure \/ HardFailure
        => \A salt \in Salts, bonus \in Bonuses :
             \/ Score(salt, bonus)'.num * Score(salt, bonus).den
                  <= Score(salt, bonus).num * Score(salt, bonus)'.den
             \/ IsBadSource' /\ ~IsBadSource /\ salt > FloorDepth]_vars
  BY ScoreStep
<1> QED BY <1>1, QualityInvariance, PTL DEF Spec, FailureNeverHelps
=============================================================================

------------------------------- MODULE Ranking -------------------------------
(***************************************************************************)
(* The ranking of a scored pool, the middle of PeerSelector::select_over   *)
(* (src/src/engine.rs) with score_peer (src/src/scoring.rs): exploration   *)
(* bonus, de-rank, order, forced coverage pick, the two passes.            *)
(*                                                                         *)
(* Scores are integers.  What a proven peer scores is an input (`measured`)*)
(* and so is the learned saturation point (`point`); measured scores are   *)
(* multiples of 8, so that the quarter and the halves taken below are      *)
(* exact.  A failed source scores Salt[p] - FloorDepth: in the code the    *)
(* floor is -1.0e12, the salt is the peer's tie-break key times 1e-6, and  *)
(* -1.0e11 (here -FloorCut) separates floored from ordinary scores.        *)
(***************************************************************************)
EXTENDS Registry

CONSTANTS
  Salt,        \* Salt[p]: the stable tie-break key of peer p
  FloorDepth,  \* the verification-failure floor, 1.0e12
  FloorCut     \* the threshold below which a score counts as floored, 1.0e11

ASSUME SaltAssumption == Salt \in [Peer -> Nat]
ASSUME FloorAssumption ==
  FloorDepth \in Nat /\ FloorCut \in Nat \ {0} /\ FloorCut < FloorDepth

MaxOf(a, b) == IF a > b THEN a ELSE b
MinOf(a, b) == IF a < b THEN a ELSE b

-----------------------------------------------------------------------------
(* Scoring one peer *)

ScorePeer(p, e, measured, point) ==
  LET headroom == MaxOf(point - e.in_flight, 0)
  IN  [exploratory |-> e.standing = "cold",
       effective_score |-> CASE e.standing = "cold" -> 0
                             [] e.standing = "bad"  -> Salt[p] - FloorDepth
                             [] OTHER               -> measured,
       headroom |-> IF e.standing \in {"cold", "bad"}
                    THEN MaxOf(headroom, 1) ELSE headroom]

Floored(s) == s.effective_score <= -FloorCut

\* The pool as first scored, the bonus still 0.
Proven(scored) ==
  {p \in DOMAIN scored : ~scored[p].exploratory /\ ~Floored(scored[p])}

\* proven_score_bounds: worst and best, each raised to 0.
WorstProven(scored) ==
  IF Proven(scored) = {} THEN 0
  ELSE MaxOf(0, (CHOOSE s \in {scored[p].effective_score : p \in Proven(scored)} :
                   \A p \in Proven(scored) : s <= scored[p].effective_score))
BestProven(scored) ==
  IF Proven(scored) = {} THEN 0
  ELSE MaxOf(0, (CHOOSE s \in {scored[p].effective_score : p \in Proven(scored)} :
                   \A p \in Proven(scored) : s >= scored[p].effective_score))

ExplorationBonus(scored) ==
  LET worst == WorstProven(scored)
      best == BestProven(scored)
  IN  IF best > worst THEN worst + (best - worst) \div 4
      ELSE IF best > 0 THEN best \div 2 ELSE 0

\* The bonus goes to every cold peer, then an already active peer loses half
\* its score and one unit of headroom.
Adjusted(scored, deranked) ==
  LET Scored(p) == IF scored[p].exploratory THEN ExplorationBonus(scored)
                   ELSE scored[p].effective_score
  IN  [p \in DOMAIN scored |->
         IF p \in deranked
         THEN [scored[p] EXCEPT !.effective_score = Scored(p) \div 2,
                                !.headroom = MaxOf(@ - 1, 0)]
         ELSE [scored[p] EXCEPT !.effective_score = Scored(p)]]

-----------------------------------------------------------------------------
(* Ordering the pool *)

\* The comparator, without the random jitter that breaks what it leaves tied
\* between two cold peers.
Before(scored, stale, a, b) ==
  \/ scored[a].effective_score > scored[b].effective_score
  \/ /\ scored[a].effective_score = scored[b].effective_score
     /\ IF scored[a].exploratory /\ scored[b].exploratory
        THEN stale[a] > stale[b]
        ELSE Salt[a] < Salt[b]

\* Two cold peers compare by staleness, all other pairs by salt: with a
\* proven peer of the same score between their salts this is a cycle.
Cyclic(scored, stale) ==
  \E a, b, c \in DOMAIN scored :
    /\ scored[a].exploratory /\ scored[b].exploratory /\ ~scored[c].exploratory
    /\ scored[a].effective_score = scored[b].effective_score
    /\ scored[b].effective_score = scored[c].effective_score
    /\ stale[a] >= stale[b]
    /\ Salt[b] < Salt[c] /\ Salt[c] < Salt[a]

Injections(P) ==
  {f \in [P -> 1..Cardinality(P)] : \A a, b \in P : f[a] = f[b] => a = b}

\* The positions sort_by may leave the pool in: sorted, with what the
\* comparator leaves tied in the order of the jitter.  For a comparator that
\* is not an order the result of sort_by is unspecified.
Orders(scored, stale) ==
  LET peers == DOMAIN scored
      Tied(a, b) == /\ a # b
                    /\ ~Before(scored, stale, a, b) /\ ~Before(scored, stale, b, a)
      tied == {p \in peers : \E q \in peers : Tied(p, q)}
      Sorted(jitter) ==
        [p \in peers |->
           1 + Cardinality({q \in peers :
                  \/ Before(scored, stale, q, p)
                  \/ Tied(q, p) /\ jitter[q] < jitter[p]})]
  IN  IF Cyclic(scored, stale) THEN Injections(peers)
      ELSE {pos \in {Sorted(jitter) : jitter \in Injections(tied)} :
              \A a, b \in peers : pos[a] = pos[b] => a = b}

-----------------------------------------------------------------------------
(* Choosing the peers *)

\* explore_slots: want.div_ceil(3).max(1)
ExploreSlots(want) == MaxOf(1, (want + 2) \div 3)

\* Fault: of the starved peers, the one passed over for the shortest time.
ForcedPicksFreshest(scored, stale, want) ==
  LET starved == {p \in DOMAIN scored :
                    ~Floored(scored[p]) /\ stale[p] >= Cardinality(DOMAIN scored)}
  IN  IF want < Cardinality(DOMAIN scored)
      THEN {p \in starved : \A q \in starved : stale[q] >= stale[p]}
      ELSE {}

\* The peers that may take the reserved slot: none when everyone fits, else
\* the most starved of those not selected for a whole sweep of the pool.
ForcedPicks(scored, stale, want) ==
  LET starved == {p \in DOMAIN scored :
                    ~Floored(scored[p]) /\ stale[p] >= Cardinality(DOMAIN scored)}
  IN  IF want < Cardinality(DOMAIN scored)
      THEN {p \in starved :
              \A q \in starved : \/ stale[q] < stale[p]
                                 \/ stale[q] = stale[p] /\ Salt[p] <= Salt[q]}
      ELSE {}

\* Fault: the budget counts every peer walked past, not the cold ones taken.
WalkCountingAll(scored, pos, peers, cap, budget) ==
  LET Ahead(p) == {q \in peers : pos[q] < pos[p]}
      admitted == {p \in peers :
                     scored[p].exploratory => Cardinality(Ahead(p)) < budget}
  IN  {p \in admitted : Cardinality(Ahead(p) \cap admitted) < cap}

\* Walking `peers` in the order, up to `cap` picks, passing over the cold ones
\* beyond the exploration budget.
Walk(scored, pos, peers, cap, budget) ==
  LET Ahead(p) == {q \in peers : pos[q] < pos[p]}
      admitted == {p \in peers :
                     scored[p].exploratory =>
                       Cardinality({q \in Ahead(p) : scored[q].exploratory}) < budget}
  IN  {p \in admitted : Cardinality(Ahead(p) \cap admitted) < cap}

\* Fault: a slot is reserved even when nobody is forced.
CapAlwaysReserved(forced, want) == want - 1

\* A forced peer has one slot reserved, and counts as exploration if cold.
Cap(forced, want) == IF forced # {} THEN want - 1 ELSE want

\* Fault: a cold forced peer comes on top of the exploration budget.
BudgetOnTop(scored, forced, want) == ExploreSlots(want)

Budget(scored, forced, want) ==
  IF \E f \in forced : scored[f].exploratory
  THEN ExploreSlots(want) - 1 ELSE ExploreSlots(want)

PassOne(scored, pos, forced, want) ==
  Walk(scored, pos, DOMAIN scored \ forced,
       Cap(forced, want), Budget(scored, forced, want))

\* The answer: who was chosen, at which rank and with which concurrency.  The
\* forced peer, if any, comes last.
Materialize(scored, pos, forced, want) ==
  LET first == PassOne(scored, pos, forced, want)
  IN  [p \in first \cup forced |->
         [rank |-> IF p \in forced THEN Cardinality(first)
                   ELSE Cardinality({q \in first : pos[q] < pos[p]}),
          max_concurrency |-> MaxOf(scored[p].headroom, 1),
          exploratory |-> scored[p].exploratory \/ p \in forced]]

\* Every answer the ranking may give for an adjusted pool.
Selections(scored, stale, want) ==
  LET picks == ForcedPicks(scored, stale, want)
      forced == IF picks = {} THEN {{}} ELSE {{p} : p \in picks}
  IN  {Materialize(scored, pos, f, want) : pos \in Orders(scored, stale), f \in forced}
=============================================================================

------------------------------ MODULE Coverage ------------------------------
(***************************************************************************)
(* Who gets a turn: select repeated over one pool of eligible registered   *)
(* peers, with outcomes folded in between (src/src/engine.rs, select_over).*)
(*                                                                         *)
(* The code compares epochs only through epoch - last_selected[p]; `stale` *)
(* is that difference, as it stands between two selections.  Beyond the    *)
(* size of the pool only its order matters, so there the gaps are closed   *)
(* (Compressed), which keeps the state finite and changes no decision.     *)
(* In-flight counts do not take part in the ranking (their effect on a     *)
(* proven score is part of its `measured` input) and stay 0.               *)
(* The epoch is one counter for all requests, so selections over other     *)
(* pools age this pool's peers too.                                        *)
(***************************************************************************)
EXTENDS Ranking

CONSTANTS
  Wants,      \* the parallelism requests ask for
  Results,    \* the kinds of outcome reported
  Scores      \* the scores a proven peer can have

ASSUME CoverageAssumption ==
  /\ Wants \subseteq Nat \ {0}
  /\ Results \subseteq {"measured", "unmeasured", "soft", "hard", "cancelled"}
  /\ 0 \in Scores /\ Scores \subseteq Nat

VARIABLES
  entries,  \* what has been learned about each peer of the pool
  stale     \* epoch - last_selected[p]

vars == <<entries, stale>>

Size == Cardinality(Peer)

Compressed(f) ==
  [p \in Peer |->
     IF f[p] <= Size THEN f[p]
     ELSE Size + Cardinality({f[q] : q \in {x \in Peer : Size < f[x] /\ f[x] <= f[p]}})]

\* Some peers have just been selected by other requests, the others never.
Init ==
  /\ entries = [p \in Peer |-> ColdEntry(0)]
  /\ stale \in [Peer -> {0, Size}]

Aged(turn) ==
  Compressed([p \in Peer |-> IF p \in turn THEN 0 ELSE stale[p] + 1])

\* The staleness the ranking sees, the epoch already advanced.
Seen == [p \in Peer |-> stale[p] + 1]

\* The adjusted pools: all a selection over the pool can make of it now.
Pools(deranked) ==
  {Adjusted([p \in Peer |-> ScorePeer(p, entries[p], m[p], 1)], deranked) :
     m \in {f \in [Peer -> Scores] :
              \A p \in Peer : entries[p].worth = 0 => f[p] = 0}}

SelectPool(want) ==
  \E scored \in Pools({}) : \E selection \in Selections(scored, Seen, want) :
    /\ stale' = Aged(DOMAIN selection)
    /\ UNCHANGED entries

\* A selection for another request, over a pool that may share peers.
SelectElsewhere(turn) ==
  /\ stale' = Aged(turn)
  /\ UNCHANGED entries

Outcome(p, result) ==
  /\ \E e \in Learned(entries[p], result) : entries' = [entries EXCEPT ![p] = e]
  /\ UNCHANGED stale

Next ==
  \/ \E want \in Wants : SelectPool(want)
  \/ \E turn \in SUBSET Peer : SelectElsewhere(turn)
  \/ \E p \in Peer, result \in Results : Outcome(p, result)

Spec == Init /\ [][Next]_vars

-----------------------------------------------------------------------------
\* Every peer of the pool has a well-formed entry, one with a measured
\* throughput is no longer cold (engine.rs:444-446: every outcome counts as a
\* sample), and staleness has no gaps beyond the size of the pool.
TypeOK ==
  /\ entries \in [Peer -> PeerEntry]
  /\ \A p \in Peer : entries[p].worth > 0 => entries[p].standing # "cold"
  /\ stale \in [Peer -> 0..(2 * Size)]
  /\ \A p \in Peer : stale[p] > Size + 1 => \E q \in Peer : stale[q] = stale[p] - 1

-----------------------------------------------------------------------------
(* What an answer looks like.  Each holds in every reachable state for every *)
(* answer that a selection over the pool could give there.                   *)

ForEveryAnswer(P(_, _, _)) ==
  \A want \in Wants : \A scored \in Pools({}) :
    \A selection \in Selections(scored, Seen, want) : P(want, scored, selection)

ColdIn(scored, selection) ==
  {p \in DOMAIN selection : scored[p].exploratory}

\* Unmeasured peers take at most a third of a request, the reserved slot
\* included (engine.rs:225-230, 308-316).
ColdBudgetKept ==
  LET Kept(want, scored, selection) ==
        Cardinality(ColdIn(scored, selection)) <= ExploreSlots(want)
  IN  ForEveryAnswer(Kept)

\* A slot stays empty only if every measured peer is in, and then the
\* exploration budget is used up or every peer is in (engine.rs:317-340):
\* reserving a slot never loses one.
NoSlotLost ==
  LET Full(want, scored, selection) ==
        \/ Cardinality(DOMAIN selection) = want
        \/ /\ \A p \in Peer \ DOMAIN selection : scored[p].exploratory
           /\ \/ DOMAIN selection = Peer
              \/ Cardinality(ColdIn(scored, selection)) = ExploreSlots(want)
  IN  ForEveryAnswer(Full)

\* An unmeasured peer leads an answer only if every best measured peer is held
\* back for the reserved slot, which ranks last, or it is itself there
\* (engine.rs:192-206, 262-263): whoever scores best, if above 0, leads
\* otherwise.  Nothing is said of a pool that sort_by may leave in any order.
ProvenLeads ==
  LET Best(scored, q) ==
        /\ ~scored[q].exploratory /\ scored[q].effective_score > 0
        /\ \A r \in Peer : scored[r].effective_score > scored[q].effective_score
                            => scored[r].exploratory
      Led(want, scored, selection) ==
        \A p \in DOMAIN selection, q \in Peer :
          (/\ selection[p].rank = 0 /\ scored[p].exploratory
           /\ Best(scored, q) /\ ~Cyclic(scored, Seen))
          => {p, q} \cap ForcedPicks(scored, Seen, want) # {}
  IN  ForEveryAnswer(Led)

\* One round of the loop of pass 1: p is taken while the cap and the
\* exploration budget allow, and left for pass 2 if it is forced.
Visit(scored, forced, want, before, p) ==
  IF \/ Cardinality(before.chosen) >= Cap(forced, want)
     \/ p \in forced
     \/ scored[p].exploratory /\ before.explored >= Budget(scored, forced, want)
  THEN before
  ELSE [chosen |-> before.chosen \cup {p},
        explored |-> IF scored[p].exploratory
                     THEN before.explored + 1 ELSE before.explored]

\* The loop itself, over the positions of the order.
LoopPassOne(scored, pos, forced, want) ==
  LET At(i) == CHOOSE p \in DOMAIN scored : pos[p] = i
      walk[i \in 0..Cardinality(DOMAIN scored)] ==
        IF i = 0 THEN [chosen |-> {}, explored |-> 0]
        ELSE Visit(scored, forced, want, walk[i - 1], At(i))
  IN  walk[Cardinality(DOMAIN scored)].chosen

\* The closed form of pass 1 that Ranking uses is the loop of
\* engine.rs:317-334, for every order, forced pick and request.
PassOneIsTheLoop ==
  \A want \in Wants : \A scored \in Pools({}) : \A pos \in Orders(scored, Seen) :
    \A forced \in {{}} \cup {{p} : p \in ForcedPicks(scored, Seen, want)} :
      PassOne(scored, pos, forced, want) = LoopPassOne(scored, pos, forced, want)

-----------------------------------------------------------------------------
(* What the comments and SPEC.md say, and the code does not do *)

\* A peer that failed verification is "driven below any cold peer"
\* (scoring.rs:277, SPEC 9.4): no answer ranks it ahead of one.
BadSourceBelowCold ==
  LET Below(want, scored, selection) ==
        \A p, q \in DOMAIN selection :
          entries[p].standing = "bad" /\ scored[q].exploratory
            => selection[q].rank < selection[p].rank
  IN  ForEveryAnswer(Below)

\* "Among equal COLD exploratory peers, order by least-recently-selected
\* (coverage)" (engine.rs:232-234): of two, the staler is not passed over.
ColdByCoverage ==
  LET Fair(want, scored, selection) ==
        \A p, q \in Peer :
          (scored[p].exploratory /\ scored[q].exploratory
            /\ Seen[p] > Seen[q] /\ q \in DOMAIN selection)
          => p \in DOMAIN selection
  IN  ForEveryAnswer(Fair)
=============================================================================

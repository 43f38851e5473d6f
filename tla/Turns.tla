-------------------------------- MODULE Turns --------------------------------
(***************************************************************************)
(* Coverage with a history variable: how long each peer has been passed    *)
(* over.                                                                   *)
(***************************************************************************)
EXTENDS Coverage

VARIABLE
  waited  \* selections over this pool since p's turn, or since p was last
          \* floored; the count stops at twice the pool

turnVars == <<entries, stale, waited>>

TurnInit ==
  /\ Init
  /\ waited = [p \in Peer |-> 0]

TurnSelect(want) ==
  \E scored \in Pools({}) : \E selection \in Selections(scored, Seen, want) :
    /\ stale' = Aged(DOMAIN selection)
    /\ waited' = [p \in Peer |->
                    IF p \in DOMAIN selection \/ Floored(scored[p])
                    THEN 0 ELSE MinOf(waited[p] + 1, 2 * Size)]
    /\ UNCHANGED entries

TurnElsewhere(turn) ==
  /\ SelectElsewhere(turn)
  /\ waited' = [p \in Peer |-> IF p \in turn THEN 0 ELSE waited[p]]

TurnOutcome(p, result) ==
  /\ Outcome(p, result)
  /\ UNCHANGED waited

TurnNext ==
  \/ \E want \in Wants : TurnSelect(want)
  \/ \E turn \in SUBSET Peer : TurnElsewhere(turn)
  \/ \E p \in Peer, result \in Results : TurnOutcome(p, result)

TurnSpec == TurnInit /\ [][TurnNext]_turnVars

\* No peer that is not floored waits for long (engine.rs:259-295, SPEC 4.4-E):
\* whatever scores, outcomes and other requests do, it is passed over by
\* fewer than two sweeps of the pool.  For requests of less than the pool.
NoStarvation == \A p \in Peer : waited[p] <= MaxOf(1, 2 * Size - 3)
=============================================================================

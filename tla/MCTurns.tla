----------------------------- MODULE MCTurns -----------------------------
(* Instances of Turns for TLC. *)
EXTENDS Turns, TLC

CONSTANTS p1, p2, p3, p4

\* Peers whose ids start low enough that the floor stays a floor.
SmallSalts == [p \in Peer |-> CASE p = p1 -> 0 [] p = p2 -> 8 [] p = p3 -> 16 [] OTHER -> 24]
=============================================================================

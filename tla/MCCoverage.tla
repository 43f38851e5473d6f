----------------------------- MODULE MCCoverage -----------------------------
(* Instances of Coverage for TLC. *)
EXTENDS Coverage, TLC

CONSTANTS p1, p2, p3, p4

\* Peers whose ids start low enough that the floor stays a floor.
SmallSalts == [p \in Peer |-> CASE p = p1 -> 0 [] p = p2 -> 8 [] p = p3 -> 16 [] OTHER -> 24]

\* Ids spread over the whole range of the tie-break key: one unit stands for
\* 1.0e10, so the floor is -100 and the largest key adds 1844.
WideSalts == [p \in Peer |-> CASE p = p1 -> 16 [] p = p2 -> 88 [] p = p3 -> 920 [] OTHER -> 1840]
=============================================================================

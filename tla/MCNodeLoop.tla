----------------------------- MODULE MCNodeLoop -----------------------------
(* Instances of NodeLoop for TLC. *)
EXTENDS NodeLoop, TLC

CONSTANTS p1, p2, p3

\* All salts equal: the peers are interchangeable.
EqualSalts == [p \in Peer |-> 0]
Symmetry == Permutations(Peer)
=============================================================================

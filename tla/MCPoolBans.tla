----------------------------- MODULE MCPoolBans -----------------------------
(* Instances of PoolBans for TLC. *)
EXTENDS PoolBans, TLC

CONSTANTS p1, p2, p3

\* All salts equal: the peers are interchangeable.
EqualSalts == [p \in Peer |-> 0]
Symmetry == Permutations(Peer)
=============================================================================

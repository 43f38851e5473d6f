--------------------------- MODULE MCPeerSelector ---------------------------
(* Instances of PeerSelector for TLC. *)
EXTENDS PeerSelector, TLC

CONSTANTS p1, p2, p3

\* All salts equal: every salt tie is then a choice, and the peers are
\* interchangeable.
EqualSalts == [p \in Peer |-> 0]
Symmetry == Permutations(Peer)
=============================================================================

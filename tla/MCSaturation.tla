---------------------------- MODULE MCSaturation ----------------------------
(* Instances of Saturation. *)
EXTENDS Saturation, TLC

CONSTANTS p1, p2

Symmetry == Permutations(Peer)
=============================================================================

----------------------------- MODULE MCQuality ------------------------------
(* An instance of Quality. *)
EXTENDS Quality

CONSTANT p1
=============================================================================

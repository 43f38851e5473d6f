------------------------------ MODULE Learning ------------------------------
(***************************************************************************)
(* What the rest of the project takes the learned quality of a peer for:   *)
(* an entry whose standing and worth move with each outcome as Learned of  *)
(* Registry says.  Quality, the arithmetic of the code, implements this.   *)
(***************************************************************************)
EXTENDS Registry

VARIABLE entry

Results == {"measured", "unmeasured", "soft", "hard", "cancelled"}

LearnInit == entry = ColdEntry(0)

Learn(result) == entry' \in Learned(entry, result)

LearnNext == \E result \in Results : Learn(result)

LearnSpec == LearnInit /\ [][LearnNext]_entry
=============================================================================

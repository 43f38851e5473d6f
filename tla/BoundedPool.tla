---------------------------- MODULE BoundedPool ----------------------------
(***************************************************************************)
(* What the registry promises as a bounded set of peers, some of them      *)
(* pinned by a live link: an insertion makes room by shedding peers that   *)
(* are not pinned, exactly as many as exceed the capacity, or all of them; *)
(* nothing else makes a peer leave but a removal of that peer alone.       *)
(***************************************************************************)
EXTENDS Integers, FiniteSets

CONSTANTS Peer, Capacity

VARIABLES members, pinned

pool == <<members, pinned>>

PoolInit == members = {} /\ pinned = {}

Least(a, b) == IF a < b THEN a ELSE b

\* p joins, pinned or not; p itself may be among those shed.
Join(p, pins) ==
  /\ p \notin members
  /\ pinned' = pinned \cup pins
  /\ LET crowd == members \cup {p}
         spare == crowd \ pinned'
     IN  \E shed \in SUBSET spare :
           /\ Cardinality(shed) =
                Least(Cardinality(spare),
                      IF Cardinality(crowd) > Capacity
                      THEN Cardinality(crowd) - Capacity ELSE 0)
           /\ members' = crowd \ shed

Pin(p) == p \in members /\ pinned' = pinned \cup {p} /\ UNCHANGED members

Unpin(p) == p \in members /\ pinned' = pinned \ {p} /\ UNCHANGED members

Leave(p) == members' = members \ {p} /\ pinned' = pinned \ {p}

PoolNext ==
  \E p \in Peer : Join(p, {}) \/ Join(p, {p}) \/ Pin(p) \/ Unpin(p) \/ Leave(p)

PoolSpec == PoolInit /\ [][PoolNext]_pool
=============================================================================

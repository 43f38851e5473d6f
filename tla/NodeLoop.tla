------------------------------ MODULE NodeLoop ------------------------------
(***************************************************************************)
(* The engine and the node around it: what the node has going at each      *)
(* peer, next to what the selector's account says it has.                  *)
(*                                                                         *)
(* The node is not part of the repository.  Its moves are those lib.rs     *)
(* prescribes to whoever embeds the crate: dispatch up to max_concurrency  *)
(* ranges of a selected peer, report each range once, perhaps the whole    *)
(* request too, feed pool events and classes.  A range may also end with   *)
(* no report (the peer or the task goes silent).  Every move is a step of  *)
(* the engine, or leaves it alone, so what PeerSelector guarantees holds   *)
(* here too; the added variables only remember.  The history follows the   *)
(* peers of Followed; what goes on at the others is any call at all.       *)
(***************************************************************************)
EXTENDS PeerSelector

CONSTANTS
  Followed,   \* the peers whose ranges are counted
  MaxRunning  \* bound on the ranges the node has going at one peer

ASSUME FollowedAssumption == Followed \subseteq Peer
ASSUME RunningAssumption == MaxRunning \in 0..MaxInFlight

VARIABLES
  running,   \* running[p]: the ranges the node has going at p
  uncovered  \* how many of them the account may miss, for a known reason

host == <<running, uncovered>>
nodeVars == <<vars, host>>

NodeInit ==
  /\ Init
  /\ running = [p \in Followed |-> 0]
  /\ uncovered = [p \in Followed |-> 0]

\* The account of p expired in this step: its stamp was a whole TTL old, and
\* is gone or new.  An outcome reclaims nothing of its own peer: where the peers
\* of `settled` lose an old stamp, the last of their ranges was released.
Expired(p, settled) ==
  /\ p \in (DOMAIN entries \cap DOMAIN entries') \ settled
  /\ entries[p].in_flight_since # None
  /\ clock - entries[p].in_flight_since >= DispatchTTL
  /\ entries'[p].in_flight_since # entries[p].in_flight_since

Absent == Followed \ DOMAIN entries'

\* An account may miss what ran when it expired, everything while its peer has
\* no entry, and the one range a report on a whole request takes off it.
Excuse(shed, settled, reported) ==
  uncovered' =
    [p \in Followed |->
       MinOf(running'[p],
             IF p \in shed THEN running'[p]
             ELSE IF Expired(p, settled) THEN running[p]
             ELSE IF p \in reported THEN uncovered[p] + 1 ELSE uncovered[p])]

\* A step in which no range starts or ends.
Watch == UNCHANGED running /\ Excuse(Absent, {}, {})

\* The ranges a selection granted p: what its account has gained.
Granted(p, now) ==
  IF p \in DOMAIN entries \cap DOMAIN entries'
  THEN entries'[p].in_flight - Reclaimed(entries[p], now).in_flight ELSE 0

\* The node starts as many of the ranges granted as it has a use for.
Start(now) ==
  /\ \E started \in [Followed -> 0..MaxRunning] :
       /\ \A p \in Followed : /\ started[p] <= Granted(p, now)
                              /\ running[p] + started[p] <= MaxRunning
       /\ running' = [p \in Followed |-> running[p] + started[p]]
  /\ Excuse(Absent, {}, {})

-----------------------------------------------------------------------------
Undisturbed ==
  \/ Tick
  \/ \E candidates \in SUBSET Peer, now \in Recent :
       Cardinality(candidates) <= MaxCandidates /\ SelectBegin(candidates, now)
  \/ \E p \in Peer : SelectUpsert(p) \/ \E banned \in BOOLEAN : PeerRemoved(p, banned)
  \/ \E p \in Peer, now \in Recent :
       PeerAdded(p, now) \/ OnConnectionClass(p, now) \/ UpsertManual(p, now)
  \/ \E p \in Peer \ Followed :
       \/ RemovePeer(p)
       \/ \E count \in 0..MaxCount, now \in Recent : OnDispatch(p, count, now)
       \/ \E result \in Results, now \in Recent, at \in Recent :
            RecordOutcome(p, result, at, now)

NodeSelect == \E want \in 1..MaxWant : SelectFinish(want) /\ Start(call.now)

NodeRebalance ==
  \E active \in SUBSET DOMAIN entries, want \in 1..MaxWant, now \in Recent :
    Rebalance(active, want, now) /\ Start(now)

\* RangeCompleted or RangeFailed: one range has settled.
RangeSettled ==
  \E p \in Followed, result \in Results, now \in Recent, at \in Recent :
    /\ running[p] > 0
    /\ RecordOutcome(p, result, at, now)
    /\ running' = [running EXCEPT ![p] = @ - 1]
    /\ Excuse(Absent, {p}, {})

\* Completed, an outcome of kind Request: no range settles with it.
RequestCompleted ==
  \E p \in Followed, result \in Results, now \in Recent, at \in Recent :
    /\ RecordOutcome(p, result, at, now)
    /\ UNCHANGED running
    /\ Excuse(Absent, {p}, {p})

\* A range ends and nobody reports it.
RangeLost ==
  /\ \E p \in Followed : running[p] > 0 /\ running' = [running EXCEPT ![p] = @ - 1]
  /\ UNCHANGED vars
  /\ Excuse(Absent, {}, {})

\* No reason for an account to be lost.
NodeRemoves ==
  \E p \in Followed :
    /\ RemovePeer(p)
    /\ UNCHANGED running
    /\ Excuse(Absent \ {p}, {}, {})

\* Ranges dispatched outside a selection; for an unknown peer the selector
\* does nothing.
NodeDispatches ==
  \E p \in Followed, count \in 0..MaxCount, now \in Recent :
    /\ \/ OnDispatch(p, count, now)
       \/ call = Idle /\ p \notin DOMAIN entries /\ UNCHANGED vars
    /\ running[p] + count <= MaxRunning
    /\ running' = [running EXCEPT ![p] = @ + count]
    /\ Excuse(Absent, {}, {})

NodeNext ==
  \/ Undisturbed /\ Watch
  \/ NodeSelect \/ NodeRebalance
  \/ RangeSettled \/ RequestCompleted \/ RangeLost
  \/ NodeRemoves \/ NodeDispatches

NodeSpec == NodeInit /\ [][NodeNext]_nodeVars

-----------------------------------------------------------------------------
Account(p) == IF p \in DOMAIN entries THEN entries[p].in_flight ELSE 0

\* "in_flight reflects reality" (SPEC 5.3), as far as the code keeps it: the
\* account of a peer covers the ranges running at it, but for those that ran
\* when the oldest dispatch was a whole TTL old, or while capacity pressure
\* had taken the entry, and one per report on a whole request, through
\* dispatches, reclaims, disconnects, removals and outcomes in any order.
AccountCovers == \A p \in Followed : running[p] - uncovered[p] <= Account(p)
=============================================================================

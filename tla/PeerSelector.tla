---------------------------- MODULE PeerSelector ----------------------------
(***************************************************************************)
(* The engine of dig-peer-selector (src/src/engine.rs): every public call  *)
(* that changes state, over the registry and the two per-peer side maps.   *)
(*                                                                         *)
(* A call first reads the clock and then takes the one mutex around all    *)
(* state, so it runs with a `now` up to MaxLag ticks old, and calls take   *)
(* effect in another order than they read the clock in.  Under the mutex a *)
(* call is one step, except select, whose loop over the candidates is one  *)
(* step per candidate; `call` holds its local state while it owns the      *)
(* mutex, and every other call waits for call = Idle.                      *)
(*                                                                         *)
(* Measurements are inputs: what a peer's proven score is at a select, the *)
(* learned saturation point, and how an outcome moves the learned quality  *)
(* are chosen among what the code can compute.                             *)
(***************************************************************************)
EXTENDS Ranking

CONSTANTS
  MaxClock,       \* the clock stops here
  MaxLag,         \* how stale the `now` of a call can be
  EpochModulus,   \* stands for 2^64, where the epoch wraps
  MaxWant,        \* bound on the effective parallelism of a request
  MaxCandidates,  \* bound on the candidates of one select
  MaxCount,       \* bound on the count given to on_dispatch
  Results,        \* the kinds of outcome reported
  Scores,         \* the scores a proven peer can have
  Points          \* the saturation points the model can have learned

ASSUME EngineAssumption ==
  /\ MaxClock \in Nat /\ MaxLag \in Nat /\ MaxCandidates \in Nat /\ MaxCount \in Nat
  /\ EpochModulus \in Nat \ {0} /\ MaxWant \in Nat \ {0}
  /\ Results \subseteq {"measured", "unmeasured", "soft", "hard", "cancelled"}
  /\ 0 \in Scores /\ Scores \subseteq Nat
  /\ Points \subseteq Nat \ {0}

Idle == None

\* A select under way: the candidates still to register, all of them, its time.
Call == [todo : SUBSET Peer, pool : SUBSET Peer, now : 0..MaxClock]

ASSUME IdleAssumption == Idle \notin Call

VARIABLES
  entries,        \* Registry::entries
  evicted,        \* Registry::evicted, not yet drained
  last_selected,  \* the epoch each peer was last selected in
  dispatched,     \* the peers with a dispatch record
  epoch,          \* select/rebalance counter
  clock,          \* ClockSource
  call            \* the select that holds the mutex, or Idle

vars == <<entries, evicted, last_selected, dispatched, epoch, clock, call>>

\* What a caller that read the clock a moment ago may have seen.
Recent == {t \in 0..clock : clock - t <= MaxLag}

Init ==
  /\ entries = [p \in {} |-> None]
  /\ evicted = {}
  /\ last_selected = [p \in {} |-> None]
  /\ dispatched = {}
  /\ epoch = 0
  /\ clock = 0
  /\ call = Idle

Tick ==
  /\ clock < MaxClock
  /\ clock' = clock + 1
  /\ UNCHANGED <<entries, evicted, last_selected, dispatched, epoch, call>>

-----------------------------------------------------------------------------
(* Pruning and selection, the parts the calls share *)

\* Fault: what was evicted is drained but not pruned.
AbsorbUnpruned(result) ==
  /\ entries' = result.entries
  /\ evicted' = {}
  /\ UNCHANGED <<last_selected, dispatched>>

\* What a registry operation returned, drained by prune_evicted_side_maps.
Absorb(result) ==
  /\ entries' = result.entries
  /\ evicted' = {}
  /\ last_selected' = Without(last_selected, evicted \cup result.shed)
  /\ dispatched' = dispatched \ (evicted \cup result.shed)

\* Fault: nothing asks whether a peer is banned.
KnownPool(registry, pool) == pool \cap DOMAIN registry

EligiblePool(registry, pool) ==
  {p \in pool \cap DOMAIN registry : IsEligible(registry[p])}

\* What the models can make of the pool: a peer without a measured
\* throughput scores 0.
Measurements(registry, peers) ==
  {m \in [peers -> Scores] : \A p \in peers : registry[p].worth = 0 => m[p] = 0}

Staleness(now_epoch, selected, p) ==
  IF p \notin DOMAIN selected THEN now_epoch
  ELSE IF now_epoch > selected[p] THEN now_epoch - selected[p] ELSE 0

\* select_over: reclaim, score, rank, then account the dispatch.
SelectOver(registry, selected, records, pool, deranked, want, now) ==
  LET live == ReclaimStaleInFlight(registry, now)
      peers == EligiblePool(live, pool)
      next == (epoch + 1) % EpochModulus
      stale == [p \in peers |-> Staleness(next, selected, p)]
  IN  IF peers = {}
      THEN /\ entries' = live
           /\ last_selected' = selected
           /\ dispatched' = records
           /\ UNCHANGED epoch
      ELSE /\ epoch' = next
           /\ \E measured \in Measurements(live, peers), point \in Points :
                LET scored == Adjusted(
                      [p \in peers |-> ScorePeer(p, live[p], measured[p], point)], deranked)
                IN  \E selection \in Selections(scored, stale, want) :
                      /\ last_selected' =
                           [p \in DOMAIN selected \cup DOMAIN selection |->
                              IF p \in DOMAIN selection THEN next ELSE selected[p]]
                      /\ entries' =
                           [p \in DOMAIN live |->
                              IF p \in DOMAIN selection
                              THEN AddInFlight(live[p], selection[p].max_concurrency, now)
                              ELSE live[p]]
                      /\ dispatched' = records \cup DOMAIN selection

-----------------------------------------------------------------------------
(* select, which holds the mutex over several steps *)

SelectBegin(candidates, now) ==
  /\ call = Idle
  /\ call' = [todo |-> candidates, pool |-> candidates, now |-> now]
  /\ UNCHANGED <<entries, evicted, last_selected, dispatched, epoch, clock>>

\* The order of the candidates is the caller's: any of them may be next.
SelectUpsert(p) ==
  /\ call # Idle
  /\ p \in call.todo
  /\ \E result \in UpsertCandidate(entries, p, call.now) :
       /\ entries' = result.entries
       /\ evicted' = evicted \cup result.shed
  /\ call' = [call EXCEPT !.todo = @ \ {p}]
  /\ UNCHANGED <<last_selected, dispatched, epoch, clock>>

SelectFinish(want) ==
  /\ call # Idle
  /\ call.todo = {}
  /\ evicted' = {}
  /\ call' = Idle
  /\ UNCHANGED clock
  /\ SelectOver(entries, Without(last_selected, evicted), dispatched \ evicted,
                call.pool, {}, want, call.now)

-----------------------------------------------------------------------------
(* The calls that are one step *)

\* The pool is every eligible registered peer; the active ones are de-ranked.
Rebalance(active, want, now) ==
  /\ call = Idle
  /\ UNCHANGED <<evicted, clock, call>>
  /\ SelectOver(entries, last_selected, dispatched, DOMAIN entries, active, want, now)

\* The entry after an outcome: its time counts for the recency, and one range
\* of in-flight is released whatever the outcome.
Settled(e, reference) == ReleaseInFlight([e EXCEPT !.reference = reference], 1)

\* An unknown peer is inserted first, and may be shed at once.
RecordOutcome(p, result, at, now) ==
  /\ call = Idle
  /\ \E healed \in UpsertCandidate(entries, p, now) :
       /\ last_selected' = Without(last_selected, healed.shed)
       /\ dispatched' = dispatched \ (healed.shed \cup {p})
       /\ IF p \in DOMAIN healed.entries
          THEN \E e \in Learned(healed.entries[p], result) :
                 entries' = [healed.entries EXCEPT ![p] = Settled(e, MaxOf(at, now))]
          ELSE entries' = healed.entries
  /\ UNCHANGED <<evicted, epoch, clock, call>>

PeerAdded(p, now) ==
  /\ call = Idle
  /\ \E result \in MarkConnected(entries, p, now) : Absorb(result)
  /\ UNCHANGED <<epoch, clock, call>>

PeerRemoved(p, banned) ==
  /\ call = Idle
  /\ entries' = MarkDisconnected(entries, p, banned)
  /\ UNCHANGED <<evicted, last_selected, dispatched, epoch, clock, call>>

OnConnectionClass(p, now) ==
  /\ call = Idle
  /\ \E result \in SetConnectionClass(entries, p, now) : Absorb(result)
  /\ UNCHANGED <<epoch, clock, call>>

UpsertManual(p, now) ==
  /\ call = Idle
  /\ \E result \in UpsertCandidate(entries, p, now) : Absorb(result)
  /\ UNCHANGED <<epoch, clock, call>>

RemovePeer(p) ==
  /\ call = Idle
  /\ Absorb(RemovePeerEntry(entries, p))
  /\ UNCHANGED <<epoch, clock, call>>

OnDispatch(p, count, now) ==
  /\ call = Idle
  /\ p \in DOMAIN entries
  /\ entries' = [entries EXCEPT ![p] = AddInFlight(@, count, now)]
  /\ UNCHANGED <<evicted, last_selected, dispatched, epoch, clock, call>>

-----------------------------------------------------------------------------
Select ==
  \/ \E candidates \in SUBSET Peer, now \in Recent :
       Cardinality(candidates) <= MaxCandidates /\ SelectBegin(candidates, now)
  \/ \E p \in Peer : SelectUpsert(p)
  \/ \E want \in 1..MaxWant : SelectFinish(want)

Query ==
  \E active \in SUBSET DOMAIN entries, want \in 1..MaxWant, now \in Recent :
    Rebalance(active, want, now)

Report ==
  \E p \in Peer, result \in Results, now \in Recent, at \in Recent :
    RecordOutcome(p, result, at, now)

Feed ==
  \/ \E p \in Peer, now \in Recent :
       PeerAdded(p, now) \/ OnConnectionClass(p, now) \/ UpsertManual(p, now)
  \/ \E p \in Peer : RemovePeer(p) \/ \E banned \in BOOLEAN : PeerRemoved(p, banned)
  \/ \E p \in Peer, count \in 0..MaxCount, now \in Recent : OnDispatch(p, count, now)

Next == Tick \/ Select \/ Query \/ Report \/ Feed

Spec == Init /\ [][Next]_vars

\* A call that holds the mutex returns; time passes; and the host keeps
\* querying, which is what the lazy reclaim relies on.
Fairness ==
  /\ WF_vars(Tick)
  /\ WF_vars(\E now \in Recent : Rebalance({}, 1, now))
  /\ WF_vars(\E p \in Peer : SelectUpsert(p))
  /\ WF_vars(\E want \in 1..MaxWant : SelectFinish(want))

LiveSpec == Spec /\ Fairness

-----------------------------------------------------------------------------
(* Invariants *)

Busy(e) == e.in_flight > 0

\* Every variable stays in its type: in-flight counts saturate, stamps and
\* epochs are numbers, the side maps are keyed by peers.
TypeOK ==
  /\ IsPeerMap(entries, PeerEntry)
  /\ evicted \subseteq Peer
  /\ IsPeerMap(last_selected, 0..(EpochModulus - 1))
  /\ dispatched \subseteq Peer
  /\ epoch \in 0..(EpochModulus - 1)
  /\ clock \in 0..MaxClock
  /\ call \in Call \cup {Idle}

\* The side maps leak nothing (engine.rs:48-59): each of their keys is a
\* registered peer or one whose eviction is about to be drained, no eviction
\* is left undrained once the mutex is released, and a dispatch record
\* belongs to a peer that the coverage map knows.
SideMapsTracked ==
  /\ DOMAIN last_selected \subseteq DOMAIN entries \cup evicted
  /\ dispatched \subseteq DOMAIN last_selected
  /\ call = Idle => evicted = {}

\* An entry is busy exactly while it carries a stamp, and no stamp is ahead
\* of the clock (registry.rs:53-57): the reclaim sees every busy entry.
BusyStamped ==
  \A p \in DOMAIN entries :
    /\ Busy(entries[p]) <=> entries[p].in_flight_since # None
    /\ Busy(entries[p]) => entries[p].in_flight_since <= clock

\* A ban and a live link exclude each other (registry.rs:236-270), whatever
\* order the pool's events and the other feeds come in.
BannedOffline ==
  \A p \in DOMAIN entries : entries[p].banned => ~entries[p].connected

\* The group that Victims sheds at once is what the loop of rounds sheds one by
\* one (registry.rs:372-409), whoever is about to be inserted into this state.
EvictionIsTheLoop ==
  \A p \in Peer \ DOMAIN entries, now \in Recent, connected \in BOOLEAN :
    LET more == ReclaimStaleInFlight(
                  With(entries, p, [ColdEntry(now) EXCEPT !.connected = connected]), now)
    IN  Victims(more, now) = LoopVictims(more, now)

\* The select that holds the mutex read its clock in the past.
CallInPast == call # Idle => call.now <= clock

\* The inductive invariant: types, side maps, stamps and bans hold together.
IInv == TypeOK /\ SideMapsTracked /\ BusyStamped /\ BannedOffline /\ CallInPast

-----------------------------------------------------------------------------
(* Action properties *)

DropsNoLiveLink ==
  \A p \in DOMAIN entries \ DOMAIN entries' :
     entries[p].connected =>
       ~Busy(entries[p]) /\ DOMAIN entries' = DOMAIN entries \ {p}

\* Capacity pressure never drops a live link (registry.rs:91-98): a connected
\* peer leaves only by remove_peer, idle and alone.
LiveLinkKept == [][DropsNoLiveLink]_vars

ShedsBusyLast ==
  \A p \in DOMAIN entries \ DOMAIN entries' :
     Busy(entries[p]) /\ clock - entries[p].in_flight_since < DispatchTTL =>
       \A q \in DOMAIN entries' : entries'[q].connected \/ Busy(entries'[q])

\* A peer whose dispatch is younger than the TTL is shed only when nothing
\* idle is left to shed (registry.rs:376-400).
BusyShedLast == [][ShedsBusyLast]_vars

KeepsWorth ==
  \A p \in DOMAIN entries \ DOMAIN entries', q \in DOMAIN entries \cap DOMAIN entries' :
     ~Busy(entries[p]) /\ ~entries[p].connected /\ ~entries'[q].connected /\ ~Busy(entries'[q])
       /\ ~RemovePeer(p)
     => \/ entries[p].worth <= entries[q].worth
        \/ entries[p].reference < entries[q].reference

\* Of two idle offline peers, the one shed on an insertion was not both worth
\* more and measured later than the one kept (registry.rs:103-125, 372-400),
\* also when several are shed at once, the one inserted among them.
WorthKept == [][KeepsWorth]_vars

RestoresBound ==
  ~(DOMAIN entries' \subseteq DOMAIN entries) =>
     \/ Cardinality(DOMAIN entries') <= Capacity
     \/ \A p \in DOMAIN entries' : entries'[p].connected

\* Any call that adds an entry leaves the registry within its capacity, or
\* holding nothing but live links (registry.rs:372-409), also when it was
\* over capacity before.
BoundRestored == [][RestoresBound]_vars

KeepsLearning ==
  \A p \in DOMAIN entries \cap DOMAIN entries' :
     /\ entries[p].standing # "cold" => entries'[p].standing # "cold"
     /\ entries[p].standing \in {"bad", "redeemed"} =>
          entries'[p].standing \in {"bad", "redeemed"}

\* What was learned survives while the entry does: a measured peer is never
\* cold again, and a verification failure is never forgotten, through
\* disconnects, bans, reconnects and repeated candidates (registry.rs:256-258).
LearningKept == [][KeepsLearning]_vars

HoldsBan ==
  \A p \in DOMAIN entries :
     entries[p].banned =>
       /\ p \in dispatched' => p \in dispatched
       /\ p \in DOMAIN last_selected' =>
            p \in DOMAIN last_selected /\ last_selected'[p] = last_selected[p]
       /\ p \in DOMAIN entries' => entries'[p].banned \/ entries'[p].connected

\* A banned peer gets no turn and no dispatch record, and only the pool
\* adding it back lifts the ban (registry.rs:50-51, SPEC 9.4).
BanHolds == [][HoldsBan]_vars

ReclaimsNotEarly ==
  \A p \in DOMAIN entries \cap DOMAIN entries' :
     entries'[p].in_flight < entries[p].in_flight - 1 =>
       clock - entries[p].in_flight_since >= DispatchTTL

\* However old the `now` of a call is, in-flight drops by more than the one
\* range an outcome settles only once the stamp is a whole TTL old
\* (registry.rs:340-349).
ReclaimNotEarly == [][ReclaimsNotEarly]_vars

-----------------------------------------------------------------------------
(* Liveness *)

\* A dispatch nobody settles does not keep its peer busy for good
\* (registry.rs:335-340): every stamp old enough to expire before the clock
\* stops is gone some time later.
AbandonedFreed ==
  \A p \in Peer, t \in 0..(MaxClock - DispatchTTL - MaxLag) :
    (p \in DOMAIN entries /\ entries[p].in_flight_since = t)
      ~> ~(p \in DOMAIN entries /\ entries[p].in_flight_since = t)

-----------------------------------------------------------------------------
(* Refinement *)

Pool == INSTANCE BoundedPool
          WITH members <- DOMAIN entries,
               pinned <- {p \in DOMAIN entries : entries[p].connected}

\* Whatever the calls and their order, the registry is a bounded pool
\* (registry.rs:361-409): it sheds on insertions only, never a live link, and
\* never more than exceeds the capacity.
ImplementsPool == Pool!PoolSpec
=============================================================================

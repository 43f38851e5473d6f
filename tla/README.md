# A specification of dig-peer-selector

dig-peer-selector decides, for a content request, which of the candidate peers
should serve it and with how many concurrent ranges, and learns from the
outcome of every transfer. This directory holds TLA+ modules of the decision
engine, its registry and its estimators, of the node around it, TLC
configurations that check them on small instances, and TLAPS proofs of the
properties that hold for every instance. `engine.rs:274` below stands for line
274 of `src/src/engine.rs`, and likewise for the other files; `SPEC` is
`src/SPEC.md`.

## The system

| Part | State it keeps | Operations | What makes it correct |
|---|---|---|---|
| `registry.rs` | `entries` (peer -> entry: connected, banned, class, quality, `in_flight`, `in_flight_since`), `capacity`, `evicted` since the last drain | upsert, mark connected / disconnected, set class, remove, add / release / reclaim in-flight, enforce capacity | it is a bounded pool that never sheds a live link; the cheapest peer goes first; busy entries are stamped and expire; learning and bans survive churn |
| `engine.rs` | one mutex over the registry, the models, the PRNG, `dispatched`, `epoch`, `last_selected` | `select`, `rebalance`, `record_outcome`, `on_pool_event`, `on_connection_class`, `upsert_candidate`, `remove_peer`, `on_dispatch`, `dial_plan`, snapshots | the side maps follow the registry; the account of a peer covers what runs at it; a banned peer is not selected; everybody gets a turn; measured peers lead; exploration stays within its budget |
| `scoring.rs` | a saturation point per class, the relayed penalty | `score_peer`, `SaturationModel::observe`, `RelayModel::observe` | a failed source ranks last; points and penalty stay within what was measured |
| `quality.rs` | throughput and round-trip estimates, reliability, sample count | `observe_*` | a changed peer is followed; one verification failure drops a peer below 0.5 whatever its history; no failure helps |
| `types.rs`, `pool_event.rs` | none | request, outcome and event types | |
| `config.rs` | the clock, system or manual | `now` | |
| `dial.rs` | none | `peer_target` | |
| `observe.rs`, `lib.rs` | none | read-only snapshots; re-exports | |

The host node is not in the repository. It feeds candidates from `dig-dht`
(`select`), pool events from `dig-gossip` (`on_pool_event`), connection classes
from `dig-nat`, and outcomes from the downloader (`record_outcome`), from any
thread and in any order. Nothing is persisted and nothing inside the crate runs
by itself: expired dispatches are reclaimed lazily, inside `select`,
`rebalance` and whatever insertion enforces the capacity.

What is hard about it:

- every call reads the clock *before* it takes the mutex, so calls take effect
  in another order than their timestamps (`engine.rs:111-112` and its like);
- in-flight ranges are added by `select` as a guess (`headroom.max(1)` of each
  chosen peer) and released one by one by outcomes that may come late, twice or
  never; one stamp per entry says when the account expires;
- a peer has one dispatch record: which load and which class an outcome teaches
  depends on how selects, outcomes, reclaims and changes of class interleave;
- five calls can evict, from two tiers, by a value that mixes age and quality,
  and two side maps must follow; a ban lives in the entry and goes with it;
- the ranking interleaves a bonus, a de-rank, a two-part comparator, a starved
  peer with a reserved slot and an exploration budget, and which peer waits how
  long is decided by all of them together, over many requests;
- the estimators weigh a sample by a volatility that is itself an estimate, and
  a failure both lowers the reliability and raises the confidence.

`PROJECT.json` lists the hazards line by line with the properties that cover
them.

## The modules

    Registry ---> Ranking ---> PeerSelector -+-> MCPeerSelector   the engine
     |              |           |            +-> NodeLoop -> MCNodeLoop    with the ranges of a node
     |              |           |            +-> PoolBans -> MCPoolBans    with the bans of a pool
     |              |           + - - INSTANCE - -> BoundedPool   what the registry promises
     |              +-> Coverage -> MCCoverage                    who is answered
     |                     +-> Turns -> MCTurns                   who waits
     +-> Quality -> MCQuality                                     one peer's estimators
     |      + - - INSTANCE - -> Learning                          what the others take them for
     +-> Learning
    Saturation -> MCSaturation                                    what is learned about classes

    RegistryProofs -+-> PeerSelectorProofs -+-> PoolProofs
                    |                       +-> PoolBansProofs
                    |                       +-> NodeLoopProofs
                    +-> CoverageProofs
    QualityProofs, SaturationProofs

**Registry** is `registry.rs` as operators on a value: a function from the
registered peers to entries. Operations that can evict return the set of their
possible results `[entries, shed]`, because `min_by` over a `HashMap` resolves
ties by an iteration order that Rust randomises. `Victims` states the eviction
loop in closed form: neither the clock nor any value changes between its
rounds, so a run of the loop sheds a least-valuable group of the disconnected
entries, idle ones first, as many as exceed the capacity or all of them.
`LoopVictims` is the loop itself, round by round; `EvictionIsTheLoop` says the two
are the same set of groups, and is proved. Its mutant is a loop that stops after one
round.

**Ranking** is the middle of `select_over`, from scored peers to an answer:
`ScorePeer`, `ExplorationBonus`, `Adjusted` (bonus and de-rank), `Orders` (what
`sort_by` may leave), `ForcedPicks`, `Cap`, `Budget`, `PassOne`, `Materialize`.

**PeerSelector** is the engine. Its variables are the fields of `Inner` that
control anything, the clock, and `call`, the select that holds the mutex. Each
public call is one action, the whole body including the prune, except
`select`: its loop over the candidates is one `SelectUpsert` per candidate
between `SelectBegin` and `SelectFinish`, because the evictions of that loop
stay undrained until the loop ends. While `call # Idle` only `Tick` and the
select itself move; that is the mutex. `Recent` is what a call may have read
from the clock before it got the mutex.

| Code | Action |
|---|---|
| `select` | `SelectBegin`, `SelectUpsert`*, `SelectFinish` |
| `rebalance` | `Rebalance` |
| `record_outcome` | `RecordOutcome` |
| `on_pool_event` | `PeerAdded`, `PeerRemoved` |
| `on_connection_class`, `upsert_candidate` | `OnConnectionClass`, `UpsertManual` |
| `remove_peer`, `on_dispatch` | `RemovePeer`, `OnDispatch` |
| `ClockSource` | `Tick` |

**BoundedPool** is the abstraction of the registry: a set of peers with a bound
and a pinned subset. An insertion sheds unpinned peers only, exactly as many as
exceed the capacity or all there are; nothing else makes a peer leave but a
removal of that peer alone. `PeerSelector!ImplementsPool` is the refinement, with
the registered peers as members and the connected ones as pinned.

**NodeLoop** composes the engine with what `lib.rs` prescribes to whoever embeds
it: dispatch the ranges a selection grants, settle each once, perhaps report the
whole request as well, lose some without a word, remove peers, dispatch outside a
selection. Every move is a step of the engine or leaves it alone. `running`
counts the ranges at each peer of `Followed`; `uncovered` counts those the
account may miss, with the reason in `Excuse`; `Expired` tells an account that was
reclaimed from one whose last range was released (`settled`), old stamp or not. Around them everything else may
happen at any peer (`Undisturbed`).

**PoolBans** composes the engine with the pool whose events it follows:
`banlist` is whom the pool banned while registered, `forgotten` who lost the
entry since.

**Coverage** repeats selections over one pool and folds outcomes in between.
It keeps `stale`, the difference `epoch - last_selected` that is all the code
compares, with gaps beyond the pool's size closed so that the state is finite.
Its invariants quantify over every answer that a `select` may give in a reachable
state. The answers of `rebalance`, which discounts active peers first, are steps of
PeerSelector; Coverage and Turns leave them out.
**Turns** adds a history of how long each peer has been passed over.

**Quality** is `quality.rs` for one peer: `Estimate::observe` of the throughput
with its adaptive weight, `Reliability::observe`, and the sample count, as
`apply_outcome_to_quality` drives them, one action per kind of outcome; and
`Score`, the three branches of `score_peer`: the bonus of a cold peer, the floor of a
failed one with its tie-break key on top, and `MeasuredScore`, the factors of a
measured peer's score that its estimates decide. **Learning** is
what Registry, Ranking and all that rests on them assume of it (`Learned`:
standing and worth); `Quality!LearnsAsAssumed` is the refinement.

**Saturation** is `SaturationEstimate`, `RelayModel` and the attribution around
them: `Select` writes the dispatch records and grants ranges by the limit of the
class, one less to a peer that a rebalance finds active (`Room`), `RecordSuccess` reads the record or, without one, the account;
`SetConnectionClass`, `OnDispatch`, `Reclaim`, `Forget` change what it finds.
`heard`, `met` and `pushed` are histories: what each class was told, the highest
limit a select found for a peer, and what came on top of it.

### What is abstracted

- *Quality* outside of Quality is a standing (`cold`, `clean`, `bad`, `redeemed`)
  and a worth that is 0 iff no throughput was measured.
- *Floats* of Quality and Saturation are fractions of `Unit` and `Scale`, rounded
  down at every step. The properties are stated so that they hold of exact numbers
  and survive that rounding; `FollowsShift` allows one unit per sample for it.
- *Counts* that only weigh samples stop where the weight stops changing: 6 samples
  of an estimate (`1/(n+1)` is below 0.15 from there on), 3 of a reliability,
  10 of a saturation point.
- *Scores* of measured peers are inputs of Ranking, any value a run's `Scores`
  names, 0 for a peer without a measured throughput. Relayed penalty, volatility,
  confidence and saturation pressure are inside that input. The learned saturation
  point is an input too (`Points`). What those inputs can be is what Quality and
  Saturation are about.
- *The eviction value* is compared exactly, both sides multiplied out.
- *Salts*: in runs over small ids the floor stays a floor. In `WideSalts` one
  unit is 1.0e10 of score: the floor is -100, the threshold -10, the largest key
  adds 1844. Quality counts scores in `1 / (40 * Unit * Scale^2)` of one, the common
  denominator of the product; its `Salts` and `FloorDepth` are in that unit and keep what
  matters of the real ones, keys below, at and above the depth of the floor.
- *Ties*: jitter is a free choice, hash order is a free choice, and when the
  comparator is cyclic any order is (`sort_by` may also panic for such a comparator
  on longer slices, which would poison the mutex; that is not modelled).
- *Time* is in ticks. `DispatchTTL` ticks stand for 300 s; `HalfLife = 12` for
  3600 s, when a tick is 300 s. In Saturation expiry is a free choice.
- *Candidates* of one select are a set, taken in any order. A candidate list with
  duplicates is outside the model.
- *Dispatch records* are, in PeerSelector, the set of peers that have one, and in
  Saturation their contents. Their key is always `(peer, usize::MAX)`
  (`engine.rs:377-383`).
- In Saturation a peer without an entry is one without class, work and record;
  whom a select picks and whom an eviction sheds are free choices, so what is
  shown holds for any registry and any ranking.
- Addresses and provenance are left out: they decide nothing that is modelled.

## The runs

| Run | Instance | Checks | Expected |
|---|---|---|---|
| MCEviction | 3 peers, capacity 1, 1 tick, two candidates per select | `SideMapsTracked` `EvictionIsTheLoop` `BoundRestored` `LiveLinkKept` `BusyShedLast` `WorthKept` `ImplementsPool` | pass |
| MCBans | 2 peers and their pool, all outcome kinds, no time | `BannedOffline` `BansCarried` `BanHolds` `LearningKept` | pass |
| MCNode | 2 peers, capacity 1, 1 tick, TTL 1, lag 1; up to 2 ranges of one of the peers | `TypeOK` `BusyStamped` `AccountCovers` `ReclaimNotEarly` | pass |
| MCAbandoned | 1 peer, 4 ticks, TTL 2, lag 1, under `LiveSpec` | `AbandonedFreed` | pass |
| MCAnswers | pool of 3, requests of 1 to 4, scores 0, 8 and 16 | `TypeOK` `PassOneIsTheLoop` `ProvenLeads` `ColdBudgetKept` `NoSlotLost` | pass |
| MCTurns | pool of 3, requests of 1 and 2 | `NoStarvation` | pass |
| MCQuality | three rates, fractions of 1/4 and 1/64, histories of any length | `TypeOK` `FollowsShift` `LearnsAsAssumed` `FailureNeverHelps` | pass |
| MCSaturation | one peer of changing class, two rates, 3 measured successes, up to 4 ranges | `TypeOK` `PointWithinEvidence` `OverloadCounted` `PenaltyFair` | pass |
| MCDegradation | one relayed peer, two rates, up to 5 ranges | `DegradationLowers` | violated |
| MCLostBan | 2 peers, capacity 1 | `BannedIneligible` | violated |
| MCColdOrder | pool of 3, requests of 3 | `ColdByCoverage` | violated |
| MCBadSource | pool of 3 with wide ids | `BadSourceBelowCold` | violated |

Deadlock is checked in every run: no call ever gets stuck in the mutex. Each
property has a mutant, a plausible fault of the code written next to the
operator it replaces (marked `Fault:`), under which the property's run fails.

What the properties say, by subject:

- *The registry as a pool.* `ImplementsPool`, `BoundRestored`, `LiveLinkKept`,
  `BusyShedLast`, `WorthKept`: whom an insertion sheds, how many, and that nobody
  else ever leaves. `EvictionIsTheLoop`: the group shed in one step of the model is
  one the loop's rounds can shed, and every such group is possible.
  `SideMapsTracked`: the maps keyed by peers follow.
- *The account of in-flight work.* `BusyStamped` and `ReclaimNotEarly` say the
  stamp is right and waits for its TTL, `AbandonedFreed` that it is used in the end.
  `AccountCovers` says what all of that is for: the account is never below what
  really runs at the peer, but for three causes which the model counts: ranges
  that ran when the account expired, ranges that run while their peer has no
  entry, and one range per report on a whole request (every outcome releases
  one). With any other way to lose a range, it fails.
- *Bans.* `BansCarried` relates the registry to the pool through any calls
  between: the registry holds banned exactly the pool's bans, but for the peers
  that were shed or removed since. `BanHolds` says what a ban means to the ranking,
  `BannedOffline` that it excludes a link.
- *Learning.* `FollowsShift`: after k equal samples the mean is within 0.85^k of
  everything ever measured, from any history. `FailureNeverHelps`: with load, path and
  bonus the same, no failure the peer is to blame for raises its score, cold or
  measured, although it raises the confidence; this includes the step onto the floor of
  failed sources, but for a peer whose key exceeds the depth of that floor
  (disagreement 2 below). Cancelled transfers are not included: they do raise a score,
  since the confidence grows and no estimate falls (disagreement 13). `LearnsAsAssumed` ties this to `LearningKept` and the runs
  that use standings.
- *Classes.* `PointWithinEvidence`: the point is earned by a load that some
  success was attributed to, and it falls below its seed only after rates that
  differ clearly, although records are overwritten, outlive reclaims and are
  attributed to classes a peer no longer has. `PenaltyFair`: the penalty is between the
  worst and the best ratio measured. For both, the evidence is what a class was told:
  they bound what a transfer credited to another load or class can do, and do not detect
  one (disagreement 11). `OverloadCounted`: how far a peer can be
  pushed beyond its limit.
- *Answers and turns.* `ColdBudgetKept`: how many unmeasured peers an answer holds,
  the reserved slot included. `NoSlotLost`: when it may be shorter than asked for.
  `ProvenLeads`: when an unmeasured peer may lead it; the one case besides its own
  reserved slot is that the best measured peer is starved itself and held back for
  that slot, which ranks last. `PassOneIsTheLoop`: the set that stands for the first
  pass is what its loop accumulates. `NoStarvation`: how long a peer is passed over,
  by selects; a rebalance, which may prefer others to an active peer, is not included.
  `TypeOK` of Coverage says of staleness that it has no gaps beyond the size of the pool,
  and of the pool that a measured peer is never cold.

### The bounds, and why they are enough

- *Peers and capacity.* An eviction needs one peer more than the capacity; two go at
  once when connected peers filled the registry past its bound and have left before the
  next insertion. Three peers over a capacity of one give both, in one and in two rounds
  of the loop, with the inserted peer itself among the candidates for shedding: with two
  peers left over from a burst and one inserted, one stays and the choice is between
  idle and busy, connected and offline, more and less valuable ones. More than two at
  once need more peers than TLC can take along with time; every property of the run is
  proved for any number.
- *Time.* `ReclaimNotEarly`, `BusyShedLast` and `AccountCovers` need a stamp that
  expires and one that does not: the TTL is one tick. `MaxLag = 1` lets two calls
  take effect in the other order than they read the clock in.
- *In-flight.* A bound of 2 (for `u32::MAX`) is reached, with additions past it.
  `MaxRunning` is at most `MaxInFlight`: nobody runs 2^32 ranges at one peer.
- *Followed* is one of two peers: what happens to an account depends on the
  others only through the capacity, and the other peer, which may do anything,
  competes for the one place.
- *The pool of Coverage.* Three scores give a worst, a best and one between, which is
  where the exploration bonus lies. Forcing needs a request smaller than the pool, budgets
  beyond one slot a request of 4. The cyclic comparator takes three peers. The
  bound of `NoStarvation`, `2 * Size - 3`, is exact for a pool of 3, and is proved for every
  size.
- *Epoch.* `EpochModulus` stands for 2^64; staleness is computed as the code
  computes it and the modulus is small in the runs of PeerSelector because none
  of their properties depends on who is starved. Coverage does that without an
  epoch.
- *Quality.* The estimates are rounded to finitely many values, so histories are
  unbounded. Three rates let a peer get slower and faster in either order; a
  weight above its steady value and one below occur. `MaxSamples = 9` is beyond every
  count a weight depends on. The salts are one below the floor's depth, the depth itself,
  one more and twice it; of the bonus it matters only whether it is 0.
- *Saturation.* Two rates, one below 0.8 of the other, are a good transfer and an
  oversubscribed one. Accounts of different peers never meet and classes learn from
  each other's peers only through outcomes, which one peer of changing class gives to
  all of them. Three successes are enough for a raise, a partial fall and another
  raise; `PenaltyFair` and the rest are proved for any number.
- *Symmetry* is used in the safety runs of PeerSelector where all salts are equal,
  which makes every salt tie a choice. It is not used for liveness.

### Fairness

`LiveSpec` assumes that time passes (`Tick`), that a select holding the mutex
finishes (its loop runs over a finite slice and awaits nothing), and that the
host keeps calling `rebalance`. The last is the host's promise, not the crate's,
and `AbandonedFreed` needs it: nothing else in the crate looks at a stamp once
insertions stop. MCAbandoned has one peer because the reclaim treats every entry
alone. `AbandonedFreed` speaks of the stamps that expire before the bounded clock
stops.

## The proofs

For every finite set of peers and every value of the other constants:

| Module | Theorem | States |
|---|---|---|
| PeerSelectorProofs | `Invariance` | `Spec => []IInv` |
| | `TypeCorrect` `SideMapsNeverLeak` `EveryBusyEntryStamped` `BanExcludesLink` | the four invariants |
| | `LiveLinksSurvive` `InsertionRestoresBound` `LearningSurvives` `BansAreHonoured` `ReclaimWaitsForTTL` | the action properties of the same subjects |
| | `BusyPeersGoLast` `BetterPeersStay` | `BusyShedLast`, `WorthKept`: whom an eviction takes |
| | `EvictionInOneStep` | `Spec => []EvictionIsTheLoop` |
| CoverageProofs | `CoverageTypes` `ClosedFormIsTheLoop` `ColdPeersCapped` `SlotsAreFilled` `BestMeasuredLeads` | `[]TypeOK`, `PassOneIsTheLoop`, `ColdBudgetKept`, `NoSlotLost`, `ProvenLeads` |
| | `NobodyStarves` | `TurnSpec => []NoStarvation`, for requests smaller than the pool |
| PoolProofs | `RegistryIsABoundedPool` | `Spec => ImplementsPool` |
| PoolBansProofs | `BansFollowThePool` | `BanSpec => []BansCarried` |
| NodeLoopProofs | `AccountsCoverWhatRuns` | `NodeSpec => []AccountCovers` |
| QualityProofs | `EstimatesInRange` `QualityImplementsLearning` `FailuresNeverHelp` `EstimatesFollowShifts` | `[]TypeOK`, `LearnsAsAssumed`, `FailureNeverHelps`, `[]FollowsShift` |
| SaturationProofs | `AccountsAndPointsInRange` `PointsStayWithinEvidence` `OverloadIsCounted` `PenaltyIsFair` | `[]TypeOK` and the three invariants of MCSaturation |

Assumptions: `Peer` is finite (a peer id is 32 bytes), `Capacity`, `DispatchTTL`,
`HalfLife`, `Unit`, `Scale` and the bounds are positive, rates are positive
numbers, `None` is not a number, salts, bonuses and the depth of the floor are numbers, the idle value is not a
call, the followed peers are peers and run no more ranges than an account can
count. TLC evaluates all of them in the runs. Saturation assumes nothing of `Peer`.
`NobodyStarves` has one hypothesis more, `SmallRequests`: a request wants less than the pool
has. The code reserves no slot otherwise (`want < eligible`, `engine.rs:274`), and who waits is then
up to the order and the budget alone. MCTurns is an instance of it.

*The engine.* None of the four invariants is inductive alone:

- `SideMapsTracked` in the middle of a select needs to know that what was shed so
  far is in `evicted`, and that what `SelectFinish` prunes is that set;
- `BusyStamped` says no stamp is ahead of the clock; a select stamps with the `now` it
  read at its beginning, hence `CallInPast`;
- all need `TypeOK`, for saturated counts and for stamps to be numbers.

`IInv` is their conjunction. `RegistryProofs` holds lemmas on each registry
operation: what it returns is a map of well-formed entries, loses nothing but what
it reports as shed, keeps live links and learning, and restores the bound. Each
action has a lemma that it keeps `IInv` (`...Step`) and one that it satisfies the seven
action formulas (`...Guarded`), each from the registry lemma of the operation it
calls; `NextLemma` collects them, and the theorems follow by temporal reasoning.
`ReclaimNotEarly` depends on `now <= clock`: the reclaim's `now` is at most the clock, so
a stamp it finds expired is expired. The bound and the safety of live links need of a
victim only that it is disconnected and that as many go as exceed the bound, so they hold for
any value function.

*Whom an eviction takes.* `Spares` is what may be said of a shed entry and a kept one whatever
operation shed it; the registry lemmas carry it through the reclaim, the insertion and the
loop over the candidates. It follows from the order of `Victims`, in two cases: an idle entry goes
before a busy one, and between idle ones `ValueLemma` compares the products `(worth + 1) *
(HalfLife + age)` factor by factor. That the `now` of a call may lie behind a `reference` is
harmless: an age is cut off at 0, which keeps its order.

*The eviction loop.* A recursive function is its own equation, so it is enough to
exhibit one function that satisfies it, `Group(entries, i, now)` for round i, and to see with the
least-number principle that no other does. One round takes `Group` i to `Group` i + 1
(`GroupStep`): a foremost entry added to a group in order leaves it in order, and every larger
group arises that way, since its last member can be taken out. The latter needs the order of
the loop to be a strict weak order (`ValueOrder`, `ShedOrder`), which for a
value of two factors is an argument of its own, and every finite set to have a foremost member
(`ForemostExists`).

*The answers.* The first pass is a choice of the first few in the order, twice: the first cold
ones up to the budget, then the first of all of those up to the cap (`FirstFew`). Two facts of `FirstFew`,
that it has k members or all there are and that it is closed towards the front of the order, give the bounds
of `AnswerLemma`; the loop agrees with it by the same argument as the eviction loop, round by round.
`ProvenLeads` is about every order `sort_by` may leave: a best measured peer is ahead of every cold one
in it, so if it is not chosen before one it was held back (`EarlierTaken`).

*The turns.* `TurnInv` bounds a potential: the time a peer has waited plus the number of those
that are ahead of it in staleness is at most `2 * Size - 3`. A selection that passes it over serves someone
who is ahead (the forced pick is the stalest), and who was served is not ahead again before it.

*The pool.* Each call that may insert is a `Join` (with a pin from `mark_connected`) or a
`Pin`; the victims are counted exactly, after a reclaim that changes no link. All else
maps to `Unpin`, `Leave` or a stutter.

*The bans.* `BansCarried` alone is not inductive: a banned peer that has lost its
entry must not be found banned when it is back. `BanInv` adds that the banned peers
without an entry are all in `forgotten`.

*The account.* `NodeInv` is `IInv`, the types of the two histories and `AccountCovers`.
Each operation keeps the account of a peer up to the ranges it settles, or the stamp
is a whole TTL old and gone or replaced (`Keeps`); for a selection this needs that an
entry found stale never keeps its stamp, which is why the lemmas on selections carry
`Lapses`. `Covered` lists the ways a step can leave the account covering what runs,
`CoveredLemma` shows they suffice, and each move of the node has a lemma that it takes one
of them. An addition that saturates is covered because `MaxRunning` does not exceed the bound.

*The estimators.* `QualityInv` adds to `TypeOK` what relates the estimates to the count of
outcomes: a reliability with samples or a measured throughput means the peer is not cold,
and a measured throughput means that its reliability is known.
The refinement needs that three folds of 0 bring the rate below a half from any count of
samples, and that a success does not lower it. `FailuresNeverHelp` is an inequality between
products of five factors: a fold takes at least a quarter off the reliability, which the
score has in as a square and more, while the confidence gains less than that per outcome
(`MeasuredStep`). `ScoreStep` adds the other branches by cases on where the peer was and where the
failure leaves it: a cold one has a bonus that is not negative and lands at 0 or on the floor, a measured one
stays measured or lands on the floor, which is below 0 unless the key exceeds its depth, and a failed one
stays there.

*Recency.* `ShiftInv` strengthens `FollowsShift` by what makes it inductive: the mean lies between the
slowest and the fastest rate measured, its distance from a rate repeated k times is within
0.85^k of their span plus the rounding, and the weight of a sample is at least 3/20
(`WeightLemma`: the adaptive weight only ever raises it). The powers of 0.85 are products of
constants up to `MaxTimes`, where the count stops, so no induction over k is needed.

*The classes.* `SatInv` is the types, `OverloadCounted`, and three facts about what was
heard: every best rate and its load are among the pairs heard (`Informed`), the points are
within the evidence, and each mean lies between the slowest and the fastest rate of its path
(`MeansBetween`). An average of two numbers in a range is in it; the rest is that attribution,
whatever it attributes, adds the pair it uses to `heard` in the same step.

Model-checked only: `AbandonedFreed`, which is a liveness property under fairness, and the four runs
that find a violation. All other properties of the runs are proved.

## Where the code and its documentation disagree

The first four have a run that finds them.

1. *Order of cold peers* (MCColdOrder). `engine.rs:232-234`. With a proven peer that
   scores the same as two cold ones (0, when nobody has a positive score) the
   comparator is cyclic and the staler cold peer can lose.
2. *Bad sources* (MCBadSource). `scoring.rs:306` adds up to 1.8e13 to a floor of
   -1.0e12. A peer whose id is large is not floored, and ranks first.
3. *Degradation* (MCDegradation). `scoring.rs:110-111` says a degraded transfer lowers the
   point. The branch (`scoring.rs:167`) moves it towards the best load, which may be above it:
   the raise to that load was gradual.
4. *Bans* (MCLostBan). SPEC 9.4 says a banned peer stays ineligible until re-added. The ban is
   in the entry: eviction or removal forgets it, and so does a ban of a peer not registered.
   `BansCarried` is what does hold.

The others follow from a line or two and have no run of their own:

5. *Capacity.* `registry.rs:403-405` says the bound is exceeded only by connected peers.
   `mark_disconnected` does not enforce it, so after a burst of live links has dropped the
   registry stays over its bound until the next insertion. `BoundRestored` and
   `ImplementsPool` are what does hold.
6. *Anti-herd.* SPEC 4.4-B says a saturated peer gets no additional ranges.
   `max_concurrency` is `headroom.max(1)` (`engine.rs:353`). `OverloadCounted` is what does hold.
7. *Exploration cap.* `engine.rs:308-310` counts the forced pick among the exploratory peers;
   only a cold one is. `ColdBudgetKept` is what does hold.
8. *Re-probes.* `engine.rs:298-302` says the best peer reclaims the slot between re-probes at
   parallelism 1. Serving one starved peer lets the next fall due, so from some point on every
   selection is a re-probe.
9. *Reclaim.* `registry.rs:25-27` says a live transfer is never reclaimed. An entry has one
   stamp, so ranges dispatched a second ago go with the first one's expiry. `AccountCovers`
   excuses them.
10. *Whole-request outcomes.* SPEC 5.3 has `in_flight` reflect reality. An outcome of kind
    `Request` releases a range as well (`engine.rs:449-450`), which some other dispatch still
    needs. `AccountCovers` excuses one per report.
11. *Attribution.* `engine.rs:33-35` says an observation is attributed to the concurrency the
    range actually ran under. The record holds the load before the grant, and a second select overwrites
    the first one's.
12. *Best throughput.* SPEC.md:288 and `scoring.rs:122-123` say the point adapts if the capacity
    changes. The best rate of a class is never forgotten (`scoring.rs:157`), so after one lucky sample, or for a class that has
    become slower for good, later loads look oversubscribed.
13. *Cancelled outcomes.* `quality.rs:248` calls a peer cold that has no measured outcome. A
    cancelled outcome moves no estimate but counts as a sample (`engine.rs:446`), so a peer that
    was only ever cancelled on is no longer cold.
14. *Dial plan.* `engine.rs:502-503` says one entry per selected peer. The peer may have been
    evicted or removed since.

15. *Measured before cold.* `engine.rs:234-235` says measured peers score strictly higher than cold
    ones and always sort ahead. The bonus of a cold peer is above the worst measured one by intention
    (`engine.rs:192-206`), and a best measured peer that is starved is held back for the last
    rank, behind cold ones. `ProvenLeads` is what does hold.

## What is not modelled

- `dial.rs` and `dial_plan`: a pure mapping of addresses and a read of the registry.
- `observe.rs`: read-only views.
- The round-trip estimate: the same `Estimate` over other samples, read by snapshots only.
- Candidate lists with duplicates: a peer named twice takes two slots. Ranking works on a pool
  that is a set; over lists it would be a second one.
- The PRNG's sequence (SPEC 4.4-F, determinism): jitter is a free choice.
- Wall clocks that run backwards by more than `MaxLag`.
- Serialization, constructors, setters and defaults of `types.rs` and `config.rs`.
- How often the best peer is chosen between re-probes: it needs a count over a run of
  selections, which multiplies the states of Turns beyond what TLC can take.
- The answers of a rebalance in Coverage and Turns: which peers are active multiplies the
  pools a state allows by the subsets of the pool, which is beyond what TLC can take there.
  PeerSelector has the rebalance, and Saturation its grants.
- Panics in `sort_by` for the cyclic comparator, and a poisoned mutex after one.

---------------------------- MODULE NodeLoopProofs ----------------------------
(***************************************************************************)
(* The selector's account covers the ranges a node has going at a peer,    *)
(* for any number of peers and ranges, whatever the selector is asked and  *)
(* told in between.                                                        *)
(***************************************************************************)
EXTENDS NodeLoop, PeerSelectorProofs

-----------------------------------------------------------------------------
(* The account of one peer in one step *)

\* The account of p loses no more than `off` ranges, unless it expires.
Keeps(p, off) ==
  p \in DOMAIN entries \cap DOMAIN entries' =>
    Expired(p, {}) \/ entries'[p].in_flight >= entries[p].in_flight - off

\* It loses no more than that, and does not expire.
Releases(p, off) ==
  p \in DOMAIN entries \cap DOMAIN entries' =>
    entries'[p].in_flight >= entries[p].in_flight - off

\* Accounts are numbers, before and after.
LEMMA AccountLemma ==
  ASSUME IInv, IInv', NEW p
  PROVE  Account(p) \in Nat /\ Account(p)' \in Nat
<1>1. \A q \in DOMAIN entries : entries[q].in_flight \in Nat
  BY BoundsAssumption, SMT DEF IInv, TypeOK, IsPeerMap, PeerEntry
<1>2. \A q \in DOMAIN entries' : entries'[q].in_flight \in Nat
  BY BoundsAssumption, SMT DEF IInv, TypeOK, IsPeerMap, PeerEntry
<1> QED BY <1>1, <1>2 DEF Account

\* An entry that lapses at a past `now` expires at the clock.
LEMMA LapsedLemma ==
  ASSUME IInv, NEW p \in DOMAIN entries \cap DOMAIN entries', NEW now \in Nat, now <= clock,
         Lapses(entries[p], entries'[p], now)
  PROVE  Expired(p, {})
<1>1. entries[p] \in PeerEntry
  BY IInvFacts
<1>2. IsStale(entries[p], now)
  BY DEF Lapses
<1>3. clock - entries[p].in_flight_since >= DispatchTTL
  BY <1>1, <1>2, StaleLemma
<1> QED BY <1>2, <1>3 DEF Expired, Lapses, IsStale

\* What the operations of the registry and a selection leave, in these terms.
LEMMA KeptKeeps ==
  ASSUME IInv, IInv', NEW now \in Nat, now <= clock, NEW p,
         p \in DOMAIN entries \cap DOMAIN entries' =>
           Kept(entries[p], entries'[p], now)
  PROVE  Keeps(p, 0)
<1> SUFFICES ASSUME p \in DOMAIN entries \cap DOMAIN entries'
             PROVE  Expired(p, {}) \/ entries'[p].in_flight >= entries[p].in_flight - 0
  BY DEF Keeps
<1>1. entries[p].in_flight \in Nat
  <2>1. entries[p] \in PeerEntry
    BY IInvFacts
  <2> QED BY <2>1, BoundsAssumption, SMT DEF PeerEntry
<1>2. CASE entries'[p].in_flight = entries[p].in_flight
  BY <1>1, <1>2, SMT
<1>3. CASE Lapses(entries[p], entries'[p], now)
  BY <1>3, LapsedLemma
<1> QED BY <1>2, <1>3 DEF Kept

LEMMA UnchangedKeeps ==
  ASSUME IInv, IInv', entries' = entries, NEW p
  PROVE  Keeps(p, 0)
<1>1. clock \in Nat /\ clock <= clock
  BY IInvFacts, SMT
<1>2. Kept(entries[p], entries'[p], clock)
  BY DEF Kept
<1> QED BY <1>1, <1>2, KeptKeeps

\* An operation that may insert a peer.
LEMMA InsertKeeps ==
  ASSUME IInv, IInv', NEW now \in Nat, now <= clock, NEW q, NEW result,
         Inserts(entries, q, result, now), entries' = result.entries, NEW p
  PROVE  Keeps(p, 0)
<1>1. p \in DOMAIN entries \cap DOMAIN entries' => Kept(entries[p], entries'[p], now)
  BY DEF Inserts
<1> QED BY <1>1, KeptKeeps

\* An outcome takes one range off the account of its peer, which does not expire,
\* and none off others.
LEMMA OutcomeKeeps ==
  ASSUME IInv, IInv', NEW q \in Peer, NEW result, NEW now \in Recent, NEW at \in Recent,
         RecordOutcome(q, result, at, now), NEW p
  PROVE  /\ Keeps(p, IF p = q THEN 1 ELSE 0)
         /\ p = q => Releases(p, 1)
<1>1. PICK healed \in UpsertCandidate(entries, q, now) :
           /\ Inserts(entries, q, healed, now)
           /\ DOMAIN entries' = DOMAIN healed.entries
           /\ \A r \in DOMAIN entries' \ {q} : entries'[r] = healed.entries[r]
           /\ q \in DOMAIN entries' =>
                entries'[q].in_flight >= healed.entries[q].in_flight - 1
  BY RecordOutcomeFacts
<1>2. CASE p # q
  <2>1. now \in Nat /\ now <= clock
    BY IInvFacts
  <2>2. p \in DOMAIN entries \cap DOMAIN entries' => Kept(entries[p], entries'[p], now)
    BY <1>1, <1>2 DEF Inserts
  <2>3. Keeps(p, 0)
    BY <2>1, <2>2, KeptKeeps
  <2> QED BY <1>2, <2>3
<1>3. CASE p = q
  <2>1. q \in DOMAIN entries => healed.entries = entries
    BY <1>1 DEF UpsertCandidate, Unchanged
  <2>2. Keeps(q, 1) /\ Releases(q, 1)
    BY <1>1, <2>1 DEF Keeps, Releases
  <2> QED BY <1>3, <2>2
<1> QED BY <1>2, <1>3

LEMMA FeedKeeps ==
  ASSUME IInv, IInv', NEW q \in Peer, NEW now \in Recent, NEW p,
         PeerAdded(q, now) \/ OnConnectionClass(q, now) \/ UpsertManual(q, now)
  PROVE  Keeps(p, 0)
<1>1. PICK result : Inserts(entries, q, result, now) /\ Absorb(result)
  BY FeedInsertFacts
<1>2. now \in Nat /\ now <= clock
  BY IInvFacts
<1> QED BY <1>1, <1>2, InsertKeeps DEF Absorb

LEMMA UpsertKeeps ==
  ASSUME IInv, IInv', NEW q \in Peer, SelectUpsert(q), NEW p
  PROVE  Keeps(p, 0)
<1>1. /\ TypeOK /\ CallInPast /\ IsPeerMap(entries, PeerEntry)
  BY IInvFacts
<1>2. call.now \in Nat /\ call.now <= clock
  BY <1>1, EngineAssumption, SMT DEF SelectUpsert, TypeOK, CallInPast, Call
<1>3. PICK result \in UpsertCandidate(entries, q, call.now) : entries' = result.entries
  BY DEF SelectUpsert
<1>4. Inserts(entries, q, result, call.now)
  BY <1>1, <1>2, <1>3, UpsertCandidateLemma
<1> QED BY <1>2, <1>3, <1>4, InsertKeeps

LEMMA DisconnectKeeps ==
  ASSUME IInv, IInv', NEW q \in Peer, NEW banned \in BOOLEAN, PeerRemoved(q, banned), NEW p
  PROVE  Keeps(p, 0)
<1>1. clock \in Nat /\ clock <= clock
  BY IInvFacts, SMT
<1>2. p \in DOMAIN entries => Kept(entries[p], entries'[p], clock)
  BY PeerRemovedFacts
<1> QED BY <1>1, <1>2, KeptKeeps

LEMMA DispatchKeeps ==
  ASSUME IInv, IInv', NEW q \in Peer, NEW count \in Nat, NEW now \in Recent,
         OnDispatch(q, count, now), NEW p
  PROVE  Keeps(p, 0)
<1>1. \A r \in DOMAIN entries : entries'[r].in_flight >= entries[r].in_flight
  BY OnDispatchFacts
<1>2. \A r \in DOMAIN entries : entries[r].in_flight \in Nat
  BY BoundsAssumption, SMT DEF IInv, TypeOK, IsPeerMap, PeerEntry
<1>3. \A r \in DOMAIN entries : entries[r].in_flight - 0 = entries[r].in_flight
  BY <1>2, SMT
<1> QED BY <1>1, <1>3 DEF Keeps

\* A removal drops an idle entry, and leaves the others alone.
LEMMA RemoveKeeps ==
  ASSUME IInv, IInv', NEW q \in Peer, RemovePeer(q), NEW p
  PROVE  /\ Keeps(p, 0)
         /\ p \in DOMAIN entries \ DOMAIN entries' => p = q /\ entries[p].in_flight = 0
<1>1. PICK gone \in SUBSET DOMAIN entries :
        /\ gone = {} \/ (gone = {q} /\ entries[q].in_flight = 0)
        /\ entries' = Without(entries, gone)
  BY RemovePeerFacts
<1>2. /\ DOMAIN entries' = DOMAIN entries \ gone
      /\ \A r \in DOMAIN entries \ gone : entries'[r] = entries[r]
  BY <1>1, Zenon DEF Without
<1>3. clock \in Nat /\ clock <= clock
  BY IInvFacts, SMT
<1>4. p \in DOMAIN entries \cap DOMAIN entries' => Kept(entries[p], entries'[p], clock)
  BY <1>2 DEF Kept
<1>5. Keeps(p, 0)
  BY <1>3, <1>4, KeptKeeps
<1> QED BY <1>1, <1>2, <1>5

\* What a selection grants p is in its account afterwards, on top of what was
\* there unless that has expired.
LEMMA GrantLemma ==
  ASSUME IInv, IInv', NEW now \in Nat, now <= clock, DOMAIN entries' = DOMAIN entries,
         \A q \in DOMAIN entries :
            IsStale(entries[q], now) => Lapses(entries[q], entries'[q], now),
         NEW p \in DOMAIN entries
  PROVE  /\ Granted(p, now) \in Int /\ Granted(p, now) <= Account(p)'
         /\ Expired(p, {}) \/ Granted(p, now) = Account(p)' - Account(p)
<1>1. entries[p].in_flight \in Nat /\ entries'[p].in_flight \in Nat
  <2>1. Account(p) \in Nat /\ Account(p)' \in Nat
    BY AccountLemma
  <2> QED BY <2>1 DEF Account
<1>2. /\ Account(p) = entries[p].in_flight /\ Account(p)' = entries'[p].in_flight
      /\ Granted(p, now) = entries'[p].in_flight - Reclaimed(entries[p], now).in_flight
  BY DEF Account, Granted
<1>3. CASE IsStale(entries[p], now)
  <2>1. Expired(p, {})
    BY <1>3, LapsedLemma
  <2>2. Reclaimed(entries[p], now).in_flight \in Nat
    <3>1. entries[p] \in PeerEntry
      BY IInvFacts
    <3>2. Reclaimed(entries[p], now) \in PeerEntry
      BY <3>1, ReclaimedLemma
    <3> QED BY <3>2, BoundsAssumption, SMT DEF PeerEntry
  <2> QED BY <1>1, <1>2, <2>1, <2>2, SMT
<1>4. CASE ~IsStale(entries[p], now)
  <2>1. Reclaimed(entries[p], now) = entries[p]
    BY <1>4 DEF Reclaimed
  <2> QED BY <1>1, <1>2, <2>1, SMT
<1> QED BY <1>3, <1>4

-----------------------------------------------------------------------------
(* What stays covered *)

HostOK ==
  /\ running \in [Followed -> 0..MaxRunning]
  /\ uncovered \in [Followed -> Nat]

\* The inductive strengthening of AccountCovers.
NodeInv == IInv /\ HostOK /\ AccountCovers

\* The steps that keep the account of p covering what runs at p.
Covered(p, shed, settled, reported) ==
  \/ p \in shed
  \/ Expired(p, settled) /\ running'[p] - running[p] <= Account(p)'
  \/ ~Expired(p, settled) /\ running'[p] - running[p] + Account(p)
                      <= Account(p)' + (IF p \in reported THEN 1 ELSE 0)
  \/ running'[p] <= Account(p)'

LEMMA CoveredLemma ==
  ASSUME NodeInv, IInv', running' \in [Followed -> 0..MaxRunning],
         NEW shed, NEW settled, NEW reported, Excuse(shed, settled, reported),
         \A p \in Followed : Covered(p, shed, settled, reported)
  PROVE  NodeInv'
<1> DEFINE cause(p) == IF p \in shed THEN running'[p]
                       ELSE IF Expired(p, settled) THEN running[p]
                       ELSE IF p \in reported THEN uncovered[p] + 1 ELSE uncovered[p]
<1>1. \A p \in Followed :
        /\ running[p] \in Nat /\ uncovered[p] \in Nat /\ running'[p] \in Nat
        /\ Account(p) \in Nat /\ Account(p)' \in Nat
        /\ running[p] - uncovered[p] <= Account(p)
  BY AccountLemma, RunningAssumption, BoundsAssumption, SMT
     DEF NodeInv, HostOK, AccountCovers
<1>2. uncovered' = [p \in Followed |-> MinOf(running'[p], cause(p))]
  BY Zenon DEF Excuse
<1>3. ASSUME NEW p \in Followed
      PROVE  uncovered'[p] \in Nat /\ running'[p] - uncovered'[p] <= Account(p)'
  <2> DEFINE u == cause(p)
  <2>1. uncovered'[p] = MinOf(running'[p], u)
    BY <1>2, <1>3
  <2>2. u \in Nat
    BY <1>1, <1>3, SMT
  <2>3. \/ running'[p] <= u
        \/ running'[p] - u <= Account(p)'
    <3>1. CASE p \in shed
      BY <1>1, <1>3, <3>1, SMT
    <3>2. CASE p \notin shed /\ Expired(p, settled)
      <4>1. u = running[p]
        BY <3>2
      <4> QED BY <1>1, <1>3, <2>2, <3>2, <4>1, SMT DEF Covered
    <3>3. CASE p \notin shed /\ ~Expired(p, settled)
      <4>1. u = uncovered[p] + (IF p \in reported THEN 1 ELSE 0)
        BY <1>1, <1>3, <3>3, SMT
      <4> QED BY <1>1, <1>3, <2>2, <3>3, <4>1, SMT DEF Covered
    <3> QED BY <3>1, <3>2, <3>3
  <2> HIDE DEF u
  <2> QED BY <1>1, <1>3, <2>1, <2>2, <2>3, SMT DEF MinOf
<1>4. uncovered' \in [Followed -> Nat]
  <2>1. \A p \in Followed : MinOf(running'[p], cause(p)) \in Nat
    BY <1>2, <1>3
  <2> HIDE DEF cause
  <2> QED BY <1>2, <2>1
<1>5. AccountCovers'
  BY <1>3 DEF AccountCovers
<1> QED BY <1>4, <1>5 DEF NodeInv, HostOK

\* A step in which no range starts at p keeps it covered, when the account
\* keeps what it had but for the ranges that end with the step.
LEMMA QuietLemma ==
  ASSUME NodeInv, IInv', NEW p \in Followed, NEW settled, NEW reported, NEW off \in 0..1,
         running'[p] \in Nat,
         running'[p] <= running[p],
         running'[p] + off <= running[p] + (IF p \in reported THEN 1 ELSE 0),
         Keeps(p, off),
         p \in settled => Releases(p, off)
  PROVE  Covered(p, Absent, settled, reported)
<1>1. /\ running[p] \in Nat /\ Account(p) \in Nat /\ Account(p)' \in Nat
  BY AccountLemma, RunningAssumption, BoundsAssumption, SMT DEF NodeInv, HostOK
<1>2. CASE p \notin DOMAIN entries'
  BY <1>2 DEF Covered, Absent
<1>3. CASE Expired(p, settled)
  BY <1>1, <1>3, SMT DEF Covered
<1>4. CASE p \in DOMAIN entries' /\ p \notin DOMAIN entries
  <2>1. Account(p) = 0 /\ ~Expired(p, settled)
    BY <1>4 DEF Account, Expired
  <2> QED BY <1>1, <2>1, SMT DEF Covered
<1>5. CASE p \in DOMAIN entries' \cap DOMAIN entries /\ ~Expired(p, settled)
  <2>1. Account(p)' >= Account(p) - off
    BY <1>5 DEF Keeps, Releases, Expired, Account
  <2> QED BY <1>1, <1>5, <2>1, SMT DEF Covered
<1> QED BY <1>2, <1>3, <1>4, <1>5

\* A step that leaves the running ranges alone, and every account.
LEMMA WatchLemma ==
  ASSUME NodeInv, IInv', Watch, \A p \in Followed : Keeps(p, 0)
  PROVE  NodeInv'
<1>1. /\ running' = running /\ Excuse(Absent, {}, {})
      /\ running \in [Followed -> 0..MaxRunning] /\ 0 \in 0..1
  BY DEF Watch, NodeInv, HostOK
<1>2. ASSUME NEW p \in Followed PROVE Covered(p, Absent, {}, {})
  <2>1. /\ running'[p] \in Nat /\ running'[p] <= running[p]
        /\ running'[p] + 0 <= running[p] + (IF p \in {} THEN 1 ELSE 0)
    BY <1>1, RunningAssumption, BoundsAssumption, SMT
  <2> QED BY <1>1, <2>1, QuietLemma
<1>3. running' \in [Followed -> 0..MaxRunning]
  BY <1>1
<1> QED BY <1>1, <1>2, <1>3, CoveredLemma

-----------------------------------------------------------------------------
(* One lemma per action *)

\* Whatever happens at other peers, and whatever the selector is told but
\* outcomes, dispatches and removals, leaves the accounts of the followed.
LEMMA UndisturbedStep ==
  ASSUME NodeInv, IInv', Undisturbed, Watch
  PROVE  NodeInv'
<1>1. IInv
  BY DEF NodeInv
<1>2. CASE Tick \/ \E candidates \in SUBSET Peer, now \in Recent :
             Cardinality(candidates) <= MaxCandidates /\ SelectBegin(candidates, now)
  <2>1. entries' = entries
    BY <1>2 DEF Tick, SelectBegin
  <2> QED BY <1>1, <2>1, UnchangedKeeps, WatchLemma
<1>3. ASSUME NEW q \in Peer,
             SelectUpsert(q) \/ \E banned \in BOOLEAN : PeerRemoved(q, banned)
      PROVE  NodeInv'
  <2>1. \A p \in Followed : Keeps(p, 0)
    BY <1>1, <1>3, UpsertKeeps, DisconnectKeeps
  <2> QED BY <2>1, WatchLemma
<1>4. ASSUME NEW q \in Peer, NEW now \in Recent,
             PeerAdded(q, now) \/ OnConnectionClass(q, now) \/ UpsertManual(q, now)
      PROVE  NodeInv'
  <2>1. \A p \in Followed : Keeps(p, 0)
    BY <1>1, <1>4, FeedKeeps
  <2> QED BY <2>1, WatchLemma
<1>5. ASSUME NEW q \in Peer \ Followed, RemovePeer(q) PROVE NodeInv'
  <2>1. \A p \in Followed : Keeps(p, 0)
    BY <1>1, <1>5, RemoveKeeps
  <2> QED BY <2>1, WatchLemma
<1>6. ASSUME NEW q \in Peer \ Followed, NEW count \in 0..MaxCount, NEW now \in Recent,
             OnDispatch(q, count, now)
      PROVE  NodeInv'
  <2>1. count \in Nat
    BY EngineAssumption, SMT
  <2>2. \A p \in Followed : Keeps(p, 0)
    BY <1>1, <1>6, <2>1, DispatchKeeps
  <2> QED BY <2>2, WatchLemma
<1>7. ASSUME NEW q \in Peer \ Followed, NEW result \in Results,
             NEW now \in Recent, NEW at \in Recent, RecordOutcome(q, result, at, now)
      PROVE  NodeInv'
  <2>1. \A p \in Followed : Keeps(p, IF p = q THEN 1 ELSE 0) /\ p # q
    BY <1>1, <1>7, OutcomeKeeps
  <2>2. \A p \in Followed : Keeps(p, 0)
    BY <2>1
  <2> QED BY <2>2, WatchLemma
<1> QED BY <1>2, <1>3, <1>4, <1>5, <1>6, <1>7, Zenon DEF Undisturbed

\* The ranges a selection grants and the node starts.
LEMMA StartLemma ==
  ASSUME NodeInv, IInv', NEW now \in Nat, now <= clock, Start(now),
         DOMAIN entries' = DOMAIN entries,
         \A q \in DOMAIN entries :
            IsStale(entries[q], now) => Lapses(entries[q], entries'[q], now)
  PROVE  NodeInv'
<1>1. PICK started \in [Followed -> 0..MaxRunning] :
        /\ \A p \in Followed : /\ started[p] <= Granted(p, now)
                               /\ running[p] + started[p] <= MaxRunning
        /\ running' = [p \in Followed |-> running[p] + started[p]]
  BY DEF Start
<1>2. \A p \in Followed :
        /\ running[p] \in Nat /\ started[p] \in Nat
        /\ Account(p) \in Nat /\ Account(p)' \in Nat
  BY AccountLemma, RunningAssumption, BoundsAssumption, SMT DEF NodeInv, HostOK
<1>3. ASSUME NEW p \in Followed PROVE Covered(p, Absent, {}, {})
  <2>1. CASE p \notin DOMAIN entries
    BY <2>1 DEF Covered, Absent
  <2>2. CASE p \in DOMAIN entries
    <3>1. /\ Granted(p, now) <= Account(p)'
          /\ Expired(p, {}) \/ Granted(p, now) = Account(p)' - Account(p)
      BY <2>2, GrantLemma DEF NodeInv
    <3>2. running'[p] = running[p] + started[p] /\ started[p] <= Granted(p, now)
      BY <1>1
    <3>3. Granted(p, now) \in Int
      BY <2>2, GrantLemma DEF NodeInv
    <3>4. CASE Expired(p, {})
      <4>1. running'[p] - running[p] <= Account(p)'
        BY <1>2, <3>1, <3>2, <3>3, SMT
      <4> QED BY <3>4, <4>1 DEF Covered
    <3>5. CASE ~Expired(p, {})
      <4>1. running'[p] - running[p] + Account(p) <= Account(p)' + (IF p \in {} THEN 1 ELSE 0)
        BY <1>2, <3>1, <3>2, <3>3, <3>5, SMT
      <4> QED BY <3>5, <4>1 DEF Covered
    <3> QED BY <3>4, <3>5
  <2> QED BY <2>1, <2>2
<1>4. running' \in [Followed -> 0..MaxRunning]
  <2>1. \A p \in Followed : running[p] + started[p] \in 0..MaxRunning
    BY <1>1, <1>2, RunningAssumption, BoundsAssumption, SMT
  <2> QED BY <1>1, <2>1
<1>5. Excuse(Absent, {}, {})
  BY DEF Start
<1> QED BY <1>3, <1>4, <1>5, CoveredLemma

LEMMA NodeSelectStep ==
  ASSUME NodeInv, IInv', NodeSelect
  PROVE  NodeInv'
<1>1. PICK want \in 1..MaxWant : SelectFinish(want) /\ Start(call.now)
  BY DEF NodeSelect
<1>2. /\ call.now \in Nat /\ call.now <= clock
      /\ \E chosen \in SUBSET EligiblePool(entries, call.pool) :
           Serves(entries, Without(last_selected, evicted), dispatched \ evicted,
                  chosen, call.now)
  BY <1>1, SelectFinishFacts DEF NodeInv
<1>3. /\ DOMAIN entries' = DOMAIN entries
      /\ \A q \in DOMAIN entries :
           IsStale(entries[q], call.now) => Lapses(entries[q], entries'[q], call.now)
  BY <1>2 DEF Serves
<1> QED BY <1>1, <1>2, <1>3, StartLemma

LEMMA NodeRebalanceStep ==
  ASSUME NodeInv, IInv', NodeRebalance
  PROVE  NodeInv'
<1>1. PICK active \in SUBSET DOMAIN entries, want \in 1..MaxWant, now \in Recent :
        Rebalance(active, want, now) /\ Start(now)
  BY DEF NodeRebalance
<1>2. /\ now \in Nat /\ now <= clock
      /\ \E chosen \in SUBSET EligiblePool(entries, DOMAIN entries) :
           Serves(entries, last_selected, dispatched, chosen, now)
  BY <1>1, RebalanceFacts, IInvFacts DEF NodeInv
<1>3. /\ DOMAIN entries' = DOMAIN entries
      /\ \A q \in DOMAIN entries :
           IsStale(entries[q], now) => Lapses(entries[q], entries'[q], now)
  BY <1>2 DEF Serves
<1> QED BY <1>1, <1>2, <1>3, StartLemma

LEMMA RangeSettledStep ==
  ASSUME NodeInv, IInv', RangeSettled
  PROVE  NodeInv'
<1>1. PICK q \in Followed, result \in Results, now \in Recent, at \in Recent :
        /\ running[q] > 0
        /\ RecordOutcome(q, result, at, now)
        /\ running' = [running EXCEPT ![q] = @ - 1]
        /\ Excuse(Absent, {q}, {})
  BY DEF RangeSettled
<1>2. running \in [Followed -> 0..MaxRunning] /\ q \in Peer
  BY FollowedAssumption DEF NodeInv, HostOK
<1>3. running' \in [Followed -> 0..MaxRunning]
  <2>1. running[q] - 1 \in 0..MaxRunning
    BY <1>1, <1>2, RunningAssumption, BoundsAssumption, SMT
  <2> QED BY <1>1, <1>2, <2>1
<1>4. ASSUME NEW p \in Followed PROVE Covered(p, Absent, {q}, {})
  <2> DEFINE off == IF p = q THEN 1 ELSE 0
  <2>1. Keeps(p, off) /\ (p \in {q} => Releases(p, off))
    BY <1>1, <1>2, OutcomeKeeps DEF NodeInv
  <2>2. off \in 0..1 /\ running[p] \in Nat /\ running'[p] = running[p] - off
    BY <1>1, <1>2, RunningAssumption, BoundsAssumption, SMT
  <2>3. running'[p] \in Nat
    BY <1>3, RunningAssumption, BoundsAssumption, SMT
  <2> HIDE DEF off
  <2>4. /\ running'[p] <= running[p]
        /\ running'[p] + off <= running[p] + (IF p \in {} THEN 1 ELSE 0)
    BY <2>2, SMT
  <2> QED BY <2>1, <2>2, <2>3, <2>4, QuietLemma
<1> QED BY <1>1, <1>3, <1>4, CoveredLemma

LEMMA RequestCompletedStep ==
  ASSUME NodeInv, IInv', RequestCompleted
  PROVE  NodeInv'
<1>1. PICK q \in Followed, result \in Results, now \in Recent, at \in Recent :
        RecordOutcome(q, result, at, now) /\ running' = running /\ Excuse(Absent, {q}, {q})
  BY DEF RequestCompleted
<1>2. running \in [Followed -> 0..MaxRunning] /\ q \in Peer
  BY FollowedAssumption DEF NodeInv, HostOK
<1>3. running' \in [Followed -> 0..MaxRunning]
  BY <1>1, <1>2
<1>4. ASSUME NEW p \in Followed PROVE Covered(p, Absent, {q}, {q})
  <2> DEFINE off == IF p = q THEN 1 ELSE 0
  <2>1. Keeps(p, off) /\ (p \in {q} => Releases(p, off))
    BY <1>1, <1>2, OutcomeKeeps DEF NodeInv
  <2>2. off \in 0..1 /\ running'[p] \in Nat /\ running'[p] = running[p]
    BY <1>1, <1>2, RunningAssumption, BoundsAssumption, SMT
  <2>3. off = (IF p \in {q} THEN 1 ELSE 0)
    OBVIOUS
  <2> HIDE DEF off
  <2>4. /\ running'[p] <= running[p]
        /\ running'[p] + off <= running[p] + (IF p \in {q} THEN 1 ELSE 0)
    BY <2>2, <2>3, SMT
  <2> QED BY <2>1, <2>2, <2>4, QuietLemma
<1> QED BY <1>1, <1>3, <1>4, CoveredLemma

LEMMA RangeLostStep ==
  ASSUME NodeInv, IInv', RangeLost
  PROVE  NodeInv'
<1>1. PICK q \in Followed : running[q] > 0 /\ running' = [running EXCEPT ![q] = @ - 1]
  BY DEF RangeLost
<1>2. entries' = entries /\ Excuse(Absent, {}, {}) /\ running \in [Followed -> 0..MaxRunning]
  BY DEF RangeLost, vars, NodeInv, HostOK
<1>3. running' \in [Followed -> 0..MaxRunning]
  <2>1. running[q] - 1 \in 0..MaxRunning
    BY <1>1, <1>2, RunningAssumption, BoundsAssumption, SMT
  <2> QED BY <1>1, <1>2, <2>1
<1>4. ASSUME NEW p \in Followed PROVE Covered(p, Absent, {}, {})
  <2>1. Keeps(p, 0)
    BY <1>2, UnchangedKeeps DEF NodeInv
  <2>2. /\ 0 \in 0..1 /\ running'[p] \in Nat /\ running'[p] <= running[p]
        /\ running'[p] + 0 <= running[p] + (IF p \in {} THEN 1 ELSE 0)
    BY <1>1, <1>2, <1>3, RunningAssumption, BoundsAssumption, SMT
  <2> QED BY <2>1, <2>2, QuietLemma
<1> QED BY <1>2, <1>3, <1>4, CoveredLemma

\* A removal has no excuse, and needs none: what it drops is idle.
LEMMA NodeRemovesStep ==
  ASSUME NodeInv, IInv', NodeRemoves
  PROVE  NodeInv'
<1>1. PICK q \in Followed : RemovePeer(q) /\ running' = running /\ Excuse(Absent \ {q}, {}, {})
  BY DEF NodeRemoves
<1>2. running \in [Followed -> 0..MaxRunning] /\ q \in Peer
  BY FollowedAssumption DEF NodeInv, HostOK
<1>3. running' \in [Followed -> 0..MaxRunning]
  BY <1>1, <1>2
<1>4. ASSUME NEW p \in Followed PROVE Covered(p, Absent \ {q}, {}, {})
  <2>1. /\ Keeps(p, 0)
        /\ p \in DOMAIN entries \ DOMAIN entries' => p = q /\ entries[p].in_flight = 0
    BY <1>1, <1>2, RemoveKeeps DEF NodeInv
  <2>2. /\ 0 \in 0..1 /\ running[p] \in Nat /\ running'[p] = running[p]
        /\ Account(p) \in Nat /\ Account(p)' \in Nat
    BY <1>1, <1>2, AccountLemma, RunningAssumption, BoundsAssumption, SMT DEF NodeInv
  <2>3. CASE p # q
    <3>1. /\ running'[p] \in Nat /\ running'[p] <= running[p]
          /\ running'[p] + 0 <= running[p] + (IF p \in {} THEN 1 ELSE 0)
      BY <2>2, SMT
    <3>2. Covered(p, Absent, {}, {})
      BY <2>1, <2>2, <3>1, QuietLemma
    <3> QED BY <2>3, <3>2 DEF Covered
  <2>4. CASE p = q /\ p \in DOMAIN entries'
    <3>1. /\ running'[p] \in Nat /\ running'[p] <= running[p]
          /\ running'[p] + 0 <= running[p] + (IF p \in {} THEN 1 ELSE 0)
      BY <2>2, SMT
    <3>2. Covered(p, Absent, {}, {}) /\ p \notin Absent
      BY <2>1, <2>2, <2>4, <3>1, QuietLemma DEF Absent
    <3> QED BY <3>2 DEF Covered
  <2>5. CASE p \notin DOMAIN entries'
    <3>1. Account(p) = 0 /\ Account(p)' = 0 /\ ~Expired(p, {})
      BY <2>1, <2>5 DEF Account, Expired
    <3>2. running'[p] - running[p] + Account(p) <= Account(p)' + (IF p \in {} THEN 1 ELSE 0)
      BY <2>2, <3>1, SMT
    <3> QED BY <3>1, <3>2 DEF Covered
  <2> QED BY <2>3, <2>4, <2>5
<1> QED BY <1>1, <1>3, <1>4, CoveredLemma

LEMMA NodeDispatchesStep ==
  ASSUME NodeInv, IInv', NodeDispatches
  PROVE  NodeInv'
<1>1. PICK q \in Followed, count \in 0..MaxCount, now \in Recent :
        /\ \/ OnDispatch(q, count, now)
           \/ call = Idle /\ q \notin DOMAIN entries /\ UNCHANGED vars
        /\ running[q] + count <= MaxRunning
        /\ running' = [running EXCEPT ![q] = @ + count]
        /\ Excuse(Absent, {}, {})
  BY DEF NodeDispatches
<1>2. /\ running \in [Followed -> 0..MaxRunning] /\ q \in Peer /\ count \in Nat
      /\ now \in Nat /\ IInv
  <2>1. q \in Peer /\ IInv /\ running \in [Followed -> 0..MaxRunning]
    BY FollowedAssumption DEF NodeInv, HostOK
  <2>2. now \in Nat /\ count \in Nat
    BY <2>1, IInvFacts, EngineAssumption, SMT
  <2> QED BY <2>1, <2>2
<1>3. running' \in [Followed -> 0..MaxRunning]
  <2>1. running[q] + count \in 0..MaxRunning
    BY <1>1, <1>2, RunningAssumption, BoundsAssumption, SMT
  <2> QED BY <1>1, <1>2, <2>1
<1>4. ASSUME NEW p \in Followed PROVE Covered(p, Absent, {}, {})
  <2>1. /\ running[p] \in Nat /\ running'[p] \in 0..MaxRunning
        /\ Account(p) \in Nat /\ Account(p)' \in Nat
    BY <1>2, <1>3, AccountLemma, RunningAssumption, BoundsAssumption, SMT
  <2>2. CASE p # q
    <3>1. Keeps(p, 0)
      BY <1>1, <1>2, DispatchKeeps, UnchangedKeeps DEF vars
    <3>2. /\ 0 \in 0..1 /\ running'[p] \in Nat /\ running'[p] = running[p]
      BY <1>1, <1>2, <2>1, <2>2, RunningAssumption, BoundsAssumption, SMT
    <3>3. /\ running'[p] <= running[p]
          /\ running'[p] + 0 <= running[p] + (IF p \in {} THEN 1 ELSE 0)
      BY <2>1, <3>2, SMT
    <3> QED BY <3>1, <3>2, <3>3, QuietLemma
  <2>3. CASE p = q /\ ~OnDispatch(q, count, now)
    BY <1>1, <2>3 DEF Covered, Absent, vars
  <2>4. CASE p = q /\ OnDispatch(q, count, now)
    <3>1. /\ p \in DOMAIN entries
          /\ Account(p) = entries[p].in_flight
          /\ Account(p)' = AddInFlight(entries[p], count, now).in_flight
      <4>1. p \in DOMAIN entries
        BY <2>4 DEF OnDispatch
      <4>2. /\ entries' = [entries EXCEPT ![p] = AddInFlight(entries[p], count, now)]
        BY <2>4 DEF OnDispatch
      <4>3. entries'[p] = AddInFlight(entries[p], count, now) /\ p \in DOMAIN entries'
        BY <4>1, <4>2
      <4> QED BY <4>1, <4>3 DEF Account
    <3>2. Account(p)' = Account(p) + count \/ Account(p)' = MaxInFlight
      <4>1. entries[p] \in PeerEntry
        BY <1>2, <3>1, IInvFacts
      <4> QED BY <1>2, <3>1, <4>1, AddInFlightLemma
    <3>3. running'[p] = running[p] + count
      BY <1>1, <1>2, <2>4
    <3>4. CASE Account(p)' = MaxInFlight
      <4>1. running'[p] <= Account(p)'
        BY <2>1, <3>4, RunningAssumption, BoundsAssumption, SMT
      <4> QED BY <4>1 DEF Covered
    <3>5. CASE Account(p)' = Account(p) + count
      <4>1. /\ running'[p] - running[p] <= Account(p)'
            /\ running'[p] - running[p] + Account(p)
                 <= Account(p)' + (IF p \in {} THEN 1 ELSE 0)
        BY <1>2, <2>1, <3>3, <3>5, SMT
      <4> QED BY <4>1 DEF Covered
    <3> QED BY <3>2, <3>4, <3>5
  <2> QED BY <2>2, <2>3, <2>4
<1> QED BY <1>1, <1>3, <1>4, CoveredLemma

-----------------------------------------------------------------------------
(* Every step *)

\* Every move of the node is a step of the engine or leaves it alone.
LEMMA NodeStepIsEngineStep ==
  ASSUME [NodeNext]_nodeVars
  PROVE  [Next]_vars
<1>1. CASE UNCHANGED nodeVars
  BY <1>1 DEF nodeVars, vars
<1>2. CASE Undisturbed /\ Watch
  BY <1>2, Zenon DEF Undisturbed, Next, Select, Report, Feed
<1>3. CASE NodeSelect \/ NodeRebalance
  BY <1>3, Zenon DEF NodeSelect, NodeRebalance, Next, Select, Query
<1>4. CASE RangeSettled \/ RequestCompleted
  BY <1>4, FollowedAssumption, Zenon DEF RangeSettled, RequestCompleted, Next, Report
<1>5. CASE RangeLost
  BY <1>5 DEF RangeLost
<1>6. CASE NodeRemoves
  BY <1>6, FollowedAssumption, Zenon DEF NodeRemoves, Next, Feed
<1>7. CASE NodeDispatches
  BY <1>7, FollowedAssumption, Zenon DEF NodeDispatches, Next, Feed
<1> QED BY <1>1, <1>2, <1>3, <1>4, <1>5, <1>6, <1>7 DEF NodeNext

LEMMA NodeInitLemma == NodeInit => NodeInv
<1> SUFFICES ASSUME NodeInit PROVE NodeInv
  OBVIOUS
<1>1. IInv
  BY InitLemma DEF NodeInit
<1>2. HostOK
  BY RunningAssumption, BoundsAssumption, SMT DEF NodeInit, HostOK
<1>3. AccountCovers
  <2>1. \A p \in Followed : running[p] = 0 /\ uncovered[p] = 0 /\ Account(p) = 0
    BY DEF NodeInit, Init, Account
  <2> QED BY <2>1, SMT DEF AccountCovers
<1> QED BY <1>1, <1>2, <1>3 DEF NodeInv

LEMMA NodeNextLemma ==
  ASSUME NodeInv, [NodeNext]_nodeVars
  PROVE  NodeInv'
<1>1. IInv'
  BY NodeStepIsEngineStep, NextLemma DEF NodeInv
<1>2. CASE UNCHANGED nodeVars
  BY <1>1, <1>2 DEF nodeVars, vars, host, NodeInv, HostOK, AccountCovers, Account
<1>3. CASE NodeNext
  BY <1>1, <1>3, UndisturbedStep, NodeSelectStep, NodeRebalanceStep, RangeSettledStep,
     RequestCompletedStep, RangeLostStep, NodeRemovesStep, NodeDispatchesStep DEF NodeNext
<1> QED BY <1>2, <1>3

\* The account of a peer covers the ranges running at it, but for those `Excuse`
\* has a reason for, whatever the node does and whatever goes on at the other
\* peers (registry.rs:310-349, engine.rs:353-360, 449-450).
THEOREM AccountsCoverWhatRuns == NodeSpec => []AccountCovers
<1>1. NodeInit => NodeInv
  BY NodeInitLemma
<1>2. NodeInv /\ [NodeNext]_nodeVars => NodeInv'
  BY NodeNextLemma
<1>3. NodeInv => AccountCovers
  BY DEF NodeInv
<1> QED BY <1>1, <1>2, <1>3, PTL DEF NodeSpec
=============================================================================

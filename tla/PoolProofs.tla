----------------------------- MODULE PoolProofs -----------------------------
(***************************************************************************)
(* The registry under the engine is a bounded pool: every step of          *)
(* PeerSelector is one step of BoundedPool, or none, for every capacity,   *)
(* every number of peers and every input.                                  *)
(***************************************************************************)
EXTENDS PeerSelectorProofs

Pinned(registry) == {q \in DOMAIN registry : registry[q].connected}

Offline(map) == {q \in DOMAIN map : ~map[q].connected}

PoolStep == Pool!PoolNext \/ UNCHANGED <<DOMAIN entries, Pinned(entries)>>

\* The abstraction counts as the registry does.
LEMMA SameCardinality == \A S : Pool!Cardinality(S) = Cardinality(S)
  BY DEF Pool!Cardinality, Cardinality

\* A map that keeps its keys and its connections is the same pool.
LEMMA SamePoolLemma ==
  ASSUME DOMAIN entries' = DOMAIN entries,
         \A q \in DOMAIN entries : entries'[q].connected = entries[q].connected
  PROVE  PoolStep
<1>1. Pinned(entries)' = Pinned(entries)
  BY Zenon DEF Pinned
<1> QED BY <1>1, Zenon DEF PoolStep

\* How much the eviction loop sheds: exactly the disconnected entries in excess,
\* or all of them.
LEMMA ShedLemma ==
  ASSUME NEW map, IsPeerMap(map, PeerEntry), NEW now \in Nat,
         NEW result \in EnforceCapacity(map, now)
  PROVE  /\ result.shed \subseteq Offline(map)
         /\ Cardinality(result.shed) =
              IF Cardinality(Offline(map)) < Excess(map)
              THEN Cardinality(Offline(map)) ELSE Excess(map)
         /\ DOMAIN result.entries = DOMAIN map \ result.shed
         /\ \A q \in DOMAIN result.entries : result.entries[q].connected = map[q].connected
<1> DEFINE live == ReclaimStaleInFlight(map, now)
           spare == Offline(map)
<1>1. /\ DOMAIN live = DOMAIN map /\ \A q \in DOMAIN map : live[q] = Reclaimed(map[q], now)
  BY ReclaimStaleLemma
<1>2. \A q \in DOMAIN map : Reclaimed(map[q], now).connected = map[q].connected
  BY ReclaimedLemma DEF SameHistory, IsPeerMap
<1>3. PICK V \in Victims(live, now) :
        result = [entries |-> Without(live, V), shed |-> V]
  BY Zenon DEF EnforceCapacity
<1>4. result.shed = V
  BY <1>3
<1> HIDE DEF live
<1>5. {q \in DOMAIN live : IsForceEvictable(live[q])} = spare
  BY <1>1, <1>2, Zenon DEF IsForceEvictable, Offline
<1>6. Excess(live) = Excess(map)
  BY <1>1, Zenon DEF Excess
<1>7. /\ V \subseteq spare
      /\ Cardinality(V) = IF Cardinality(spare) < Excess(live)
                          THEN Cardinality(spare) ELSE Excess(live)
  <2> HIDE DEF spare
  <2> QED BY <1>5, Zenon DEF Victims
<1>8. /\ DOMAIN result.entries = DOMAIN map \ result.shed
      /\ \A q \in DOMAIN result.entries : result.entries[q] = Reclaimed(map[q], now)
  BY EnforceCapacityLemma
<1> QED BY <1>2, <1>4, <1>6, <1>7, <1>8, Zenon

\* An insertion is a Join; what happens to the entries afterwards leaves their
\* connections alone.
LEMMA JoinLemma ==
  ASSUME IInv, NEW p \in Peer \ DOMAIN entries, NEW e \in PeerEntry, NEW now \in Nat,
         NEW result \in EnforceCapacity(With(entries, p, e), now),
         DOMAIN entries' = DOMAIN result.entries,
         \A q \in DOMAIN entries' : entries'[q].connected = result.entries[q].connected
  PROVE  PoolStep
<1> DEFINE more == With(entries, p, e)
           crowd == DOMAIN entries \cup {p}
           spare == {q \in crowd : ~more[q].connected}
           pins == IF e.connected THEN {p} ELSE {}
<1>1. IsPeerMap(entries, PeerEntry)
  BY IInvFacts
<1>2. /\ IsPeerMap(more, PeerEntry) /\ DOMAIN more = crowd
      /\ more[p] = e /\ \A q \in DOMAIN entries : more[q] = entries[q]
  BY <1>1, WithLemma
<1> HIDE DEF more
<1>3. /\ result.shed \subseteq spare
      /\ Cardinality(result.shed) =
           IF Cardinality(spare) < Excess(more) THEN Cardinality(spare) ELSE Excess(more)
      /\ DOMAIN entries' = crowd \ result.shed
      /\ \A q \in DOMAIN entries' : entries'[q].connected = more[q].connected
  <2>1. result \in EnforceCapacity(more, now)
    BY DEF more
  <2>2. /\ result.shed \subseteq Offline(more)
        /\ Cardinality(result.shed) =
             IF Cardinality(Offline(more)) < Excess(more) THEN Cardinality(Offline(more)) ELSE Excess(more)
        /\ DOMAIN result.entries = DOMAIN more \ result.shed
        /\ \A q \in DOMAIN result.entries : result.entries[q].connected = more[q].connected
    <3>1. IsPeerMap(more, PeerEntry)
      BY <1>2
    <3>2. now \in Nat
      OBVIOUS
    <3> HIDE DEF crowd, spare, pins
    <3> QED BY <2>1, <3>1, <3>2, ShedLemma
  <2>3. Offline(more) = spare
    BY <1>2 DEF Offline
  <2> HIDE DEF spare, crowd
  <2> QED BY <1>2, <2>2, <2>3
<1>4. Pinned(entries)' = Pinned(entries) \cup pins
  BY <1>2, <1>3, Zenon DEF Pinned
<1>5. crowd \ (Pinned(entries) \cup pins) = spare
  BY <1>2, Zenon DEF Pinned
<1>6. Cardinality(result.shed) =
        Pool!Least(Cardinality(spare),
          IF Cardinality(crowd) > Capacity THEN Cardinality(crowd) - Capacity ELSE 0)
  <2>1. Excess(more) = IF Cardinality(crowd) > Capacity
                       THEN Cardinality(crowd) - Capacity ELSE 0
    BY <1>2 DEF Excess
  <2> QED BY <1>3, <2>1 DEF Pool!Least
<1>7. Pool!Join(p, pins)
  <2> HIDE DEF pins, spare
  <2> QED BY <1>3, <1>4, <1>5, <1>6, SameCardinality, Zenon DEF Pool!Join, Pinned
<1> QED BY <1>7 DEF PoolStep, Pool!PoolNext

\* The insertion of a candidate, which may be registered already.
LEMMA UpsertPoolStep ==
  ASSUME IInv, NEW p \in Peer, NEW now \in Nat,
         NEW result \in UpsertCandidate(entries, p, now),
         DOMAIN entries' = DOMAIN result.entries,
         \A q \in DOMAIN entries' : entries'[q].connected = result.entries[q].connected
  PROVE  PoolStep
<1>1. CASE p \in DOMAIN entries
  <2>1. result.entries = entries
    BY <1>1 DEF UpsertCandidate, Unchanged
  <2> QED BY <2>1, SamePoolLemma
<1>2. CASE p \notin DOMAIN entries
  <2>1. result \in EnforceCapacity(With(entries, p, ColdEntry(now)), now)
    BY <1>2 DEF UpsertCandidate
  <2> QED BY <1>2, <2>1, ColdEntryLemma, JoinLemma
<1> QED BY <1>1, <1>2

\* A selection keeps every entry and its connection.
LEMMA ServePoolStep ==
  ASSUME NEW selected, NEW records, NEW chosen, NEW now,
         Serves(entries, selected, records, chosen, now)
  PROVE  PoolStep
  BY SamePoolLemma DEF Serves, Served

LEMMA SelectUpsertPoolStep ==
  ASSUME IInv, NEW p \in Peer, SelectUpsert(p)
  PROVE  PoolStep
<1>1. call \in Call
  BY DEF SelectUpsert, IInv, TypeOK
<1>2. call.now \in Nat
  BY <1>1, EngineAssumption, SMT DEF Call
<1>3. PICK result \in UpsertCandidate(entries, p, call.now) : entries' = result.entries
  BY DEF SelectUpsert
<1> QED BY <1>2, <1>3, UpsertPoolStep

LEMMA RecordOutcomePoolStep ==
  ASSUME IInv, NEW p \in Peer, NEW result, NEW now \in Recent, NEW at \in Recent,
         RecordOutcome(p, result, at, now)
  PROVE  PoolStep
<1>1. PICK healed \in UpsertCandidate(entries, p, now) :
        /\ DOMAIN entries' = DOMAIN healed.entries
        /\ \A q \in DOMAIN entries' \ {p} : entries'[q] = healed.entries[q]
        /\ p \in DOMAIN entries' => entries'[p].connected = healed.entries[p].connected
  BY RecordOutcomeFacts
<1>2. now \in Nat
  BY IInvFacts
<1>3. \A q \in DOMAIN entries' : entries'[q].connected = healed.entries[q].connected
  BY <1>1
<1> QED BY <1>1, <1>2, <1>3, UpsertPoolStep

\* The pool's events pin and unpin, or bring a peer that is pinned at once.
LEMMA PeerAddedPoolStep ==
  ASSUME IInv, NEW p \in Peer, NEW now \in Recent, PeerAdded(p, now)
  PROVE  PoolStep
<1>1. /\ now \in Nat /\ IsPeerMap(entries, PeerEntry)
      /\ \A q \in DOMAIN entries : entries[q] \in PeerEntry
  BY IInvFacts
<1>2. PICK result \in MarkConnected(entries, p, now) : entries' = result.entries
  BY DEF PeerAdded, Absorb
<1>3. CASE p \in DOMAIN entries
  <2>1. entries' = [entries EXCEPT ![p] = Connected(entries[p])]
    BY <1>2, <1>3 DEF MarkConnected, Unchanged
  <2>2. Connected(entries[p]).connected
    BY <1>1, <1>3, Zenon DEF Connected, PeerEntry
  <2>3. /\ DOMAIN entries' = DOMAIN entries /\ entries'[p] = Connected(entries[p])
        /\ \A q \in DOMAIN entries \ {p} : entries'[q] = entries[q]
    BY <1>1, <1>3, <2>1, Zenon DEF IsPeerMap
  <2>4. Pinned(entries)' = Pinned(entries) \cup {p}
    BY <1>3, <2>2, <2>3, Zenon DEF Pinned
  <2> QED BY <1>3, <2>3, <2>4, Zenon DEF PoolStep, Pinned, Pool!PoolNext, Pool!Pin
<1>4. CASE p \notin DOMAIN entries
  <2> DEFINE e == [ColdEntry(now) EXCEPT !.connected = TRUE]
  <2>1. result \in EnforceCapacity(With(entries, p, e), now)
    BY <1>2, <1>4 DEF MarkConnected
  <2>2. e \in PeerEntry
    BY <1>1, ConnectedEntryLemma
  <2> HIDE DEF e
  <2> QED BY <1>1, <1>2, <1>4, <2>1, <2>2, JoinLemma
<1> QED BY <1>3, <1>4

LEMMA PeerRemovedPoolStep ==
  ASSUME IInv, NEW p \in Peer, NEW banned \in BOOLEAN, PeerRemoved(p, banned)
  PROVE  PoolStep
<1>1. /\ IsPeerMap(entries, PeerEntry)
      /\ \A q \in DOMAIN entries : entries[q] \in PeerEntry
  BY IInvFacts
<1>2. CASE p \in DOMAIN entries
  <2>1. entries' = [entries EXCEPT ![p] = Disconnected(entries[p], banned)]
    BY <1>2 DEF PeerRemoved, MarkDisconnected
  <2>2. ~Disconnected(entries[p], banned).connected
    BY <1>1, <1>2, Zenon DEF Disconnected, PeerEntry
  <2>3. /\ DOMAIN entries' = DOMAIN entries
        /\ entries'[p] = Disconnected(entries[p], banned)
        /\ \A q \in DOMAIN entries \ {p} : entries'[q] = entries[q]
    BY <1>1, <1>2, <2>1, Zenon DEF IsPeerMap
  <2>4. Pinned(entries)' = Pinned(entries) \ {p}
    BY <1>2, <2>2, <2>3, Zenon DEF Pinned
  <2> QED BY <1>2, <2>3, <2>4, Zenon DEF PoolStep, Pinned, Pool!PoolNext, Pool!Unpin
<1>3. CASE p \notin DOMAIN entries
  <2>1. entries' = entries
    BY <1>3 DEF PeerRemoved, MarkDisconnected
  <2> QED BY <2>1, SamePoolLemma
<1> QED BY <1>2, <1>3

LEMMA RemovePeerPoolStep ==
  ASSUME IInv, NEW p \in Peer, RemovePeer(p)
  PROVE  PoolStep
<1>1. PICK gone \in SUBSET DOMAIN entries :
        (gone = {} \/ gone = {p}) /\ entries' = Without(entries, gone)
  BY RemovePeerFacts
<1>2. /\ DOMAIN entries' = DOMAIN entries \ gone
      /\ \A q \in DOMAIN entries \ gone : entries'[q] = entries[q]
  BY <1>1, Zenon DEF Without
<1>3. CASE gone = {}
  BY <1>2, <1>3, SamePoolLemma
<1>4. CASE gone = {p}
  <2>1. Pinned(entries)' = Pinned(entries) \ {p}
    BY <1>2, <1>4, Zenon DEF Pinned
  <2> QED BY <1>2, <1>4, <2>1, Zenon DEF PoolStep, Pinned, Pool!PoolNext, Pool!Leave
<1> QED BY <1>1, <1>3, <1>4

-----------------------------------------------------------------------------
LEMMA PoolStepLemma ==
  ASSUME IInv, [Next]_vars
  PROVE  PoolStep
<1>1. ASSUME entries' = entries PROVE PoolStep
  BY <1>1, SamePoolLemma
<1>2. CASE UNCHANGED vars \/ Tick
  BY <1>1, <1>2 DEF vars, Tick
<1>3. CASE Select
  <2>1. ASSUME NEW candidates \in SUBSET Peer, NEW now \in Recent,
               SelectBegin(candidates, now)
        PROVE  PoolStep
    BY <1>1, <2>1 DEF SelectBegin
  <2>2. ASSUME NEW want \in 1..MaxWant, SelectFinish(want) PROVE PoolStep
    BY <2>2, SelectFinishFacts, ServePoolStep
  <2> QED BY <1>3, <2>1, <2>2, SelectUpsertPoolStep DEF Select
<1>4. CASE Query
  <2>1. ASSUME NEW active \in SUBSET DOMAIN entries, NEW want \in 1..MaxWant,
               NEW now \in Recent, Rebalance(active, want, now)
        PROVE  PoolStep
    BY <2>1, RebalanceFacts, ServePoolStep
  <2> QED BY <1>4, <2>1 DEF Query
<1>5. CASE Report
  BY <1>5, RecordOutcomePoolStep DEF Report
<1>6. CASE Feed
  <2>1. ASSUME NEW p \in Peer, NEW now \in Recent,
               OnConnectionClass(p, now) \/ UpsertManual(p, now)
        PROVE  PoolStep
    <3>1. PICK result \in UpsertCandidate(entries, p, now) : entries' = result.entries
      BY <2>1 DEF OnConnectionClass, UpsertManual, SetConnectionClass, UpsertCandidate, Absorb
    <3>2. now \in Nat
      BY IInvFacts
    <3> QED BY <3>1, <3>2, UpsertPoolStep
  <2>2. ASSUME NEW p \in Peer, NEW count \in 0..MaxCount, NEW now \in Recent,
               OnDispatch(p, count, now)
        PROVE  PoolStep
    <3>1. count \in Nat
      BY EngineAssumption, SMT
    <3> QED BY <2>2, <3>1, OnDispatchFacts, SamePoolLemma
  <2> QED BY <1>6, <2>1, <2>2, PeerAddedPoolStep, PeerRemovedPoolStep, RemovePeerPoolStep
          DEF Feed
<1> QED BY <1>2, <1>3, <1>4, <1>5, <1>6 DEF Next

\* The engine implements the bounded pool (registry.rs:361-409): it sheds on
\* insertions only, exactly what exceeds the capacity, and never a live link.
THEOREM RegistryIsABoundedPool == Spec => ImplementsPool
<1>1. Init => Pool!PoolInit
  BY Zenon DEF Init, Pool!PoolInit
<1>2. IInv /\ [Next]_vars => PoolStep
  BY PoolStepLemma
<1>3. PoolStep => [Pool!PoolNext]_Pool!pool
  BY DEF PoolStep, Pinned, Pool!pool
<1> QED BY <1>1, <1>2, <1>3, Invariance, PTL DEF Spec, ImplementsPool, Pool!PoolSpec
=============================================================================

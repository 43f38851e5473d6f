------------------------- MODULE PeerSelectorProofs -------------------------
(***************************************************************************)
(* What the engine keeps whatever the capacity, the number of peers, the   *)
(* clock, the measurements and the requests are.                           *)
(***************************************************************************)
EXTENDS PeerSelector, RegistryProofs

-----------------------------------------------------------------------------
(* The ranking *)

\* An adjusted pool has the peers of the scored one and headrooms in Nat.
LEMMA AdjustedLemma ==
  ASSUME NEW scored, NEW deranked,
         \A p \in DOMAIN scored : \E h \in Nat : \E s, x :
           scored[p] = [exploratory |-> x, effective_score |-> s, headroom |-> h]
  PROVE  /\ DOMAIN Adjusted(scored, deranked) = DOMAIN scored
         /\ \A p \in DOMAIN scored : Adjusted(scored, deranked)[p].headroom \in Nat
<1> DEFINE Scored(p) == IF scored[p].exploratory THEN ExplorationBonus(scored)
                        ELSE scored[p].effective_score
           Derank(p) == [scored[p] EXCEPT !.effective_score = Scored(p) \div 2,
                                          !.headroom = MaxOf(@ - 1, 0)]
           Keep(p) == [scored[p] EXCEPT !.effective_score = Scored(p)]
<1>1. Adjusted(scored, deranked) =
        [p \in DOMAIN scored |-> IF p \in deranked THEN Derank(p) ELSE Keep(p)]
  BY DEF Adjusted
<1>2. ASSUME NEW p \in DOMAIN scored
      PROVE  Derank(p).headroom \in Nat /\ Keep(p).headroom \in Nat
  <2>1. PICK h \in Nat : \E s, x :
          scored[p] = [exploratory |-> x, effective_score |-> s, headroom |-> h]
    OBVIOUS
  <2>2. Derank(p).headroom = MaxOf(h - 1, 0) /\ Keep(p).headroom = h
    BY <2>1
  <2> QED BY <2>2, SMT DEF MaxOf
<1> HIDE DEF Derank, Keep
<1> QED BY <1>1, <1>2

\* Whoever is selected is in the pool, and gets a concurrency in Nat.
LEMMA SelectionsLemma ==
  ASSUME NEW scored, NEW stale, NEW want,
         \A p \in DOMAIN scored : scored[p].headroom \in Nat,
         NEW selection \in Selections(scored, stale, want)
  PROVE  /\ DOMAIN selection \subseteq DOMAIN scored
         /\ \A p \in DOMAIN selection : selection[p].max_concurrency \in Nat
<1>1. PICK pos \in Orders(scored, stale),
           forced \in (IF ForcedPicks(scored, stale, want) = {} THEN {{}}
                       ELSE {{p} : p \in ForcedPicks(scored, stale, want)}) :
        selection = Materialize(scored, pos, forced, want)
  BY SMT DEF Selections
<1>2. forced \subseteq DOMAIN scored
  BY <1>1, Zenon DEF ForcedPicks
<1>3. PassOne(scored, pos, forced, want) \subseteq DOMAIN scored
  BY Zenon DEF PassOne, Walk
<1> DEFINE first == PassOne(scored, pos, forced, want)
<1>4. /\ DOMAIN selection = first \cup forced
      /\ \A p \in first \cup forced :
           selection[p].max_concurrency = MaxOf(scored[p].headroom, 1)
  BY <1>1, Zenon DEF Materialize
<1> HIDE DEF first
<1>5. first \cup forced \subseteq DOMAIN scored
  BY <1>2, <1>3 DEF first
<1> QED BY <1>4, <1>5, SMT DEF MaxOf

-----------------------------------------------------------------------------
(* select_over *)

\* What a selection does to an entry it finds: the connection and what was
\* learned stay, in-flight drops only by the reclaim.
Served(e, f, now) ==
  /\ f.connected = e.connected /\ f.banned = e.banned /\ f.standing = e.standing
  /\ f.in_flight >= e.in_flight \/ IsStale(e, now)

LEMMA ServedEntryLemma ==
  ASSUME NEW e \in PeerEntry, NEW now \in Nat, NEW count \in Nat,
         NEW f \in {Reclaimed(e, now), AddInFlight(Reclaimed(e, now), count, now)}
  PROVE  /\ f \in PeerEntry
         /\ Served(e, f, now)
         /\ IsStale(e, now) => Lapses(e, f, now)
         /\ \A t \in Nat : now <= t /\ Sound(e, t) => Sound(f, t)
<1> DEFINE g == Reclaimed(e, now)
<1>1. /\ g \in PeerEntry /\ SameHistory(e, g)
      /\ g = e \/ IsStale(e, now)
      /\ IsStale(e, now) => g.in_flight_since = None
      /\ \A t \in Nat : Sound(e, t) => Sound(g, t)
  BY ReclaimedLemma
<1>2. e.in_flight \in Nat /\ g.in_flight \in Nat
  <2> HIDE DEF g
  <2> QED BY <1>1, BoundsAssumption, SMT DEF PeerEntry
<1>3. CASE f = g
  <2> HIDE DEF g
  <2>1. f.in_flight >= e.in_flight \/ IsStale(e, now)
    BY <1>1, <1>2, <1>3, SMT
  <2> QED BY <1>1, <1>3, <2>1 DEF Served, Lapses, IsStale, SameHistory
<1>4. CASE f = AddInFlight(g, count, now)
  <2>1. /\ f \in PeerEntry /\ SameHistory(g, f)
        /\ f.in_flight >= g.in_flight
        /\ f.in_flight_since \in {g.in_flight_since, now}
        /\ \A t \in Nat : now <= t /\ Sound(g, t) => Sound(f, t)
    BY <1>1, <1>4, AddInFlightLemma
  <2> HIDE DEF g
  <2>2. f.in_flight >= e.in_flight \/ IsStale(e, now)
    BY <1>1, <1>2, <2>1, SMT
  <2>3. IsStale(e, now) => f.in_flight_since # e.in_flight_since
    BY <1>1, <2>1, BoundsAssumption, SMT DEF IsStale, PeerEntry
  <2> QED BY <1>1, <2>1, <2>2, <2>3 DEF Served, Lapses, SameHistory
<1> QED BY <1>3, <1>4

\* The peers a selection serves, and what it does to the maps.
Serves(registry, selected, records, chosen, now) ==
  /\ epoch' \in 0..(EpochModulus - 1)
  /\ IsPeerMap(entries', PeerEntry)
  /\ DOMAIN entries' = DOMAIN registry
  /\ \A q \in DOMAIN registry :
       /\ Served(registry[q], entries'[q], now)
       /\ IsStale(registry[q], now) => Lapses(registry[q], entries'[q], now)
  /\ \A t \in Nat : now <= t /\ AllSound(registry, t) => AllSound(entries', t)
  /\ IsPeerMap(last_selected', 0..(EpochModulus - 1))
  /\ DOMAIN last_selected' = DOMAIN selected \cup chosen
  /\ \A q \in DOMAIN selected \ chosen : last_selected'[q] = selected[q]
  /\ dispatched' = records \cup chosen

LEMMA SelectOverLemma ==
  ASSUME NEW registry, IsPeerMap(registry, PeerEntry),
         NEW selected, IsPeerMap(selected, 0..(EpochModulus - 1)),
         NEW records, NEW pool, NEW deranked, NEW want, NEW now \in Nat,
         epoch \in 0..(EpochModulus - 1),
         SelectOver(registry, selected, records, pool, deranked, want, now)
  PROVE  \E chosen \in SUBSET EligiblePool(registry, pool) :
           Serves(registry, selected, records, chosen, now)
<1> DEFINE live == ReclaimStaleInFlight(registry, now)
           peers == EligiblePool(live, pool)
           next == (epoch + 1) % EpochModulus
           stale == [p \in peers |-> Staleness(next, selected, p)]
<1>1. /\ IsPeerMap(live, PeerEntry) /\ DOMAIN live = DOMAIN registry
      /\ \A p \in DOMAIN registry : live[p] = Reclaimed(registry[p], now)
  BY ReclaimStaleLemma
<1>2. \A p \in DOMAIN registry :
        registry[p] \in PeerEntry /\ live[p] \in PeerEntry
  BY <1>1 DEF IsPeerMap
<1>3. peers = EligiblePool(registry, pool) /\ peers \subseteq DOMAIN live
  <2>1. \A p \in DOMAIN registry : live[p].banned = registry[p].banned
    BY <1>1, <1>2, ReclaimedLemma DEF SameHistory
  <2> HIDE DEF live
  <2> QED BY <1>1, <2>1 DEF EligiblePool, IsEligible
<1>4. next \in 0..(EpochModulus - 1)
  BY EngineAssumption, SMT
<1>5. CASE peers = {}
  <2>1. entries' = live /\ last_selected' = selected /\ dispatched' = records /\ epoch' = epoch
    BY <1>5, Zenon DEF SelectOver
  <2> HIDE DEF live, peers, next, stale
  <2>2. \A q \in DOMAIN registry :
          /\ Served(registry[q], live[q], now)
          /\ IsStale(registry[q], now) => Lapses(registry[q], live[q], now)
          /\ \A t \in Nat : now <= t /\ Sound(registry[q], t) => Sound(live[q], t)
    BY <1>1, <1>2, ServedEntryLemma
  <2>3. \A t \in Nat : now <= t /\ AllSound(registry, t) => AllSound(live, t)
    BY <1>1, <2>2 DEF AllSound
  <2>4. Serves(registry, selected, records, {}, now)
    BY <1>1, <2>1, <2>2, <2>3, Zenon DEF Serves
  <2> QED BY <2>4
<1>6. CASE peers # {}
  <2>1. PICK measured \in Measurements(live, peers), point \in Points :
          LET scored == Adjusted(
                [p \in peers |-> ScorePeer(p, live[p], measured[p], point)], deranked)
          IN  \E selection \in Selections(scored, stale, want) :
                /\ last_selected' =
                     [p \in DOMAIN selected \cup DOMAIN selection |->
                        IF p \in DOMAIN selection THEN next ELSE selected[p]]
                /\ entries' =
                     [p \in DOMAIN live |->
                        IF p \in DOMAIN selection
                        THEN AddInFlight(live[p], selection[p].max_concurrency, now)
                        ELSE live[p]]
                /\ dispatched' = records \cup DOMAIN selection
    BY <1>6, Zenon DEF SelectOver
  <2>2. epoch' = next
    BY <1>6, Zenon DEF SelectOver
  <2> DEFINE raw == [p \in peers |-> ScorePeer(p, live[p], measured[p], point)]
             scored == Adjusted(raw, deranked)
  <2>3. PICK selection \in Selections(scored, stale, want) :
          /\ last_selected' =
               [p \in DOMAIN selected \cup DOMAIN selection |->
                  IF p \in DOMAIN selection THEN next ELSE selected[p]]
          /\ entries' =
               [p \in DOMAIN live |->
                  IF p \in DOMAIN selection
                  THEN AddInFlight(live[p], selection[p].max_concurrency, now)
                  ELSE live[p]]
          /\ dispatched' = records \cup DOMAIN selection
    BY <2>1, Zenon
  <2> HIDE DEF live, peers, next, stale
  <2>4. /\ DOMAIN raw = peers
        /\ \A p \in peers : \E h \in Nat : \E s, x :
             raw[p] = [exploratory |-> x, effective_score |-> s, headroom |-> h]
    <3>1. ASSUME NEW p \in peers
          PROVE  \E h \in Nat : \E s, x :
             raw[p] = [exploratory |-> x, effective_score |-> s, headroom |-> h]
      <4> DEFINE head == MaxOf(point - live[p].in_flight, 0)
                 h == IF live[p].standing \in {"cold", "bad"} THEN MaxOf(head, 1) ELSE head
      <4>1. h \in Nat
        <5>1. point \in Nat /\ live[p].in_flight \in Nat
          BY <1>1, <1>2, <1>3, EngineAssumption, BoundsAssumption, SMT DEF PeerEntry
        <5> QED BY <5>1, SMT DEF MaxOf
      <4>2. \E s, x : raw[p] = [exploratory |-> x, effective_score |-> s, headroom |-> h]
        BY Zenon DEF ScorePeer
      <4> QED BY <4>1, <4>2, Zenon
    <3> QED BY <3>1
  <2> HIDE DEF raw
  <2>5. /\ DOMAIN selection \subseteq peers
        /\ \A p \in DOMAIN selection : selection[p].max_concurrency \in Nat
    BY <2>4, AdjustedLemma, SelectionsLemma
  <2> HIDE DEF scored
  <2> DEFINE chosen == DOMAIN selection
  <2>6. /\ DOMAIN entries' = DOMAIN registry
        /\ \A q \in DOMAIN registry :
             entries'[q] = IF q \in chosen
                           THEN AddInFlight(live[q], selection[q].max_concurrency, now)
                           ELSE live[q]
    BY <1>1, <2>3, Zenon
  <2>7. \A q \in DOMAIN registry :
          /\ entries'[q] \in PeerEntry
          /\ Served(registry[q], entries'[q], now)
          /\ IsStale(registry[q], now) => Lapses(registry[q], entries'[q], now)
          /\ \A t \in Nat : now <= t /\ Sound(registry[q], t) => Sound(entries'[q], t)
    <3> TAKE q \in DOMAIN registry
    <3>1. CASE q \in chosen
      <4> DEFINE count == selection[q].max_concurrency
      <4>1. count \in Nat /\ registry[q] \in PeerEntry
        BY <1>2, <2>5, <3>1
      <4>2. entries'[q] = AddInFlight(Reclaimed(registry[q], now), count, now)
        BY <1>1, <2>6, <3>1
      <4> HIDE DEF count
      <4> QED BY <4>1, <4>2, ServedEntryLemma
    <3>2. CASE q \notin chosen
      BY <1>1, <1>2, <2>6, <3>2, ServedEntryLemma
    <3> QED BY <3>1, <3>2
  <2>8. IsPeerMap(entries', PeerEntry)
    <3>1. entries' \in [DOMAIN registry -> PeerEntry]
      BY <1>1, <2>3, <2>6, <2>7, Zenon
    <3> QED BY <2>6, <3>1, Zenon DEF IsPeerMap
  <2>9. \A t \in Nat : now <= t /\ AllSound(registry, t) => AllSound(entries', t)
    BY <2>6, <2>7 DEF AllSound
  <2>10. /\ IsPeerMap(last_selected', 0..(EpochModulus - 1))
         /\ DOMAIN last_selected' = DOMAIN selected \cup chosen
         /\ \A q \in DOMAIN selected \ chosen : last_selected'[q] = selected[q]
    <3>1. chosen \subseteq Peer
      BY <1>1, <1>3, <2>5 DEF IsPeerMap
    <3> QED BY <1>4, <2>3, <3>1, Zenon DEF IsPeerMap
  <2>11. Serves(registry, selected, records, chosen, now)
    BY <1>4, <2>2, <2>3, <2>6, <2>7, <2>8, <2>9, <2>10, Zenon DEF Serves
  <2> QED BY <1>3, <2>5, <2>11
<1> QED BY <1>5, <1>6

-----------------------------------------------------------------------------
(* The inductive invariant *)

\* The two invariants on entries are the soundness of each at the clock.
LEMMA SoundnessLemma == AllSound(entries, clock) <=> BusyStamped /\ BannedOffline
  BY Zenon DEF AllSound, Sound, BusyStamped, BannedOffline, Busy

\* The same for the state a step leads to.
LEMMA IInvNext ==
  ASSUME TypeOK', SideMapsTracked', AllSound(entries', clock'), CallInPast'
  PROVE  IInv'
<1>1. BusyStamped' /\ BannedOffline'
  BY Zenon DEF AllSound, Sound, BusyStamped, BannedOffline, Busy
<1> QED BY <1>1 DEF IInv

\* What IInv gives at a state, in the terms the lemmas use.
LEMMA IInvFacts ==
  ASSUME IInv
  PROVE  /\ TypeOK /\ SideMapsTracked /\ CallInPast /\ AllSound(entries, clock)
         /\ IsPeerMap(entries, PeerEntry) /\ DOMAIN entries \subseteq Peer
         /\ \A p \in DOMAIN entries : entries[p] \in PeerEntry
         /\ clock \in Nat /\ clock <= MaxClock
         /\ \A now \in Recent : now \in Nat /\ now <= clock /\ now \in 0..MaxClock
<1>1. clock \in Nat /\ clock <= MaxClock
  BY EngineAssumption, SMT DEF IInv, TypeOK
<1>2. \A now \in Recent : now \in Nat /\ now <= clock /\ now \in 0..MaxClock
  BY <1>1, EngineAssumption, SMT DEF Recent
<1>3. AllSound(entries, clock)
  BY SoundnessLemma DEF IInv
<1>4. /\ IsPeerMap(entries, PeerEntry) /\ DOMAIN entries \subseteq Peer
      /\ \A p \in DOMAIN entries : entries[p] \in PeerEntry
  BY DEF IInv, TypeOK, IsPeerMap
<1> QED BY <1>1, <1>2, <1>3, <1>4 DEF IInv

\* An operation that may insert a peer, its evictions drained and pruned.
LEMMA AbsorbStep ==
  ASSUME IInv, call = Idle, NEW p \in Peer, NEW now \in Recent,
         NEW result, Inserts(entries, p, result, now), Absorb(result),
         UNCHANGED <<epoch, clock, call>>
  PROVE  IInv'
<1>1. /\ TypeOK /\ SideMapsTracked /\ CallInPast /\ AllSound(entries, clock)
      /\ clock \in Nat
  BY IInvFacts
<1>2. /\ entries' = result.entries /\ evicted' = {}
      /\ last_selected' = Without(last_selected, evicted \cup result.shed)
      /\ dispatched' = dispatched \ (evicted \cup result.shed)
  BY DEF Absorb
<1>3. /\ IsPeerMap(last_selected', 0..(EpochModulus - 1))
      /\ DOMAIN last_selected' = DOMAIN last_selected \ (evicted \cup result.shed)
  <2>1. IsPeerMap(last_selected, 0..(EpochModulus - 1))
    BY <1>1 DEF TypeOK
  <2> QED BY <1>2, <2>1, WithoutLemma, Zenon
<1>4. TypeOK'
  BY <1>1, <1>2, <1>3 DEF TypeOK, Inserts
<1>5. SideMapsTracked'
  BY <1>1, <1>2, <1>3 DEF SideMapsTracked, Inserts
<1>6. AllSound(entries', clock')
  BY <1>1, <1>2 DEF Inserts
<1>7. CallInPast'
  BY DEF CallInPast
<1> QED BY <1>4, <1>5, <1>6, <1>7, IInvNext

\* A selection over `chosen` peers that follows the pruning of the side maps.
LEMMA ServeStep ==
  ASSUME IInv, NEW now \in Nat, now <= clock,
         NEW gone \in SUBSET evicted, gone = evicted \/ evicted = {},
         NEW chosen \in SUBSET DOMAIN entries,
         Serves(entries, Without(last_selected, gone), dispatched \ gone, chosen, now),
         evicted' = {}, clock' = clock, call' = Idle
  PROVE  IInv'
<1>1. /\ TypeOK /\ SideMapsTracked /\ AllSound(entries, clock) /\ clock \in Nat
      /\ IsPeerMap(last_selected, 0..(EpochModulus - 1)) /\ DOMAIN entries \subseteq Peer
  BY IInvFacts DEF TypeOK
<1>2. DOMAIN Without(last_selected, gone) = DOMAIN last_selected \ gone
  BY Zenon DEF Without
<1>3. /\ epoch' \in 0..(EpochModulus - 1)
      /\ IsPeerMap(entries', PeerEntry) /\ DOMAIN entries' = DOMAIN entries
      /\ AllSound(entries', clock)
      /\ IsPeerMap(last_selected', 0..(EpochModulus - 1))
      /\ DOMAIN last_selected' = (DOMAIN last_selected \ gone) \cup chosen
      /\ dispatched' = (dispatched \ gone) \cup chosen
  BY <1>1, <1>2 DEF Serves
<1>4. TypeOK'
  BY <1>1, <1>3 DEF TypeOK
<1>5. SideMapsTracked'
  BY <1>1, <1>3 DEF SideMapsTracked
<1>6. AllSound(entries', clock')
  BY <1>3
<1>7. CallInPast'
  BY DEF CallInPast
<1> QED BY <1>4, <1>5, <1>6, <1>7, IInvNext

\* Pruning nothing changes nothing.
LEMMA WithoutNothing ==
  ASSUME NEW R, NEW map, IsPeerMap(map, R)
  PROVE  Without(map, {}) = map
  BY Zenon DEF IsPeerMap, Without

LEMMA RecordEntryLemma ==
  ASSUME NEW e \in PeerEntry, NEW result, NEW f \in Learned(e, result), NEW reference \in Nat
  PROVE  LET g == Settled(f, reference)
         IN  /\ g \in PeerEntry
             /\ g.connected = e.connected /\ g.banned = e.banned
             /\ g.standing = f.standing
             /\ g.in_flight >= e.in_flight - 1
             /\ \A t \in Nat : Sound(e, t) => Sound(g, t)
<1> DEFINE h == [f EXCEPT !.reference = reference]
           g == ReleaseInFlight(h, 1)
<1>1. /\ f \in PeerEntry
      /\ f.connected = e.connected /\ f.banned = e.banned
      /\ f.in_flight = e.in_flight /\ f.in_flight_since = e.in_flight_since
  BY LearnedLemma
<1>2. /\ h \in PeerEntry
      /\ h.connected = f.connected /\ h.banned = f.banned /\ h.standing = f.standing
      /\ h.in_flight = f.in_flight /\ h.in_flight_since = f.in_flight_since
  BY <1>1, Zenon DEF PeerEntry
<1> HIDE DEF h
<1>3. /\ g \in PeerEntry /\ SameHistory(h, g)
      /\ g.in_flight >= h.in_flight - 1
      /\ \A t \in Nat : Sound(h, t) => Sound(g, t)
  BY <1>2, ReleaseInFlightLemma
<1>4. \A t \in Nat : Sound(e, t) => Sound(h, t)
  BY <1>1, <1>2, Zenon DEF Sound
<1>5. Settled(f, reference) = g
  BY DEF Settled, h
<1> HIDE DEF g
<1>6. /\ g.connected = e.connected /\ g.banned = e.banned /\ g.standing = f.standing
      /\ g.in_flight >= e.in_flight - 1
  BY <1>1, <1>2, <1>3 DEF SameHistory
<1> QED BY <1>3, <1>4, <1>5, <1>6

-----------------------------------------------------------------------------
(* One lemma per action *)

LEMMA InitLemma == Init => IInv
<1> SUFFICES ASSUME Init PROVE IInv
  OBVIOUS
<1>1. TypeOK
  BY EngineAssumption, SMT DEF Init, TypeOK, IsPeerMap
<1>2. SideMapsTracked
  BY DEF Init, SideMapsTracked
<1>3. BusyStamped /\ BannedOffline /\ CallInPast
  BY DEF Init, BusyStamped, BannedOffline, CallInPast
<1> QED BY <1>1, <1>2, <1>3 DEF IInv

LEMMA TickStep ==
  ASSUME IInv, Tick
  PROVE  IInv'
<1>1. /\ TypeOK /\ SideMapsTracked /\ CallInPast /\ AllSound(entries, clock)
      /\ clock \in Nat /\ \A p \in DOMAIN entries : entries[p] \in PeerEntry
  BY IInvFacts
<1>2. clock' \in Nat /\ clock <= clock' /\ clock' \in 0..MaxClock
  BY <1>1, EngineAssumption, SMT DEF Tick
<1>3. TypeOK'
  BY <1>1, <1>2 DEF Tick, TypeOK
<1>4. SideMapsTracked'
  BY <1>1 DEF Tick, SideMapsTracked
<1>5. AllSound(entries', clock')
  BY <1>1, <1>2, SoundLater DEF Tick, AllSound
<1>6. CallInPast'
  <2>1. call # Idle => call.now \in Nat /\ call.now <= clock
    BY <1>1, EngineAssumption, SMT DEF TypeOK, CallInPast, Call
  <2> QED BY <1>1, <1>2, <2>1, SMT DEF Tick, CallInPast
<1> QED BY <1>3, <1>4, <1>5, <1>6, IInvNext

LEMMA SelectBeginStep ==
  ASSUME IInv, NEW candidates \in SUBSET Peer, NEW now \in Recent,
         SelectBegin(candidates, now)
  PROVE  IInv'
<1>1. /\ TypeOK /\ SideMapsTracked /\ AllSound(entries, clock)
      /\ now \in 0..MaxClock /\ now <= clock
  BY IInvFacts
<1>2. call' \in Call /\ call' # Idle /\ call'.now = now
  BY <1>1, IdleAssumption, SMT DEF SelectBegin, Call
<1>3. TypeOK'
  BY <1>1, <1>2 DEF SelectBegin, TypeOK
<1>4. SideMapsTracked'
  BY <1>1, <1>2 DEF SelectBegin, SideMapsTracked
<1>5. AllSound(entries', clock')
  BY <1>1 DEF SelectBegin
<1>6. CallInPast'
  BY <1>1, <1>2 DEF SelectBegin, CallInPast
<1> QED BY <1>3, <1>4, <1>5, <1>6, IInvNext

LEMMA SelectUpsertStep ==
  ASSUME IInv, NEW p \in Peer, SelectUpsert(p)
  PROVE  IInv'
<1>1. /\ TypeOK /\ SideMapsTracked /\ CallInPast /\ AllSound(entries, clock)
      /\ IsPeerMap(entries, PeerEntry) /\ clock \in Nat /\ DOMAIN entries \subseteq Peer
  BY IInvFacts
<1>2. call \in Call /\ call # Idle
  BY <1>1 DEF SelectUpsert, TypeOK
<1>3. call.now \in Nat
  BY <1>2, EngineAssumption, SMT DEF Call
<1>4. PICK result \in UpsertCandidate(entries, p, call.now) :
        entries' = result.entries /\ evicted' = evicted \cup result.shed
  BY DEF SelectUpsert
<1>5. Inserts(entries, p, result, call.now)
  BY <1>1, <1>3, <1>4, UpsertCandidateLemma
<1>6. call' \in Call /\ call' # Idle /\ call'.now = call.now
  BY <1>2, IdleAssumption, Zenon DEF SelectUpsert, Call
<1>7. TypeOK'
  BY <1>1, <1>4, <1>5, <1>6 DEF SelectUpsert, TypeOK, Inserts
<1>8. SideMapsTracked'
  BY <1>1, <1>4, <1>5, <1>6 DEF SelectUpsert, SideMapsTracked, Inserts
<1>9. AllSound(entries', clock')
  BY <1>1, <1>4, <1>5 DEF SelectUpsert, Inserts
<1>10. CallInPast'
  BY <1>1, <1>2, <1>6 DEF SelectUpsert, CallInPast
<1> QED BY <1>7, <1>8, <1>9, <1>10, IInvNext

\* Which peers a finishing select serves.
LEMMA SelectFinishFacts ==
  ASSUME IInv, NEW want, SelectFinish(want)
  PROVE  /\ call.now \in Nat /\ call.now <= clock
         /\ \E chosen \in SUBSET EligiblePool(entries, call.pool) :
              Serves(entries, Without(last_selected, evicted), dispatched \ evicted,
                     chosen, call.now)
<1>1. /\ TypeOK /\ CallInPast /\ IsPeerMap(entries, PeerEntry)
      /\ IsPeerMap(last_selected, 0..(EpochModulus - 1))
      /\ epoch \in 0..(EpochModulus - 1)
  BY IInvFacts DEF TypeOK
<1>2. call.now \in Nat /\ call.now <= clock
  BY <1>1, EngineAssumption, SMT DEF SelectFinish, TypeOK, CallInPast, Call
<1>3. IsPeerMap(Without(last_selected, evicted), 0..(EpochModulus - 1))
  BY <1>1, WithoutLemma, Zenon
<1>4. SelectOver(entries, Without(last_selected, evicted), dispatched \ evicted,
                 call.pool, {}, want, call.now)
  BY DEF SelectFinish
<1>5. \E chosen \in SUBSET EligiblePool(entries, call.pool) :
        Serves(entries, Without(last_selected, evicted), dispatched \ evicted,
               chosen, call.now)
  BY <1>1, <1>2, <1>3, <1>4, SelectOverLemma
<1> QED BY <1>2, <1>5

LEMMA SelectFinishStep ==
  ASSUME IInv, NEW want, SelectFinish(want)
  PROVE  IInv'
<1>1. PICK chosen \in SUBSET EligiblePool(entries, call.pool) :
        Serves(entries, Without(last_selected, evicted), dispatched \ evicted,
               chosen, call.now)
  BY SelectFinishFacts
<1>2. call.now \in Nat /\ call.now <= clock
  BY SelectFinishFacts
<1>3. chosen \subseteq DOMAIN entries
  BY DEF EligiblePool
<1> QED BY <1>1, <1>2, <1>3, ServeStep DEF SelectFinish

\* Which peers a rebalance serves.
LEMMA RebalanceFacts ==
  ASSUME IInv, NEW active, NEW want, NEW now \in Recent, Rebalance(active, want, now)
  PROVE  \E chosen \in SUBSET EligiblePool(entries, DOMAIN entries) :
           Serves(entries, last_selected, dispatched, chosen, now)
<1>1. /\ TypeOK /\ IsPeerMap(entries, PeerEntry) /\ now \in Nat
      /\ IsPeerMap(last_selected, 0..(EpochModulus - 1))
      /\ epoch \in 0..(EpochModulus - 1)
  BY IInvFacts DEF TypeOK
<1>2. SelectOver(entries, last_selected, dispatched, DOMAIN entries, active, want, now)
  BY DEF Rebalance
<1> QED BY <1>1, <1>2, SelectOverLemma

LEMMA RebalanceStep ==
  ASSUME IInv, NEW active, NEW want, NEW now \in Recent, Rebalance(active, want, now)
  PROVE  IInv'
<1>1. PICK chosen \in SUBSET EligiblePool(entries, DOMAIN entries) :
        Serves(entries, last_selected, dispatched, chosen, now)
  BY RebalanceFacts
<1>2. /\ now \in Nat /\ now <= clock /\ SideMapsTracked
      /\ IsPeerMap(last_selected, 0..(EpochModulus - 1))
  BY IInvFacts DEF TypeOK
<1>3. chosen \subseteq DOMAIN entries
  BY DEF EligiblePool
<1>4. evicted = {} /\ evicted' = {} /\ clock' = clock /\ call' = Idle
  BY <1>2 DEF Rebalance, SideMapsTracked
<1>5. Without(last_selected, {}) = last_selected
  BY <1>2, WithoutNothing
<1>6. Serves(entries, Without(last_selected, {}), dispatched \ {}, chosen, now)
  <2>1. dispatched \ {} = dispatched
    OBVIOUS
  <2> QED BY <1>1, <1>5, <2>1
<1> QED BY <1>2, <1>3, <1>4, <1>6, ServeStep

\* What record_outcome makes of the entries.
LEMMA RecordOutcomeFacts ==
  ASSUME IInv, NEW p \in Peer, NEW result, NEW now \in Recent, NEW at \in Recent,
         RecordOutcome(p, result, at, now)
  PROVE  \E healed \in UpsertCandidate(entries, p, now) :
           /\ Inserts(entries, p, healed, now)
           /\ last_selected' = Without(last_selected, healed.shed)
           /\ dispatched' = dispatched \ (healed.shed \cup {p})
           /\ IsPeerMap(entries', PeerEntry)
           /\ DOMAIN entries' = DOMAIN healed.entries
           /\ \A q \in DOMAIN entries' \ {p} : entries'[q] = healed.entries[q]
           /\ p \in DOMAIN entries' =>
                /\ entries'[p].connected = healed.entries[p].connected
                /\ entries'[p].banned = healed.entries[p].banned
                /\ entries'[p].standing # "cold"
                /\ healed.entries[p].standing \in {"bad", "redeemed"} =>
                     entries'[p].standing \in {"bad", "redeemed"}
                /\ entries'[p].in_flight >= healed.entries[p].in_flight - 1
           /\ AllSound(entries', clock)
<1>1. /\ IsPeerMap(entries, PeerEntry) /\ now \in Nat /\ at \in Nat
      /\ AllSound(entries, clock) /\ clock \in Nat
  BY IInvFacts
<1>2. PICK healed \in UpsertCandidate(entries, p, now) :
        /\ last_selected' = Without(last_selected, healed.shed)
        /\ dispatched' = dispatched \ (healed.shed \cup {p})
        /\ IF p \in DOMAIN healed.entries
           THEN \E e \in Learned(healed.entries[p], result) :
                  entries' = [healed.entries EXCEPT ![p] = Settled(e, MaxOf(at, now))]
           ELSE entries' = healed.entries
  BY Zenon DEF RecordOutcome
<1>3. Inserts(entries, p, healed, now)
  BY <1>1, <1>2, UpsertCandidateLemma
<1>4. /\ IsPeerMap(healed.entries, PeerEntry) /\ AllSound(healed.entries, clock)
  BY <1>1, <1>3 DEF Inserts
<1>5. CASE p \notin DOMAIN healed.entries
  BY <1>2, <1>3, <1>4, <1>5
<1>6. CASE p \in DOMAIN healed.entries
  <2> DEFINE old == healed.entries[p]
  <2>1. old \in PeerEntry
    BY <1>4, <1>6 DEF IsPeerMap
  <2>2. PICK e \in Learned(old, result) :
          entries' = [healed.entries EXCEPT ![p] = Settled(e, MaxOf(at, now))]
    BY <1>2, <1>6
  <2> DEFINE new == Settled(e, MaxOf(at, now))
  <2>3. MaxOf(at, now) \in Nat
    BY <1>1, SMT DEF MaxOf
  <2> HIDE DEF old
  <2>4. /\ e.standing # "cold"
        /\ old.standing \in {"bad", "redeemed"} => e.standing \in {"bad", "redeemed"}
    BY <2>1, LearnedLemma
  <2>5. /\ new \in PeerEntry
        /\ new.connected = old.connected /\ new.banned = old.banned
        /\ new.standing = e.standing
        /\ new.in_flight >= old.in_flight - 1
        /\ \A t \in Nat : Sound(old, t) => Sound(new, t)
    BY <2>1, <2>3, RecordEntryLemma
  <2> HIDE DEF new
  <2>6. /\ IsPeerMap(entries', PeerEntry) /\ DOMAIN entries' = DOMAIN healed.entries
        /\ entries'[p] = new
        /\ \A q \in DOMAIN entries' \ {p} : entries'[q] = healed.entries[q]
    BY <1>4, <1>6, <2>2, <2>5, Zenon DEF IsPeerMap, new
  <2>7. AllSound(entries', clock)
    BY <1>1, <1>4, <1>6, <2>5, <2>6 DEF AllSound, old
  <2>8. /\ entries'[p].connected = healed.entries[p].connected
        /\ entries'[p].banned = healed.entries[p].banned
        /\ entries'[p].standing # "cold"
        /\ healed.entries[p].standing \in {"bad", "redeemed"} =>
             entries'[p].standing \in {"bad", "redeemed"}
        /\ entries'[p].in_flight >= healed.entries[p].in_flight - 1
    BY <2>4, <2>5, <2>6 DEF old
  <2> QED BY <1>2, <1>3, <2>6, <2>7, <2>8
<1> QED BY <1>5, <1>6

LEMMA RecordOutcomeStep ==
  ASSUME IInv, NEW p \in Peer, NEW result, NEW now \in Recent, NEW at \in Recent,
         RecordOutcome(p, result, at, now)
  PROVE  IInv'
<1>1. PICK healed \in UpsertCandidate(entries, p, now) :
        /\ Inserts(entries, p, healed, now)
        /\ last_selected' = Without(last_selected, healed.shed)
        /\ dispatched' = dispatched \ (healed.shed \cup {p})
        /\ IsPeerMap(entries', PeerEntry)
        /\ DOMAIN entries' = DOMAIN healed.entries
        /\ AllSound(entries', clock)
  BY RecordOutcomeFacts
<1>2. /\ TypeOK /\ SideMapsTracked
      /\ IsPeerMap(last_selected, 0..(EpochModulus - 1))
  BY IInvFacts DEF TypeOK
<1>3. /\ IsPeerMap(last_selected', 0..(EpochModulus - 1))
      /\ DOMAIN last_selected' = DOMAIN last_selected \ healed.shed
  <2> DEFINE kept == Without(last_selected, healed.shed)
  <2>1. IsPeerMap(last_selected, 0..(EpochModulus - 1)) /\ last_selected' = kept
    BY <1>1, <1>2
  <2>2. IsPeerMap(kept, 0..(EpochModulus - 1))
    BY <2>1, WithoutLemma, Zenon
  <2>3. DOMAIN kept = DOMAIN last_selected \ healed.shed
    BY Zenon DEF Without
  <2> HIDE DEF kept
  <2> QED BY <2>1, <2>2, <2>3
<1>4. /\ evicted' = evicted /\ epoch' = epoch /\ clock' = clock /\ call' = Idle /\ call = Idle
  BY DEF RecordOutcome
<1>5. TypeOK'
  BY <1>1, <1>2, <1>3, <1>4 DEF TypeOK
<1>6. SideMapsTracked'
  BY <1>1, <1>2, <1>3, <1>4 DEF SideMapsTracked, Inserts
<1>7. AllSound(entries', clock')
  BY <1>1, <1>4
<1>8. CallInPast'
  BY <1>4 DEF CallInPast
<1> QED BY <1>5, <1>6, <1>7, <1>8, IInvNext

\* The three calls that may insert a peer and prune at once.
LEMMA FeedInsertFacts ==
  ASSUME IInv, NEW p \in Peer, NEW now \in Recent,
         PeerAdded(p, now) \/ OnConnectionClass(p, now) \/ UpsertManual(p, now)
  PROVE  \E result : Inserts(entries, p, result, now) /\ Absorb(result)
<1>1. IsPeerMap(entries, PeerEntry) /\ now \in Nat
  BY IInvFacts
<1>2. PICK result :
        /\ Absorb(result)
        /\ \/ result \in MarkConnected(entries, p, now)
           \/ result \in SetConnectionClass(entries, p, now)
           \/ result \in UpsertCandidate(entries, p, now)
  BY Zenon DEF PeerAdded, OnConnectionClass, UpsertManual
<1>3. Inserts(entries, p, result, now)
  BY <1>1, <1>2, MarkConnectedLemma, SetConnectionClassLemma, UpsertCandidateLemma
<1> QED BY <1>2, <1>3

LEMMA FeedInsertStep ==
  ASSUME IInv, NEW p \in Peer, NEW now \in Recent,
         PeerAdded(p, now) \/ OnConnectionClass(p, now) \/ UpsertManual(p, now)
  PROVE  IInv'
<1>1. PICK result : Inserts(entries, p, result, now) /\ Absorb(result)
  BY FeedInsertFacts
<1>2. call = Idle /\ UNCHANGED <<epoch, clock, call>>
  BY DEF PeerAdded, OnConnectionClass, UpsertManual
<1> QED BY <1>1, <1>2, AbsorbStep

\* What a disconnection and a dispatch do to the one entry they concern.
LEMMA PeerRemovedFacts ==
  ASSUME IInv, NEW p \in Peer, NEW banned \in BOOLEAN, PeerRemoved(p, banned)
  PROVE  /\ IsPeerMap(entries', PeerEntry) /\ DOMAIN entries' = DOMAIN entries
         /\ \A q \in DOMAIN entries : Kept(entries[q], entries'[q], clock)
         /\ AllSound(entries', clock)
<1>1. IsPeerMap(entries, PeerEntry) /\ AllSound(entries, clock) /\ clock \in Nat
  BY IInvFacts
<1>2. CASE p \notin DOMAIN entries
  BY <1>1, <1>2 DEF PeerRemoved, MarkDisconnected, Kept
<1>3. CASE p \in DOMAIN entries
  <2> DEFINE f == Disconnected(entries[p], banned)
  <2>1. entries' = [entries EXCEPT ![p] = f]
    BY <1>3 DEF PeerRemoved, MarkDisconnected
  <2>2. entries[p] \in PeerEntry
    BY <1>1, <1>3 DEF IsPeerMap
  <2>3. /\ f \in PeerEntry /\ Kept(entries[p], f, clock)
        /\ \A t \in Nat : Sound(entries[p], t) => Sound(f, t)
    BY <2>2, DisconnectedLemma
  <2> HIDE DEF f
  <2> QED BY <1>1, <1>3, <2>1, <2>3, ReplaceLemma
<1> QED BY <1>2, <1>3

LEMMA PeerRemovedStep ==
  ASSUME IInv, NEW p \in Peer, NEW banned \in BOOLEAN, PeerRemoved(p, banned)
  PROVE  IInv'
<1>1. /\ TypeOK /\ SideMapsTracked /\ CallInPast
      /\ IsPeerMap(entries', PeerEntry) /\ DOMAIN entries' = DOMAIN entries
      /\ AllSound(entries', clock)
  BY IInvFacts, PeerRemovedFacts
<1>2. UNCHANGED <<evicted, last_selected, dispatched, epoch, clock, call>>
  BY DEF PeerRemoved
<1>3. TypeOK' /\ SideMapsTracked' /\ CallInPast' /\ AllSound(entries', clock')
  BY <1>1, <1>2 DEF TypeOK, SideMapsTracked, CallInPast
<1> QED BY <1>3, IInvNext

LEMMA OnDispatchFacts ==
  ASSUME IInv, NEW p \in Peer, NEW count \in Nat, NEW now \in Recent,
         OnDispatch(p, count, now)
  PROVE  /\ IsPeerMap(entries', PeerEntry) /\ DOMAIN entries' = DOMAIN entries
         /\ \A q \in DOMAIN entries :
              /\ entries'[q].connected = entries[q].connected
              /\ entries'[q].banned = entries[q].banned
              /\ entries'[q].standing = entries[q].standing
              /\ entries'[q].in_flight >= entries[q].in_flight
         /\ AllSound(entries', clock)
<1>1. /\ IsPeerMap(entries, PeerEntry) /\ AllSound(entries, clock) /\ clock \in Nat
      /\ now \in Nat /\ now <= clock
      /\ \A q \in DOMAIN entries : entries[q] \in PeerEntry
  BY IInvFacts
<1> DEFINE f == AddInFlight(entries[p], count, now)
<1>2. p \in DOMAIN entries /\ entries' = [entries EXCEPT ![p] = f]
  BY DEF OnDispatch
<1>3. /\ f \in PeerEntry /\ SameHistory(entries[p], f)
      /\ f.in_flight >= entries[p].in_flight
      /\ \A t \in Nat : now <= t /\ Sound(entries[p], t) => Sound(f, t)
  BY <1>1, <1>2, AddInFlightLemma
<1> HIDE DEF f
<1>4. /\ IsPeerMap(entries', PeerEntry) /\ DOMAIN entries' = DOMAIN entries
      /\ entries'[p] = f
      /\ \A q \in DOMAIN entries \ {p} : entries'[q] = entries[q]
  BY <1>1, <1>2, <1>3, Zenon DEF IsPeerMap
<1>5. \A q \in DOMAIN entries : entries[q].in_flight >= entries[q].in_flight
  BY <1>1, BoundsAssumption, SMT DEF PeerEntry
<1>6. \A q \in DOMAIN entries :
        /\ entries'[q].connected = entries[q].connected
        /\ entries'[q].banned = entries[q].banned
        /\ entries'[q].standing = entries[q].standing
        /\ entries'[q].in_flight >= entries[q].in_flight
  BY <1>3, <1>4, <1>5, Zenon DEF SameHistory
<1>7. AllSound(entries', clock)
  BY <1>1, <1>2, <1>3, <1>4 DEF AllSound
<1> QED BY <1>4, <1>6, <1>7

LEMMA OnDispatchStep ==
  ASSUME IInv, NEW p \in Peer, NEW count \in Nat, NEW now \in Recent,
         OnDispatch(p, count, now)
  PROVE  IInv'
<1>1. /\ TypeOK /\ SideMapsTracked /\ CallInPast
      /\ IsPeerMap(entries', PeerEntry) /\ DOMAIN entries' = DOMAIN entries
      /\ AllSound(entries', clock)
  BY IInvFacts, OnDispatchFacts
<1>2. UNCHANGED <<evicted, last_selected, dispatched, epoch, clock, call>>
  BY DEF OnDispatch
<1>3. TypeOK' /\ SideMapsTracked' /\ CallInPast' /\ AllSound(entries', clock')
  BY <1>1, <1>2 DEF TypeOK, SideMapsTracked, CallInPast
<1> QED BY <1>3, IInvNext

\* remove_peer drops an idle entry or does nothing but drain.
LEMMA RemovePeerFacts ==
  ASSUME IInv, NEW p \in Peer, RemovePeer(p)
  PROVE  \E gone \in SUBSET DOMAIN entries :
           /\ gone = {} \/ (gone = {p} /\ entries[p].in_flight = 0)
           /\ entries' = Without(entries, gone)
           /\ evicted' = {}
           /\ last_selected' = Without(last_selected, evicted \cup gone)
           /\ dispatched' = dispatched \ (evicted \cup gone)
<1>1. IsPeerMap(entries, PeerEntry)
  BY IInvFacts
<1>2. Absorb(RemovePeerEntry(entries, p))
  BY DEF RemovePeer
<1>3. CASE p \in DOMAIN entries /\ entries[p].in_flight = 0
  <2>1. RemovePeerEntry(entries, p) = [entries |-> Without(entries, {p}), shed |-> {p}]
    BY <1>3 DEF RemovePeerEntry
  <2>2. /\ entries' = Without(entries, {p}) /\ evicted' = {}
        /\ last_selected' = Without(last_selected, evicted \cup {p})
        /\ dispatched' = dispatched \ (evicted \cup {p})
    BY <1>2, <2>1 DEF Absorb
  <2>3. {p} \in SUBSET DOMAIN entries
    BY <1>3
  <2> QED BY <1>3, <2>2, <2>3, Zenon
<1>4. CASE ~(p \in DOMAIN entries /\ entries[p].in_flight = 0)
  <2>1. RemovePeerEntry(entries, p) = [entries |-> entries, shed |-> {}]
    BY <1>4 DEF RemovePeerEntry
  <2>2. Without(entries, {}) = entries
    BY <1>1, WithoutNothing
  <2> QED BY <1>2, <2>1, <2>2 DEF Absorb
<1> QED BY <1>3, <1>4

LEMMA RemovePeerStep ==
  ASSUME IInv, NEW p \in Peer, RemovePeer(p)
  PROVE  IInv'
<1>1. PICK gone \in SUBSET DOMAIN entries :
           /\ entries' = Without(entries, gone)
           /\ evicted' = {}
           /\ last_selected' = Without(last_selected, evicted \cup gone)
           /\ dispatched' = dispatched \ (evicted \cup gone)
  BY RemovePeerFacts
<1>2. /\ TypeOK /\ SideMapsTracked /\ CallInPast
      /\ AllSound(entries, clock) /\ IsPeerMap(entries, PeerEntry)
      /\ IsPeerMap(last_selected, 0..(EpochModulus - 1))
  BY IInvFacts DEF TypeOK
<1>3. /\ IsPeerMap(entries', PeerEntry) /\ DOMAIN entries' = DOMAIN entries \ gone
      /\ \A q \in DOMAIN entries \ gone : entries'[q] = entries[q]
  BY <1>1, <1>2, WithoutLemma, Zenon
<1>4. /\ IsPeerMap(last_selected', 0..(EpochModulus - 1))
      /\ DOMAIN last_selected' = DOMAIN last_selected \ (evicted \cup gone)
  BY <1>1, <1>2, WithoutLemma, Zenon
<1>5. UNCHANGED <<epoch, clock, call>>
  BY DEF RemovePeer
<1>6. TypeOK'
  BY <1>1, <1>2, <1>3, <1>4, <1>5 DEF TypeOK
<1>7. SideMapsTracked'
  BY <1>1, <1>2, <1>3, <1>4, <1>5 DEF SideMapsTracked
<1>8. AllSound(entries', clock')
  BY <1>2, <1>3, <1>5 DEF AllSound
<1>9. CallInPast'
  BY <1>2, <1>5 DEF CallInPast
<1> QED BY <1>6, <1>7, <1>8, <1>9, IInvNext

-----------------------------------------------------------------------------
(* What no step does *)

\* The seven action properties in one, to go through the actions once.
Guarded == /\ DropsNoLiveLink /\ ShedsBusyLast /\ KeepsWorth /\ RestoresBound
           /\ KeepsLearning /\ HoldsBan /\ ReclaimsNotEarly

\* A step that drops nobody but a peer removed by name while it is idle.
DropsIdleOnly ==
  \A q \in DOMAIN entries \ DOMAIN entries' :
     ~Busy(entries[q]) /\ RemovePeer(q)

\* An eviction of the loop, seen from the state before the call.
ShedsInOrder ==
  \A v \in DOMAIN entries \ DOMAIN entries' :
    /\ Busy(entries[v]) /\ clock - entries[v].in_flight_since < DispatchTTL =>
         \A k \in DOMAIN entries' : entries'[k].connected \/ Busy(entries'[k])
    /\ \A k \in DOMAIN entries \cap DOMAIN entries' :
         ~Busy(entries[v]) /\ ~entries'[k].connected /\ ~Busy(entries'[k])
           => \/ entries[v].worth <= entries[k].worth
              \/ entries[v].reference < entries[k].reference

\* The part of them that concerns an entry registered before and after.
Retained(e, f) ==
  /\ e.standing # "cold" => f.standing # "cold"
  /\ e.standing \in {"bad", "redeemed"} => f.standing \in {"bad", "redeemed"}
  /\ e.banned => f.banned \/ f.connected
  /\ f.in_flight >= e.in_flight - 1 \/ clock - e.in_flight_since >= DispatchTTL

\* The part that concerns the side maps: a banned peer gains nothing.
NoGain(P) ==
  \A p \in P :
    /\ p \in dispatched' => p \in dispatched
    /\ p \in DOMAIN last_selected' =>
         p \in DOMAIN last_selected /\ last_selected'[p] = last_selected[p]

LEMMA GuardedLemma ==
  ASSUME IInv, IsPeerMap(entries', PeerEntry), DropsNoLiveLink, RestoresBound,
         DropsIdleOnly \/ ShedsInOrder,
         \A q \in DOMAIN entries \cap DOMAIN entries' : Retained(entries[q], entries'[q]),
         NoGain({q \in DOMAIN entries : entries[q].banned})
  PROVE  Guarded
<1>1. KeepsLearning
  BY DEF KeepsLearning, Retained
<1>2. HoldsBan
  BY DEF HoldsBan, Retained, NoGain
<1>3. ReclaimsNotEarly
  <2>1. \A q \in DOMAIN entries \cap DOMAIN entries' :
          entries[q].in_flight \in Int /\ entries'[q].in_flight \in Int
    BY BoundsAssumption, SMT DEF IInv, TypeOK, IsPeerMap, PeerEntry
  <2> QED BY <2>1, SMT DEF ReclaimsNotEarly, Retained
<1>4. ShedsBusyLast /\ KeepsWorth
  BY DEF ShedsBusyLast, KeepsWorth, DropsIdleOnly, ShedsInOrder
<1> QED BY <1>1, <1>2, <1>3, <1>4 DEF Guarded

\* A stamp found stale at a past `now` is a whole TTL old at the clock.
LEMMA StaleLemma ==
  ASSUME IInv, NEW e \in PeerEntry, NEW now \in Nat, now <= clock, IsStale(e, now)
  PROVE  clock - e.in_flight_since >= DispatchTTL
<1>1. clock \in Nat
  BY IInvFacts
<1>2. e.in_flight_since \in Nat
  BY DEF IsStale, PeerEntry
<1> QED BY <1>1, <1>2, BoundsAssumption, SMT DEF IsStale

LEMMA RetainedLemma ==
  ASSUME IInv, NEW e \in PeerEntry, NEW f \in PeerEntry, NEW now \in Nat, now <= clock,
         Kept(e, f, now) \/ Served(e, f, now)
  PROVE  Retained(e, f)
<1>1. e.in_flight \in Nat /\ f.in_flight \in Nat
  BY BoundsAssumption, SMT DEF PeerEntry
<1>2. f.in_flight >= e.in_flight - 1 \/ clock - e.in_flight_since >= DispatchTTL
  <2>1. CASE IsStale(e, now)
    BY <2>1, StaleLemma
  <2>2. CASE ~IsStale(e, now)
    BY <1>1, <2>2, SMT DEF Kept, Lapses, Served
  <2> QED BY <2>1, <2>2
<1>3. /\ f.standing = e.standing
      /\ e.banned => f.banned \/ f.connected
  BY DEF Kept, Served
<1> QED BY <1>2, <1>3 DEF Retained

\* A call that may insert a peer sheds in order: what was fresh work at its
\* past `now` or is so at the clock is not stale there.
LEMMA InOrderLemma ==
  ASSUME IInv, NEW p \in Peer, NEW now \in Nat, now <= clock,
         NEW registry,
         \A v \in DOMAIN entries \ DOMAIN registry, k \in DOMAIN registry :
           Spares(entries[v], registry[k], now),
         \A q \in DOMAIN entries \cap DOMAIN registry : Kept(entries[q], registry[q], now),
         \A q \in DOMAIN registry : registry[q] \in PeerEntry,
         p \in DOMAIN registry \ DOMAIN entries => registry[p].in_flight = 0,
         DOMAIN entries' = DOMAIN registry,
         \A q \in DOMAIN registry \ {p} : entries'[q] = registry[q],
         p \in DOMAIN registry => entries'[p].connected = registry[p].connected,
         p \in DOMAIN entries \cap DOMAIN registry => DOMAIN registry = DOMAIN entries
                                                   \/ entries'[p] = registry[p]
  PROVE  ShedsInOrder
<1>1. \A q \in DOMAIN entries : entries[q] \in PeerEntry
  BY IInvFacts
<1> SUFFICES ASSUME NEW v \in DOMAIN entries \ DOMAIN registry
             PROVE
    /\ Busy(entries[v]) /\ clock - entries[v].in_flight_since < DispatchTTL =>
         \A k \in DOMAIN registry : entries'[k].connected \/ Busy(entries'[k])
    /\ \A k \in DOMAIN entries \cap DOMAIN registry :
         ~Busy(entries[v]) /\ ~entries'[k].connected /\ ~Busy(entries'[k])
           => \/ entries[v].worth <= entries[k].worth
              \/ entries[v].reference < entries[k].reference
  BY DEF ShedsInOrder
<1>2. \A k \in DOMAIN entries \cap DOMAIN registry : entries'[k] = registry[k]
  OBVIOUS
<1>3. ASSUME Busy(entries[v]), clock - entries[v].in_flight_since < DispatchTTL,
             NEW k \in DOMAIN registry
      PROVE  entries'[k].connected \/ Busy(entries'[k])
  <2>1. clock \in Nat
    BY IInvFacts
  <2>2. ~IsStale(entries[v], now)
    <3>1. SUFFICES ASSUME IsStale(entries[v], now) PROVE FALSE
      OBVIOUS
    <3>2. clock - entries[v].in_flight_since >= DispatchTTL
      BY <1>1, <3>1, StaleLemma
    <3>3. entries[v].in_flight_since \in Nat
      BY <1>1, <3>1 DEF IsStale, PeerEntry
    <3> QED BY <1>3, <2>1, <3>2, <3>3, BoundsAssumption, SMT
  <2>3. registry[k].connected \/ registry[k].in_flight > 0
    BY <1>3, <2>2 DEF Spares, Busy
  <2>4. CASE k # p \/ p \in DOMAIN entries
    BY <1>2, <2>3, <2>4 DEF Busy
  <2>5. CASE k = p /\ p \notin DOMAIN entries
    <3>1. registry[p].in_flight = 0
      BY <2>5
    <3>2. registry[p].connected
      BY <2>3, <2>5, <3>1, SMT
    <3> QED BY <2>5, <3>2
  <2> QED BY <2>4, <2>5
<1>4. ASSUME NEW k \in DOMAIN entries \cap DOMAIN registry,
             ~Busy(entries[v]), ~entries'[k].connected, ~Busy(entries'[k])
      PROVE  entries[v].worth <= entries[k].worth \/ entries[v].reference < entries[k].reference
  <2>1. entries'[k] = registry[k] /\ Kept(entries[k], registry[k], now)
    BY <1>2
  <2>2. entries[v].in_flight = 0 /\ registry[k].in_flight = 0
    BY <1>1, <1>4, <2>1, BoundsAssumption, SMT DEF Busy, PeerEntry
  <2>3. entries[v].worth <= registry[k].worth \/ entries[v].reference < registry[k].reference
    BY <1>4, <2>1, <2>2 DEF Spares
  <2> QED BY <2>1, <2>3 DEF Kept
<1> QED BY <1>3, <1>4

\* Pruning gives nobody anything.
LEMMA PruneLemma ==
  ASSUME IInv, NEW P, NEW gone, last_selected' = Without(last_selected, gone),
         dispatched' \subseteq dispatched
  PROVE  NoGain(P)
<1>1. /\ DOMAIN Without(last_selected, gone) = DOMAIN last_selected \ gone
      /\ \A q \in DOMAIN last_selected \ gone :
           Without(last_selected, gone)[q] = last_selected[q]
  BY Zenon DEF Without
<1> QED BY <1>1 DEF NoGain

\* A call that may insert a peer.
LEMMA InsertGuarded ==
  ASSUME IInv, NEW p \in Peer, NEW now \in Recent,
         NEW result, Inserts(entries, p, result, now), entries' = result.entries,
         NoGain({q \in DOMAIN entries : entries[q].banned})
  PROVE  Guarded
<1>1. /\ now \in Nat /\ now <= clock
      /\ \A q \in DOMAIN entries : entries[q] \in PeerEntry
  BY IInvFacts
<1>2. IsPeerMap(entries', PeerEntry)
  BY DEF Inserts
<1>3. \A q \in DOMAIN entries' : entries'[q] \in PeerEntry
  BY <1>2 DEF IsPeerMap
<1>4. DropsNoLiveLink
  BY DEF DropsNoLiveLink, Inserts
<1>5. RestoresBound
  BY DEF RestoresBound, Inserts
<1>6. \A q \in DOMAIN entries \cap DOMAIN entries' : Retained(entries[q], entries'[q])
  BY <1>1, <1>3, RetainedLemma DEF Inserts
<1>7. ShedsInOrder
  <2>1. p \in DOMAIN entries \cap DOMAIN entries' => entries'[p] = result.entries[p]
    OBVIOUS
  <2> QED BY <1>1, <1>3, <2>1, InOrderLemma DEF Inserts
<1> QED BY <1>2, <1>4, <1>5, <1>6, <1>7, GuardedLemma

\* A call that keeps the registered peers.
LEMMA SameDomainGuarded ==
  ASSUME IInv, IsPeerMap(entries', PeerEntry), DOMAIN entries' = DOMAIN entries,
         \A q \in DOMAIN entries : Retained(entries[q], entries'[q]),
         NoGain({q \in DOMAIN entries : entries[q].banned})
  PROVE  Guarded
<1>1. DropsNoLiveLink /\ RestoresBound /\ DropsIdleOnly
  BY DEF DropsNoLiveLink, RestoresBound, DropsIdleOnly
<1> QED BY <1>1, GuardedLemma

\* A selection.
LEMMA ServeGuarded ==
  ASSUME IInv, NEW now \in Nat, now <= clock, NEW pool, NEW gone,
         NEW chosen \in SUBSET EligiblePool(entries, pool),
         Serves(entries, Without(last_selected, gone), dispatched \ gone, chosen, now)
  PROVE  Guarded
<1>1. /\ IsPeerMap(entries', PeerEntry) /\ DOMAIN entries' = DOMAIN entries
      /\ \A q \in DOMAIN entries : Served(entries[q], entries'[q], now)
      /\ DOMAIN last_selected' = DOMAIN Without(last_selected, gone) \cup chosen
      /\ \A q \in DOMAIN Without(last_selected, gone) \ chosen :
           last_selected'[q] = Without(last_selected, gone)[q]
      /\ dispatched' = (dispatched \ gone) \cup chosen
  BY DEF Serves
<1>2. \A q \in DOMAIN entries : entries[q] \in PeerEntry /\ entries'[q] \in PeerEntry
  BY <1>1, IInvFacts DEF IsPeerMap
<1>3. \A q \in DOMAIN entries : Retained(entries[q], entries'[q])
  BY <1>1, <1>2, RetainedLemma
<1>4. \A q \in chosen : q \in DOMAIN entries /\ ~entries[q].banned
  BY DEF EligiblePool, IsEligible
<1>5. /\ DOMAIN Without(last_selected, gone) = DOMAIN last_selected \ gone
      /\ \A q \in DOMAIN last_selected \ gone :
           Without(last_selected, gone)[q] = last_selected[q]
  BY Zenon DEF Without
<1>6. NoGain({q \in DOMAIN entries : entries[q].banned})
  BY <1>1, <1>4, <1>5 DEF NoGain
<1> QED BY <1>1, <1>3, <1>6, SameDomainGuarded

\* A step that leaves the entries alone.
LEMMA EntriesUnchangedGuarded ==
  ASSUME IInv, entries' = entries, last_selected' = last_selected, dispatched' = dispatched
  PROVE  Guarded
<1>1. /\ IsPeerMap(entries, PeerEntry) /\ clock \in Nat
      /\ \A q \in DOMAIN entries : entries[q] \in PeerEntry
  BY IInvFacts
<1>2. \A q \in DOMAIN entries : Kept(entries[q], entries[q], clock)
  BY DEF Kept
<1>3. \A q \in DOMAIN entries : Retained(entries[q], entries'[q])
  BY <1>1, <1>2, RetainedLemma
<1>4. NoGain({q \in DOMAIN entries : entries[q].banned})
  BY DEF NoGain
<1> QED BY <1>1, <1>3, <1>4, SameDomainGuarded

LEMMA SelectUpsertGuarded ==
  ASSUME IInv, NEW p \in Peer, SelectUpsert(p)
  PROVE  Guarded
<1>1. /\ TypeOK /\ CallInPast /\ clock \in Nat /\ IsPeerMap(entries, PeerEntry)
  BY IInvFacts
<1>2. call \in Call /\ call # Idle /\ call.now \in 0..MaxClock /\ call.now <= clock
  BY <1>1 DEF SelectUpsert, TypeOK, CallInPast, Call
<1>3. call.now \in Nat
  BY <1>2, EngineAssumption, SMT
<1>4. PICK result \in UpsertCandidate(entries, p, call.now) : entries' = result.entries
  BY DEF SelectUpsert
<1>5. Inserts(entries, p, result, call.now)
  BY <1>1, <1>3, <1>4, UpsertCandidateLemma
<1>6. NoGain({q \in DOMAIN entries : entries[q].banned})
  BY DEF SelectUpsert, NoGain
<1>7. IsPeerMap(entries', PeerEntry)
  BY <1>4, <1>5 DEF Inserts
<1>8. DropsNoLiveLink /\ RestoresBound
  BY <1>4, <1>5 DEF DropsNoLiveLink, RestoresBound, Inserts
<1>9. \A q \in DOMAIN entries \cap DOMAIN entries' : Retained(entries[q], entries'[q])
  <2>1. \A q \in DOMAIN entries \cap DOMAIN entries' :
          /\ entries[q] \in PeerEntry /\ entries'[q] \in PeerEntry
          /\ Kept(entries[q], entries'[q], call.now)
    BY <1>1, <1>4, <1>5, <1>7 DEF Inserts, IsPeerMap
  <2> QED BY <1>2, <1>3, <2>1, RetainedLemma
<1>10. ShedsInOrder
  <2>1. \A q \in DOMAIN entries' : entries'[q] \in PeerEntry
    BY <1>7 DEF IsPeerMap
  <2> QED BY <1>2, <1>3, <1>4, <1>5, <2>1, InOrderLemma DEF Inserts
<1> QED BY <1>6, <1>7, <1>8, <1>9, <1>10, GuardedLemma

LEMMA RecordOutcomeGuarded ==
  ASSUME IInv, NEW p \in Peer, NEW result, NEW now \in Recent, NEW at \in Recent,
         RecordOutcome(p, result, at, now)
  PROVE  Guarded
<1>1. PICK healed \in UpsertCandidate(entries, p, now) :
           /\ Inserts(entries, p, healed, now)
           /\ last_selected' = Without(last_selected, healed.shed)
           /\ dispatched' = dispatched \ (healed.shed \cup {p})
           /\ IsPeerMap(entries', PeerEntry)
           /\ DOMAIN entries' = DOMAIN healed.entries
           /\ \A q \in DOMAIN entries' \ {p} : entries'[q] = healed.entries[q]
           /\ p \in DOMAIN entries' =>
                /\ entries'[p].connected = healed.entries[p].connected
                /\ entries'[p].banned = healed.entries[p].banned
                /\ entries'[p].standing # "cold"
                /\ healed.entries[p].standing \in {"bad", "redeemed"} =>
                     entries'[p].standing \in {"bad", "redeemed"}
                /\ entries'[p].in_flight >= healed.entries[p].in_flight - 1
  BY RecordOutcomeFacts
<1>2. /\ now \in Nat /\ now <= clock
      /\ \A q \in DOMAIN entries : entries[q] \in PeerEntry
  BY IInvFacts
<1>3. \A q \in DOMAIN entries' :
        healed.entries[q] \in PeerEntry /\ entries'[q] \in PeerEntry
  BY <1>1 DEF Inserts, IsPeerMap
<1>4. \A q \in DOMAIN entries \cap DOMAIN entries' : Retained(entries[q], healed.entries[q])
  BY <1>1, <1>2, <1>3, RetainedLemma DEF Inserts
<1>5. p \in DOMAIN entries => \A q \in DOMAIN entries : healed.entries[q] = entries[q]
  BY <1>1 DEF UpsertCandidate, Unchanged
<1>6. ASSUME p \in DOMAIN entries \cap DOMAIN entries' PROVE Retained(entries[p], entries'[p])
  BY <1>1, <1>5, <1>6 DEF Retained
<1>7. \A q \in DOMAIN entries \cap DOMAIN entries' : Retained(entries[q], entries'[q])
  BY <1>1, <1>4, <1>6
<1>8. DropsNoLiveLink
  BY <1>1 DEF DropsNoLiveLink, Inserts
<1>9. RestoresBound
  <2>1. \A q \in DOMAIN entries' : entries'[q].connected = healed.entries[q].connected
    BY <1>1
  <2> QED BY <1>1, <2>1 DEF RestoresBound, Inserts
<1>10. NoGain({q \in DOMAIN entries : entries[q].banned})
  BY <1>1, PruneLemma
<1>11. ShedsInOrder
  <2>1. p \in DOMAIN entries => DOMAIN healed.entries = DOMAIN entries
    BY <1>1 DEF UpsertCandidate, Unchanged
  <2> QED BY <1>1, <1>2, <1>3, <2>1, InOrderLemma DEF Inserts
<1> QED BY <1>1, <1>7, <1>8, <1>9, <1>10, <1>11, GuardedLemma

LEMMA FeedInsertGuarded ==
  ASSUME IInv, NEW p \in Peer, NEW now \in Recent,
         PeerAdded(p, now) \/ OnConnectionClass(p, now) \/ UpsertManual(p, now)
  PROVE  Guarded
<1>1. PICK result : Inserts(entries, p, result, now) /\ Absorb(result)
  BY FeedInsertFacts
<1>2. NoGain({q \in DOMAIN entries : entries[q].banned})
  BY <1>1, PruneLemma DEF Absorb
<1> QED BY <1>1, <1>2, InsertGuarded DEF Absorb

LEMMA PeerRemovedGuarded ==
  ASSUME IInv, NEW p \in Peer, NEW banned \in BOOLEAN, PeerRemoved(p, banned)
  PROVE  Guarded
<1>1. /\ IsPeerMap(entries', PeerEntry) /\ DOMAIN entries' = DOMAIN entries
      /\ \A q \in DOMAIN entries : Kept(entries[q], entries'[q], clock)
  BY PeerRemovedFacts
<1>2. clock \in Nat /\ \A q \in DOMAIN entries : entries[q] \in PeerEntry
  BY IInvFacts
<1>3. \A q \in DOMAIN entries : Retained(entries[q], entries'[q])
  BY <1>1, <1>2, RetainedLemma DEF IsPeerMap
<1>4. NoGain({q \in DOMAIN entries : entries[q].banned})
  BY DEF PeerRemoved, NoGain
<1> QED BY <1>1, <1>3, <1>4, SameDomainGuarded

LEMMA OnDispatchGuarded ==
  ASSUME IInv, NEW p \in Peer, NEW count \in Nat, NEW now \in Recent,
         OnDispatch(p, count, now)
  PROVE  Guarded
<1>1. /\ IsPeerMap(entries', PeerEntry) /\ DOMAIN entries' = DOMAIN entries
      /\ \A q \in DOMAIN entries :
           /\ entries'[q].connected = entries[q].connected
           /\ entries'[q].banned = entries[q].banned
           /\ entries'[q].standing = entries[q].standing
           /\ entries'[q].in_flight >= entries[q].in_flight
  BY OnDispatchFacts
<1>2. clock \in Nat /\ \A q \in DOMAIN entries : entries[q] \in PeerEntry
  BY IInvFacts
<1>3. \A q \in DOMAIN entries : Served(entries[q], entries'[q], clock)
  BY <1>1 DEF Served
<1>4. \A q \in DOMAIN entries : Retained(entries[q], entries'[q])
  BY <1>1, <1>2, <1>3, RetainedLemma DEF IsPeerMap
<1>5. NoGain({q \in DOMAIN entries : entries[q].banned})
  BY DEF OnDispatch, NoGain
<1> QED BY <1>1, <1>4, <1>5, SameDomainGuarded

LEMMA RemovePeerGuarded ==
  ASSUME IInv, NEW p \in Peer, RemovePeer(p)
  PROVE  Guarded
<1>1. PICK gone \in SUBSET DOMAIN entries :
        /\ gone = {} \/ (gone = {p} /\ entries[p].in_flight = 0)
        /\ entries' = Without(entries, gone)
        /\ last_selected' = Without(last_selected, evicted \cup gone)
        /\ dispatched' = dispatched \ (evicted \cup gone)
  BY RemovePeerFacts
<1>2. /\ IsPeerMap(entries, PeerEntry) /\ clock \in Nat
      /\ \A q \in DOMAIN entries : entries[q] \in PeerEntry
  BY IInvFacts
<1>3. /\ IsPeerMap(entries', PeerEntry) /\ DOMAIN entries' = DOMAIN entries \ gone
      /\ \A q \in DOMAIN entries \ gone : entries'[q] = entries[q]
  <2>1. IsPeerMap(entries, PeerEntry) /\ entries' = Without(entries, gone)
    BY <1>1, <1>2
  <2> QED BY <2>1, WithoutLemma, Zenon
<1>4. \A q \in DOMAIN entries : Kept(entries[q], entries[q], clock)
  BY DEF Kept
<1>5. \A q \in DOMAIN entries \cap DOMAIN entries' : Retained(entries[q], entries'[q])
  BY <1>2, <1>3, <1>4, RetainedLemma
<1>6. DropsNoLiveLink /\ DropsIdleOnly
  <2>1. \A q \in gone : ~Busy(entries[q]) /\ DOMAIN entries' = DOMAIN entries \ {q}
    BY <1>1, <1>3, SMT DEF Busy
  <2>2. \A q \in gone : RemovePeer(q)
    BY <1>1
  <2> QED BY <1>3, <2>1, <2>2 DEF DropsNoLiveLink, DropsIdleOnly
<1>7. RestoresBound
  BY <1>3 DEF RestoresBound
<1>8. NoGain({q \in DOMAIN entries : entries[q].banned})
  BY <1>1, PruneLemma
<1> QED BY <1>3, <1>5, <1>6, <1>7, <1>8, GuardedLemma

-----------------------------------------------------------------------------
(* Every step *)

\* Every step keeps the invariant and does nothing that is guarded against.
LEMMA NextLemma ==
  ASSUME IInv, [Next]_vars
  PROVE  IInv' /\ (Guarded \/ UNCHANGED vars)
<1>1. CASE UNCHANGED vars
  <2>1. /\ TypeOK /\ SideMapsTracked /\ CallInPast /\ AllSound(entries, clock)
    BY IInvFacts
  <2>2. TypeOK' /\ SideMapsTracked' /\ CallInPast' /\ AllSound(entries', clock')
    BY <1>1, <2>1 DEF vars, TypeOK, SideMapsTracked, CallInPast
  <2> QED BY <1>1, <2>2, IInvNext
<1>2. CASE Tick
  BY <1>2, TickStep, EntriesUnchangedGuarded DEF Tick
<1>3. CASE Select
  <2>1. ASSUME NEW candidates \in SUBSET Peer, NEW now \in Recent,
               SelectBegin(candidates, now)
        PROVE  IInv' /\ Guarded
    BY <2>1, SelectBeginStep, EntriesUnchangedGuarded DEF SelectBegin
  <2>2. ASSUME NEW p \in Peer, SelectUpsert(p) PROVE IInv' /\ Guarded
    BY <2>2, SelectUpsertStep, SelectUpsertGuarded
  <2>3. ASSUME NEW want \in 1..MaxWant, SelectFinish(want) PROVE IInv' /\ Guarded
    <3>1. PICK chosen \in SUBSET EligiblePool(entries, call.pool) :
            Serves(entries, Without(last_selected, evicted), dispatched \ evicted,
                   chosen, call.now)
      BY <2>3, SelectFinishFacts
    <3>2. call.now \in Nat /\ call.now <= clock
      BY <2>3, SelectFinishFacts
    <3> QED BY <2>3, <3>1, <3>2, SelectFinishStep, ServeGuarded
  <2> QED BY <1>3, <2>1, <2>2, <2>3 DEF Select
<1>4. CASE Query
  <2>1. ASSUME NEW active \in SUBSET DOMAIN entries, NEW want \in 1..MaxWant,
               NEW now \in Recent, Rebalance(active, want, now)
        PROVE  IInv' /\ Guarded
    <3>1. PICK chosen \in SUBSET EligiblePool(entries, DOMAIN entries) :
            Serves(entries, last_selected, dispatched, chosen, now)
      BY <2>1, RebalanceFacts
    <3>2. /\ now \in Nat /\ now <= clock
          /\ IsPeerMap(last_selected, 0..(EpochModulus - 1))
      BY IInvFacts DEF TypeOK
    <3>3. Without(last_selected, {}) = last_selected /\ dispatched \ {} = dispatched
      BY <3>2, WithoutNothing
    <3>4. Serves(entries, Without(last_selected, {}), dispatched \ {}, chosen, now)
      BY <3>1, <3>3
    <3> QED BY <2>1, <3>2, <3>4, RebalanceStep, ServeGuarded
  <2> QED BY <1>4, <2>1 DEF Query
<1>5. CASE Report
  BY <1>5, RecordOutcomeStep, RecordOutcomeGuarded DEF Report
<1>6. CASE Feed
  <2>1. ASSUME NEW p \in Peer, NEW now \in Recent,
               PeerAdded(p, now) \/ OnConnectionClass(p, now) \/ UpsertManual(p, now)
        PROVE  IInv' /\ Guarded
    BY <2>1, FeedInsertStep, FeedInsertGuarded
  <2>2. ASSUME NEW p \in Peer, RemovePeer(p) PROVE IInv' /\ Guarded
    BY <2>2, RemovePeerStep, RemovePeerGuarded
  <2>3. ASSUME NEW p \in Peer, NEW banned \in BOOLEAN, PeerRemoved(p, banned)
        PROVE  IInv' /\ Guarded
    BY <2>3, PeerRemovedStep, PeerRemovedGuarded
  <2>4. ASSUME NEW p \in Peer, NEW count \in 0..MaxCount, NEW now \in Recent,
               OnDispatch(p, count, now)
        PROVE  IInv' /\ Guarded
    <3>1. count \in Nat
      BY EngineAssumption, SMT
    <3> QED BY <2>4, <3>1, OnDispatchStep, OnDispatchGuarded
  <2> QED BY <1>6, <2>1, <2>2, <2>3, <2>4 DEF Feed
<1> QED BY <1>1, <1>2, <1>3, <1>4, <1>5, <1>6 DEF Next

\* The inductive invariant holds in every reachable state.
THEOREM Invariance == Spec => []IInv
<1>1. Init => IInv
  BY InitLemma
<1>2. IInv /\ [Next]_vars => IInv'
  BY NextLemma
<1> QED BY <1>1, <1>2, PTL DEF Spec

\* No reachable state leaves its types: in-flight saturates, epochs wrap and
\* every map is keyed by peers, for every capacity and every input.
THEOREM TypeCorrect == Spec => []TypeOK
<1>1. IInv => TypeOK
  BY DEF IInv
<1> QED BY <1>1, Invariance, PTL

\* The side maps of the engine track the registry (engine.rs:48-59).
THEOREM SideMapsNeverLeak == Spec => []SideMapsTracked
<1>1. IInv => SideMapsTracked
  BY DEF IInv
<1> QED BY <1>1, Invariance, PTL

\* Every busy entry carries a stamp of the past, and only busy ones do: the
\* TTL reclaim can reach all abandoned work (registry.rs:53-57).
THEOREM EveryBusyEntryStamped == Spec => []BusyStamped
<1>1. IInv => BusyStamped
  BY DEF IInv
<1> QED BY <1>1, Invariance, PTL

\* A banned peer is never held as connected (registry.rs:236-270).
THEOREM BanExcludesLink == Spec => []BannedOffline
<1>1. IInv => BannedOffline
  BY DEF IInv
<1> QED BY <1>1, Invariance, PTL

\* The seven guarantees of every step, as one action.
LEMMA AlwaysGuarded == Spec => [][Guarded]_vars
<1>1. IInv /\ [Next]_vars => [Guarded]_vars
  BY NextLemma
<1> QED BY <1>1, Invariance, PTL DEF Spec

\* Capacity pressure never drops a connected peer (registry.rs:91-98).
THEOREM LiveLinksSurvive == Spec => LiveLinkKept
<1>1. [Guarded]_vars => [DropsNoLiveLink]_vars
  BY DEF Guarded
<1> QED BY <1>1, AlwaysGuarded, PTL DEF LiveLinkKept

\* Work younger than the TTL is given up only when every peer that stays is
\* connected or at work too (registry.rs:376-400), for every capacity, clock
\* and however late the call got the mutex.
THEOREM BusyPeersGoLast == Spec => BusyShedLast
<1>1. [Guarded]_vars => [ShedsBusyLast]_vars
  BY DEF Guarded
<1> QED BY <1>1, AlwaysGuarded, PTL DEF BusyShedLast

\* Of two idle offline peers an insertion never sheds the one that is both
\* worth more and measured as late (registry.rs:103-125, 372-400), whatever
\* the half-life is and however stale the clock of the call.
THEOREM BetterPeersStay == Spec => WorthKept
<1>1. [Guarded]_vars => [KeepsWorth]_vars
  BY DEF Guarded
<1> QED BY <1>1, AlwaysGuarded, PTL DEF WorthKept

\* A call that adds an entry brings the registry back to its capacity, or to
\* live links only (registry.rs:372-409).
THEOREM InsertionRestoresBound == Spec => BoundRestored
<1>1. [Guarded]_vars => [RestoresBound]_vars
  BY DEF Guarded
<1> QED BY <1>1, AlwaysGuarded, PTL DEF BoundRestored

\* The eviction loop, round by round, sheds exactly the groups that Victims
\* gives (registry.rs:372-409): for every capacity, however many entries are in
\* excess and however many of them tie.
THEOREM EvictionInOneStep == Spec => []EvictionIsTheLoop
<1>1. ASSUME IInv PROVE EvictionIsTheLoop
  <2> SUFFICES ASSUME NEW p \in Peer \ DOMAIN entries, NEW now \in Recent,
                      NEW connected \in BOOLEAN
               PROVE  LET e == [ColdEntry(now) EXCEPT !.connected = connected]
                          more == ReclaimStaleInFlight(With(entries, p, e), now)
                      IN  Victims(more, now) = LoopVictims(more, now)
    BY Zenon DEF EvictionIsTheLoop
  <2> DEFINE e == [ColdEntry(now) EXCEPT !.connected = connected]
             more == With(entries, p, e)
             live == ReclaimStaleInFlight(more, now)
  <2>1. IsPeerMap(entries, PeerEntry) /\ now \in Nat
    BY <1>1, IInvFacts
  <2>2. e \in PeerEntry
    <3>1. ColdEntry(now) \in PeerEntry
      BY <2>1, ColdEntryLemma
    <3> QED BY <3>1, Zenon DEF PeerEntry
  <2> HIDE DEF e
  <2>3. IsPeerMap(more, PeerEntry)
    BY <2>1, <2>2, WithLemma
  <2> HIDE DEF more
  <2>4. IsPeerMap(live, PeerEntry)
    BY <2>1, <2>3, ReclaimStaleLemma
  <2> HIDE DEF live
  <2>5. Victims(live, now) = LoopVictims(live, now)
    BY <2>1, <2>4, LoopVictimsLemma
  <2> QED BY <2>5 DEF live, more, e
<1> QED BY <1>1, Invariance, PTL

\* Learned quality survives as long as the entry (registry.rs:256-258).
THEOREM LearningSurvives == Spec => LearningKept
<1>1. [Guarded]_vars => [KeepsLearning]_vars
  BY DEF Guarded
<1> QED BY <1>1, AlwaysGuarded, PTL DEF LearningKept

\* A banned peer is not dispatched to (registry.rs:50-51).
THEOREM BansAreHonoured == Spec => BanHolds
<1>1. [Guarded]_vars => [HoldsBan]_vars
  BY DEF Guarded
<1> QED BY <1>1, AlwaysGuarded, PTL DEF BanHolds

\* In-flight work is not reclaimed before its TTL (registry.rs:340-349).
THEOREM ReclaimWaitsForTTL == Spec => ReclaimNotEarly
<1>1. [Guarded]_vars => [ReclaimsNotEarly]_vars
  BY DEF Guarded
<1> QED BY <1>1, AlwaysGuarded, PTL DEF ReclaimNotEarly
=============================================================================

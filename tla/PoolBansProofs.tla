--------------------------- MODULE PoolBansProofs ---------------------------
(***************************************************************************)
(* The bans the registry holds are those of the pool, whatever the peers,  *)
(* the capacity, the clock and the calls in between.                       *)
(***************************************************************************)
EXTENDS PoolBans, PeerSelectorProofs

\* A banned peer without an entry is forgotten; this is what makes the
\* correspondence survive the peer's return.
BanInv == IInv /\ BansCarried /\ banlist \ DOMAIN entries \subseteq forgotten

\* The bans of a map of entries.
BansOf(registry) == {q \in DOMAIN registry : registry[q].banned}

\* A step neither sets nor lifts a ban, and whom it inserts is not banned.
SameBans == \A q \in DOMAIN entries' : entries'[q].banned <=> q \in BansOf(entries)

\* What Remember makes of the bans of the pool, once they agree with those of
\* the registry on every peer that was not forgotten before.
LEMMA RememberLemma ==
  ASSUME NEW renewed, Remember(renewed),
         \A q \in DOMAIN entries' :
           entries'[q].banned <=> q \in banlist' /\ q \notin forgotten \ renewed
  PROVE  BansCarried' /\ banlist' \ DOMAIN entries' \subseteq forgotten'
<1>1. \A q \in DOMAIN entries' : entries'[q].banned <=> q \in banlist' \ forgotten'
  BY Zenon DEF Remember
<1>2. banlist' \ DOMAIN entries' \subseteq forgotten'
  BY Zenon DEF Remember
<1> QED BY <1>1, <1>2, Zenon DEF BansCarried

\* A step that leaves the bans alone on both sides.
LEMMA SameBansLemma ==
  ASSUME BanInv, SameBans, banlist' = banlist, Remember({})
  PROVE  BansCarried' /\ banlist' \ DOMAIN entries' \subseteq forgotten'
<1>1. BansOf(entries) = banlist \ forgotten
  BY DEF BanInv, BansCarried, BansOf
<1>2. \A q \in DOMAIN entries' :
        entries'[q].banned <=> q \in banlist' /\ q \notin forgotten \ {}
  BY <1>1 DEF SameBans
<1> QED BY <1>2, RememberLemma

-----------------------------------------------------------------------------
(* Which steps leave the bans alone *)

\* The eviction after an insertion.
LEMMA InsertBans ==
  ASSUME IInv, NEW p \in Peer \ DOMAIN entries, NEW e \in PeerEntry, NEW now \in Nat,
         NEW result \in EnforceCapacity(With(entries, p, e), now)
  PROVE  /\ DOMAIN result.entries \subseteq DOMAIN entries \cup {p}
         /\ \A q \in DOMAIN result.entries \ {p} :
              result.entries[q].banned = entries[q].banned
         /\ p \in DOMAIN result.entries => result.entries[p].banned = e.banned
<1> DEFINE more == With(entries, p, e)
<1>1. IsPeerMap(entries, PeerEntry)
  BY IInvFacts
<1>2. /\ IsPeerMap(more, PeerEntry) /\ DOMAIN more = DOMAIN entries \cup {p}
      /\ more[p] = e /\ \A q \in DOMAIN entries : more[q] = entries[q]
  <2>1. p \in Peer /\ DOMAIN entries \ {p} = DOMAIN entries
    OBVIOUS
  <2>2. /\ IsPeerMap(With(entries, p, e), PeerEntry)
        /\ DOMAIN With(entries, p, e) = DOMAIN entries \cup {p}
        /\ With(entries, p, e)[p] = e
        /\ \A q \in DOMAIN entries \ {p} : With(entries, p, e)[q] = entries[q]
    BY <1>1, <2>1, WithLemma
  <2> QED BY <2>1, <2>2 DEF more
<1> HIDE DEF more
<1>3. result \in EnforceCapacity(more, now)
  BY DEF more
<1>4. /\ DOMAIN result.entries \subseteq DOMAIN more
      /\ \A q \in DOMAIN result.entries : result.entries[q] = Reclaimed(more[q], now)
  BY <1>2, <1>3, EnforceCapacityLemma
<1>5. \A q \in DOMAIN result.entries : result.entries[q].banned = more[q].banned
  BY <1>2, <1>4, ReclaimedLemma DEF IsPeerMap, SameHistory
<1> QED BY <1>2, <1>4, <1>5

\* The same for an entry that is not banned.
LEMMA InsertNoBan ==
  ASSUME IInv, NEW p \in Peer \ DOMAIN entries, NEW e \in PeerEntry, NEW now \in Nat,
         NEW result \in EnforceCapacity(With(entries, p, e), now), ~e.banned
  PROVE  \A q \in DOMAIN result.entries :
           result.entries[q].banned <=> q \in BansOf(entries)
<1>1. /\ DOMAIN result.entries \subseteq DOMAIN entries \cup {p}
      /\ \A q \in DOMAIN result.entries \ {p} :
           result.entries[q].banned = entries[q].banned
      /\ p \in DOMAIN result.entries => result.entries[p].banned = e.banned
  BY InsertBans
<1> QED BY <1>1 DEF BansOf

LEMMA UpsertBans ==
  ASSUME IInv, NEW p \in Peer, NEW now \in Nat,
         NEW result \in UpsertCandidate(entries, p, now)
  PROVE  \A q \in DOMAIN result.entries :
           result.entries[q].banned <=> q \in BansOf(entries)
<1>1. CASE p \in DOMAIN entries
  BY <1>1 DEF UpsertCandidate, Unchanged, BansOf
<1>2. CASE p \notin DOMAIN entries
  <2>1. result \in EnforceCapacity(With(entries, p, ColdEntry(now)), now)
    BY <1>2 DEF UpsertCandidate
  <2> QED BY <1>2, <2>1, ColdEntryLemma, InsertNoBan
<1> QED BY <1>1, <1>2

LEMMA RecordOutcomeBans ==
  ASSUME IInv, NEW p \in Peer, NEW result, NEW now \in Recent, NEW at \in Recent,
         RecordOutcome(p, result, at, now)
  PROVE  SameBans
<1>1. PICK healed \in UpsertCandidate(entries, p, now) :
        /\ DOMAIN entries' = DOMAIN healed.entries
        /\ \A q \in DOMAIN entries' \ {p} : entries'[q] = healed.entries[q]
        /\ p \in DOMAIN entries' => entries'[p].banned = healed.entries[p].banned
  BY RecordOutcomeFacts
<1>2. now \in Nat
  BY IInvFacts
<1>3. \A q \in DOMAIN healed.entries :
        healed.entries[q].banned <=> q \in BansOf(entries)
  BY <1>1, <1>2, UpsertBans
<1> QED BY <1>1, <1>3 DEF SameBans

LEMMA OtherCallsSameBans ==
  ASSUME IInv, OtherCalls
  PROVE  SameBans
<1>1. ASSUME entries' = entries PROVE SameBans
  BY <1>1 DEF SameBans, BansOf
<1>2. ASSUME NEW p \in Peer, NEW now \in Nat,
             NEW result \in UpsertCandidate(entries, p, now), entries' = result.entries
      PROVE  SameBans
  BY <1>2, UpsertBans DEF SameBans
<1>3. ASSUME NEW selected, NEW records, NEW chosen, NEW now,
             Serves(entries, selected, records, chosen, now)
      PROVE  SameBans
  BY <1>3 DEF Serves, Served, SameBans, BansOf
<1>4. CASE Tick
  BY <1>1, <1>4 DEF Tick
<1>5. CASE Select
  <2>1. ASSUME NEW candidates \in SUBSET Peer, NEW now \in Recent,
               SelectBegin(candidates, now)
        PROVE  SameBans
    BY <1>1, <2>1 DEF SelectBegin
  <2>2. ASSUME NEW p \in Peer, SelectUpsert(p) PROVE SameBans
    <3>1. call \in Call
      BY <2>2 DEF SelectUpsert, IInv, TypeOK
    <3>2. call.now \in Nat
      BY <3>1, EngineAssumption, SMT DEF Call
    <3> QED BY <1>2, <2>2, <3>2 DEF SelectUpsert
  <2>3. ASSUME NEW want \in 1..MaxWant, SelectFinish(want) PROVE SameBans
    BY <1>3, <2>3, SelectFinishFacts
  <2> QED BY <1>5, <2>1, <2>2, <2>3 DEF Select
<1>6. CASE Query
  <2>1. ASSUME NEW active \in SUBSET DOMAIN entries, NEW want \in 1..MaxWant,
               NEW now \in Recent, Rebalance(active, want, now)
        PROVE  SameBans
    BY <1>3, <2>1, RebalanceFacts
  <2> QED BY <1>6, <2>1 DEF Query
<1>7. CASE Report
  BY <1>7, RecordOutcomeBans DEF Report
<1>8. ASSUME NEW p \in Peer, NEW now \in Recent,
             OnConnectionClass(p, now) \/ UpsertManual(p, now)
      PROVE  SameBans
  <2>1. PICK result \in UpsertCandidate(entries, p, now) : entries' = result.entries
    <3>1. SetConnectionClass(entries, p, now) = UpsertCandidate(entries, p, now)
      BY DEF SetConnectionClass, UpsertCandidate
    <3> QED BY <1>8, <3>1 DEF OnConnectionClass, UpsertManual, Absorb
  <2>2. now \in Nat
    BY IInvFacts
  <2> QED BY <1>2, <2>1, <2>2
<1>9. ASSUME NEW p \in Peer, RemovePeer(p) PROVE SameBans
  <2>1. PICK gone \in SUBSET DOMAIN entries : entries' = Without(entries, gone)
    BY <1>9, RemovePeerFacts
  <2> QED BY <2>1, Zenon DEF Without, SameBans, BansOf
<1>10. ASSUME NEW p \in Peer, NEW count \in 0..MaxCount, NEW now \in Recent,
              OnDispatch(p, count, now)
       PROVE  SameBans
  <2>1. count \in Nat
    BY EngineAssumption, SMT
  <2> QED BY <1>10, <2>1, OnDispatchFacts DEF SameBans, BansOf
<1> QED BY <1>4, <1>5, <1>6, <1>7, <1>8, <1>9, <1>10 DEF OtherCalls

-----------------------------------------------------------------------------
(* The pool's own events *)

\* Every step of the composition is one of the engine.
LEMMA BanNextIsNext == BanNext => Next
  BY DEF BanNext, OtherCalls, PoolAdds, PoolDrops, PoolBans, Next, Feed

LEMMA PoolAddsStep ==
  ASSUME BanInv, NEW p \in Peer, PoolAdds(p)
  PROVE  BansCarried' /\ banlist' \ DOMAIN entries' \subseteq forgotten'
<1>1. PICK now \in Recent : PeerAdded(p, now)
  BY DEF PoolAdds
<1>2. /\ IInv /\ now \in Nat /\ IsPeerMap(entries, PeerEntry)
      /\ \A q \in DOMAIN entries : entries[q] \in PeerEntry
  BY IInvFacts DEF BanInv
<1>3. PICK result \in MarkConnected(entries, p, now) : entries' = result.entries
  BY <1>1 DEF PeerAdded, Absorb
<1>4. \A q \in DOMAIN entries' : entries'[q].banned <=> q \in BansOf(entries) \ {p}
  <2>1. CASE p \in DOMAIN entries
    <3>1. entries' = [entries EXCEPT ![p] = Connected(entries[p])]
      BY <1>3, <2>1 DEF MarkConnected, Unchanged
    <3>2. ~Connected(entries[p]).banned
      BY <1>2, <2>1, Zenon DEF Connected, PeerEntry
    <3>3. /\ DOMAIN entries' = DOMAIN entries /\ entries'[p] = Connected(entries[p])
          /\ \A q \in DOMAIN entries \ {p} : entries'[q] = entries[q]
      BY <1>2, <2>1, <3>1, Zenon DEF IsPeerMap
    <3> QED BY <3>2, <3>3 DEF BansOf
  <2>2. CASE p \notin DOMAIN entries
    <3> DEFINE e == [ColdEntry(now) EXCEPT !.connected = TRUE]
    <3>1. result \in EnforceCapacity(With(entries, p, e), now)
      BY <1>3, <2>2 DEF MarkConnected
    <3>2. e \in PeerEntry
      BY <1>2, ConnectedEntryLemma
    <3>3. ~e.banned
      BY <1>2, ConnectedEntryLemma DEF Sound
    <3> HIDE DEF e
    <3>4. \A q \in DOMAIN entries' : entries'[q].banned <=> q \in BansOf(entries)
      BY <1>2, <1>3, <2>2, <3>1, <3>2, <3>3, InsertNoBan
    <3> QED BY <2>2, <3>4 DEF BansOf
  <2> QED BY <2>1, <2>2
<1>5. BansOf(entries) = banlist \ forgotten
  BY DEF BanInv, BansCarried, BansOf
<1>6. banlist' = banlist \ {p} /\ Remember({})
  BY DEF PoolAdds
<1>7. \A q \in DOMAIN entries' :
        entries'[q].banned <=> q \in banlist' /\ q \notin forgotten \ {}
  BY <1>4, <1>5, <1>6
<1> QED BY <1>6, <1>7, RememberLemma

\* What a disconnection does to the bans.
LEMMA PeerRemovedBans ==
  ASSUME IInv, NEW p \in Peer, NEW banned \in BOOLEAN, PeerRemoved(p, banned)
  PROVE  /\ DOMAIN entries' = DOMAIN entries
         /\ \A q \in DOMAIN entries' :
              entries'[q].banned <=> q \in BansOf(entries) \/ (q = p /\ banned)
<1>1. /\ IsPeerMap(entries, PeerEntry)
      /\ \A q \in DOMAIN entries : entries[q] \in PeerEntry
  BY IInvFacts
<1>2. CASE p \in DOMAIN entries
  <2>1. entries' = [entries EXCEPT ![p] = Disconnected(entries[p], banned)]
    BY <1>2 DEF PeerRemoved, MarkDisconnected
  <2>2. Disconnected(entries[p], banned).banned = (entries[p].banned \/ banned)
    BY <1>1, <1>2, Zenon DEF Disconnected, PeerEntry
  <2>3. /\ DOMAIN entries' = DOMAIN entries
        /\ entries'[p] = Disconnected(entries[p], banned)
        /\ \A q \in DOMAIN entries \ {p} : entries'[q] = entries[q]
    BY <1>1, <1>2, <2>1, Zenon DEF IsPeerMap
  <2> QED BY <1>2, <2>2, <2>3, Zenon DEF BansOf
<1>3. CASE p \notin DOMAIN entries
  <2>1. entries' = entries
    BY <1>3 DEF PeerRemoved, MarkDisconnected
  <2> QED BY <1>3, <2>1, Zenon DEF BansOf
<1> QED BY <1>2, <1>3

LEMMA PoolDropsStep ==
  ASSUME BanInv, NEW p \in Peer, PoolDrops(p)
  PROVE  BansCarried' /\ banlist' \ DOMAIN entries' \subseteq forgotten'
<1>1. SameBans
  BY PeerRemovedBans DEF BanInv, PoolDrops, SameBans
<1> QED BY <1>1, SameBansLemma DEF PoolDrops

LEMMA PoolBansStep ==
  ASSUME BanInv, NEW p \in Peer, PoolBans(p)
  PROVE  BansCarried' /\ banlist' \ DOMAIN entries' \subseteq forgotten'
<1>1. /\ DOMAIN entries' = DOMAIN entries
      /\ \A q \in DOMAIN entries' : entries'[q].banned <=> q \in BansOf(entries) \/ q = p
  BY PeerRemovedBans DEF BanInv, PoolBans
<1>2. BansOf(entries) = banlist \ forgotten
  BY DEF BanInv, BansCarried, BansOf
<1>3. Remember({p}) /\ banlist' = IF p \in DOMAIN entries THEN banlist \cup {p} ELSE banlist
  BY DEF PoolBans
<1>4. \A q \in DOMAIN entries' :
        entries'[q].banned <=> q \in banlist' /\ q \notin forgotten \ {p}
  BY <1>1, <1>2, <1>3, Zenon
<1> QED BY <1>3, <1>4, RememberLemma

-----------------------------------------------------------------------------
\* The correspondence is inductive together with the engine's own invariant.
LEMMA BanStep ==
  ASSUME BanInv, [BanNext]_banVars
  PROVE  BanInv'
<1>1. CASE UNCHANGED banVars
  <2>1. IInv'
    BY <1>1, NextLemma DEF BanInv, banVars
  <2> QED BY <1>1, <2>1 DEF BanInv, BansCarried, banVars, vars
<1>2. CASE BanNext
  <2>1. IInv'
    BY <1>2, BanNextIsNext, NextLemma DEF BanInv
  <2>2. ASSUME OtherCalls
        PROVE  BansCarried' /\ banlist' \ DOMAIN entries' \subseteq forgotten'
    BY <2>2, OtherCallsSameBans, SameBansLemma DEF BanInv, OtherCalls
  <2>3. BansCarried' /\ banlist' \ DOMAIN entries' \subseteq forgotten'
    BY <1>2, <2>2, PoolAddsStep, PoolDropsStep, PoolBansStep DEF BanNext
  <2> QED BY <2>1, <2>3 DEF BanInv
<1> QED BY <1>1, <1>2

\* Through any calls in any order the registry holds exactly the pool's bans of
\* the peers that kept their entry (registry.rs:236-270).
THEOREM BansFollowThePool == BanSpec => []BansCarried
<1>1. BanInit => BanInv
  <2> SUFFICES ASSUME BanInit PROVE BanInv
    OBVIOUS
  <2>1. IInv /\ DOMAIN entries = {} /\ banlist = {} /\ forgotten = {}
    BY InitLemma DEF BanInit, Init
  <2> QED BY <2>1 DEF BanInv, BansCarried
<1>2. BanInv /\ [BanNext]_banVars => BanInv'
  BY BanStep
<1>3. BanInv => BansCarried
  BY DEF BanInv
<1> QED BY <1>1, <1>2, <1>3, PTL DEF BanSpec
=============================================================================

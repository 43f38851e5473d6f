------------------------------ MODULE Registry ------------------------------
(***************************************************************************)
(* The peer registry of dig-peer-selector (src/src/registry.rs): the map   *)
(* peer_id -> PeerEntry with its capacity bound.                           *)
(*                                                                         *)
(* The registry is a plain value: `entries` is a function from the         *)
(* registered peers to their entries.  A call that can evict returns the   *)
(* SET of its possible results, records [entries, shed]: ties between      *)
(* equally valuable entries are resolved by HashMap iteration order, which *)
(* Rust randomises, so every tie is a choice.                              *)
(*                                                                         *)
(* Addresses, connection class and provenance are not represented: nothing *)
(* below reads them.  The learned quality of a peer is abstracted to       *)
(*   standing  "cold"    no outcome folded in yet (samples = 0)            *)
(*             "clean"   measured, never failed verification               *)
(*             "bad"     failed verification and reliability below 0.5     *)
(*             "redeemed" failed verification, reliability back above 0.5  *)
(*   worth     the quality part of the eviction value, 0 iff no throughput *)
(*             was ever measured.                                          *)
(***************************************************************************)
EXTENDS Integers, FiniteSets

CONSTANTS
  Peer,         \* the peer identities
  Capacity,     \* RegistryConfig capacity, already raised to at least 1
  DispatchTTL,  \* DISPATCH_TTL_SECS, in ticks of the clock
  HalfLife,     \* 3600 s of the recency factor, in ticks
  MaxWorth,     \* bound on the abstract quality value
  MaxInFlight,  \* stands for u32::MAX: in-flight additions saturate here
  None          \* Option::None

\* A peer id is 32 bytes, so there are finitely many.
ASSUME PeerAssumption == IsFiniteSet(Peer)
ASSUME BoundsAssumption ==
  /\ Capacity \in Nat \ {0}
  /\ DispatchTTL \in Nat \ {0}
  /\ HalfLife \in Nat \ {0}
  /\ MaxWorth \in Nat \ {0}
  /\ MaxInFlight \in Nat \ {0}
ASSUME NoneAssumption == None \notin Nat

Standing == {"cold", "clean", "bad", "redeemed"}

PeerEntry ==
  [connected : BOOLEAN, banned : BOOLEAN,
   standing : Standing, worth : 0..MaxWorth, reference : Nat,
   in_flight : 0..MaxInFlight, in_flight_since : Nat \cup {None}]

\* A map of the implementation: defined on some of the peers, with values in R.
IsPeerMap(map, R) == DOMAIN map \subseteq Peer /\ map \in [DOMAIN map -> R]

-----------------------------------------------------------------------------
(* Entries *)

\* A fresh entry; `reference` is last_outcome_at or, before any, first_seen.
ColdEntry(now) ==
  [connected |-> FALSE, banned |-> FALSE,
   standing |-> "cold", worth |-> 0, reference |-> now,
   in_flight |-> 0, in_flight_since |-> None]

IsEligible(e) == ~e.banned
IsEvictable(e) == ~e.connected /\ e.in_flight = 0
\* Fault: only the work in flight protects an entry, not its live link.
IsIdle(e) == e.in_flight = 0

IsForceEvictable(e) == ~e.connected

Age(e, now) == IF now > e.reference THEN now - e.reference ELSE 0

\* Fault: the loop looks for the largest eviction value.
MoreValuable(a, b, now) ==
  (a.worth + 1) * (HalfLife + Age(b, now)) > (b.worth + 1) * (HalfLife + Age(a, now))

\* eviction_value(a) < eviction_value(b), where the value of an entry is
\* (quality + 1) / (1 + age / HalfLife); both sides multiplied out.
LessValuable(a, b, now) ==
  (a.worth + 1) * (HalfLife + Age(b, now)) < (b.worth + 1) * (HalfLife + Age(a, now))

\* Fault: a plain addition.
AddWithoutSaturation(e, count, now) ==
  [e EXCEPT !.in_flight = @ + count,
            !.in_flight_since = IF e.in_flight = 0 /\ count > 0 THEN now ELSE @]

AddInFlight(e, count, now) ==
  LET total == IF e.in_flight + count > MaxInFlight
               THEN MaxInFlight ELSE e.in_flight + count
  IN  [e EXCEPT !.in_flight = total,
                !.in_flight_since =
                   IF e.in_flight = 0 /\ total > 0 THEN now ELSE @]

\* Fault: a later disconnect for another reason overwrites the ban.
DisconnectedAnew(e, banned) == [e EXCEPT !.connected = FALSE, !.banned = banned]

\* The pool holding a peer again lifts its ban; losing it keeps what is known.
Connected(e) == [e EXCEPT !.connected = TRUE, !.banned = FALSE]
Disconnected(e, banned) == [e EXCEPT !.connected = FALSE, !.banned = @ \/ banned]

\* Fault: the stamp outlives the work.
ReleaseKeepingStamp(e, count) ==
  [e EXCEPT !.in_flight = IF @ > count THEN @ - count ELSE 0]

ReleaseInFlight(e, count) ==
  LET left == IF e.in_flight > count THEN e.in_flight - count ELSE 0
  IN  [e EXCEPT !.in_flight = left,
                !.in_flight_since = IF left = 0 THEN None ELSE @]

\* Fault: the difference wraps when the stamp is ahead of `now`.
IsStaleWrapping(e, now) ==
  e.in_flight_since # None
    /\ (now < e.in_flight_since \/ now - e.in_flight_since >= DispatchTTL)

\* Fault: a stamp exactly one TTL old does not count.
IsStaleStrictly(e, now) ==
  e.in_flight_since # None /\ now - e.in_flight_since > DispatchTTL

\* now.saturating_sub(since) >= TTL: a stamp ahead of `now` is never stale.
IsStale(e, now) ==
  e.in_flight_since # None /\ now - e.in_flight_since >= DispatchTTL

\* Fault: only a verification failure counts as a sample.
StandingsUncounted(e, result) == IF result = "hard" THEN {"bad"} ELSE {e.standing}

\* The quality after one outcome.  A verification failure leaves the
\* reliability at most 27/64 whatever it was; every outcome counts as a
\* sample, a cancelled one too.  Throughput appears with a measured success.
Standings(e, result) ==
  CASE result = "hard" -> {"bad"}
    [] result \in {"measured", "unmeasured"} ->
         IF e.standing = "bad" THEN {"bad", "redeemed"}
         ELSE IF e.standing = "redeemed" THEN {"redeemed"} ELSE {"clean"}
    [] result = "soft" ->
         IF e.standing = "redeemed" THEN {"bad", "redeemed"}
         ELSE IF e.standing = "bad" THEN {"bad"} ELSE {"clean"}
    [] OTHER -> IF e.standing = "cold" THEN {"clean"} ELSE {e.standing}

Worths(e, result) == IF e.worth = 0 /\ result # "measured" THEN {0} ELSE 1..MaxWorth

WithQuality(e, s, w) == [e EXCEPT !.standing = s, !.worth = w]

Learned(e, result) ==
  {WithQuality(e, s, w) : s \in Standings(e, result), w \in Worths(e, result)}

-----------------------------------------------------------------------------
(* The map *)

Reclaimed(e, now) ==
  IF IsStale(e, now) THEN [e EXCEPT !.in_flight = 0, !.in_flight_since = None] ELSE e

ReclaimStaleInFlight(entries, now) ==
  [p \in DOMAIN entries |-> Reclaimed(entries[p], now)]

With(map, p, value) ==
  [q \in DOMAIN map \cup {p} |-> IF q = p THEN value ELSE map[q]]

Without(map, P) == [q \in DOMAIN map \ P |-> map[q]]

\* The eviction loop prefers idle entries to busy ones and, within each
\* group, the less valuable.
ShedBefore(a, b, now) ==
  \/ IsEvictable(a) /\ ~IsEvictable(b)
  \/ (IsEvictable(a) <=> IsEvictable(b)) /\ LessValuable(a, b, now)

\* Fault: the loop makes room for one more.
ExcessWithRoom(entries) ==
  IF Cardinality(DOMAIN entries) >= Capacity
  THEN Cardinality(DOMAIN entries) - Capacity + 1 ELSE 0

Excess(entries) ==
  IF Cardinality(DOMAIN entries) > Capacity
  THEN Cardinality(DOMAIN entries) - Capacity ELSE 0

\* What one run of the loop may remove.  Neither `now` nor any value changes
\* between its rounds, so it sheds a least-valuable group of the
\* disconnected entries, as many as exceed the capacity or all of them.
Victims(entries, now) ==
  LET spare == {p \in DOMAIN entries : IsForceEvictable(entries[p])}
      count == IF Cardinality(spare) < Excess(entries)
               THEN Cardinality(spare) ELSE Excess(entries)
  IN  {V \in SUBSET spare :
         /\ Cardinality(V) = count
         /\ \A v \in V, k \in spare \ V :
              ~ShedBefore(entries[k], entries[v], now)}

\* One round of the loop: a least valuable idle entry or, with none idle, a
\* least valuable disconnected one.
NextVictims(entries, now) ==
  LET idle == {p \in DOMAIN entries : IsEvictable(entries[p])}
      spare == {p \in DOMAIN entries : IsForceEvictable(entries[p])}
      among == IF idle # {} THEN idle ELSE spare
  IN  {v \in among : \A k \in among : ~LessValuable(entries[k], entries[v], now)}

\* Fault: an `if` in place of the `while`.
LoopVictimsOnce(entries, now) ==
  LET first == NextVictims(entries, now)
  IN  IF Excess(entries) = 0 \/ first = {} THEN {{}} ELSE {{v} : v \in first}

\* The loop itself: a round for each entry in excess, until one finds nobody.
LoopVictims(entries, now) ==
  LET Further(V) == {V \cup {v} : v \in NextVictims(Without(entries, V), now)}
      loop[n \in 0..Excess(entries)] ==
        IF n = 0 THEN {{}}
        ELSE UNION {IF Further(V) = {} THEN {V} ELSE Further(V) : V \in loop[n - 1]}
  IN  loop[Excess(entries)]

EnforceCapacity(entries, now) ==
  LET live == ReclaimStaleInFlight(entries, now)
  IN  {[entries |-> Without(live, V), shed |-> V] : V \in Victims(live, now)}

Unchanged(entries) == {[entries |-> entries, shed |-> {}]}

\* An existing entry keeps its learned quality; the capacity is enforced
\* after an insertion only.
UpsertCandidate(entries, p, now) ==
  IF p \in DOMAIN entries
  THEN Unchanged(entries)
  ELSE EnforceCapacity(With(entries, p, ColdEntry(now)), now)

\* Fault: a reconnecting peer keeps its ban.
MarkConnectedBanned(entries, p, now) ==
  IF p \in DOMAIN entries
  THEN Unchanged([entries EXCEPT ![p].connected = TRUE])
  ELSE EnforceCapacity(
         With(entries, p, [ColdEntry(now) EXCEPT !.connected = TRUE]), now)

\* Fault: a reconnecting peer gets a fresh entry.
MarkConnectedAnew(entries, p, now) ==
  EnforceCapacity(With(entries, p, [ColdEntry(now) EXCEPT !.connected = TRUE]), now)

MarkConnected(entries, p, now) ==
  IF p \in DOMAIN entries
  THEN Unchanged([entries EXCEPT ![p] = Connected(@)])
  ELSE EnforceCapacity(
         With(entries, p, [ColdEntry(now) EXCEPT !.connected = TRUE]), now)

MarkDisconnected(entries, p, banned) ==
  IF p \in DOMAIN entries
  THEN [entries EXCEPT ![p] = Disconnected(@, banned)]
  ELSE entries

\* The class itself is not represented; an unknown peer is inserted for it.
SetConnectionClass(entries, p, now) ==
  IF p \in DOMAIN entries
  THEN Unchanged(entries)
  ELSE EnforceCapacity(With(entries, p, ColdEntry(now)), now)

\* Fault: a peer is removed whatever it has in flight.
RemovePeerEntryBusy(entries, p) ==
  [entries |-> Without(entries, {p}), shed |-> {p} \cap DOMAIN entries]

\* A busy peer is kept; nothing asks whether the peer is connected.
RemovePeerEntry(entries, p) ==
  IF p \in DOMAIN entries /\ entries[p].in_flight = 0
  THEN [entries |-> Without(entries, {p}), shed |-> {p}]
  ELSE [entries |-> entries, shed |-> {}]
=============================================================================

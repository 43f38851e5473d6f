------------------------------ MODULE PoolBans ------------------------------
(***************************************************************************)
(* The engine and the pool whose events it follows: whom the pool has      *)
(* banned, next to whom the registry holds as banned.  A ban reaches the   *)
(* selector as PeerRemoved with reason Banned and ends with PeerAdded      *)
(* (src/src/pool_event.rs).  A ban of a peer without an entry goes nowhere. *)
(* The added variables only remember.                                      *)
(***************************************************************************)
EXTENDS PeerSelector

VARIABLES
  banlist,   \* the peers the pool banned while they were registered, and has
             \* not added again
  forgotten  \* those that have been without an entry since their ban

banVars == <<vars, banlist, forgotten>>

BanInit ==
  /\ Init
  /\ banlist = {}
  /\ forgotten = {}

\* After a step, `renewed` are the peers whose ban it has just reported.
Remember(renewed) ==
  forgotten' = {p \in banlist' : \/ p \notin DOMAIN entries'
                                 \/ p \in forgotten \ renewed}

PoolAdds(p) ==
  /\ \E now \in Recent : PeerAdded(p, now)
  /\ banlist' = banlist \ {p}
  /\ Remember({})

PoolDrops(p) ==
  /\ PeerRemoved(p, FALSE)
  /\ UNCHANGED banlist
  /\ Remember({})

PoolBans(p) ==
  /\ PeerRemoved(p, TRUE)
  /\ banlist' = IF p \in DOMAIN entries THEN banlist \cup {p} ELSE banlist
  /\ Remember({p})

\* Every other call, from whichever thread.
OtherCalls ==
  /\ \/ Tick \/ Select \/ Query \/ Report
     \/ \E p \in Peer, now \in Recent : OnConnectionClass(p, now) \/ UpsertManual(p, now)
     \/ \E p \in Peer : RemovePeer(p)
     \/ \E p \in Peer, count \in 0..MaxCount, now \in Recent : OnDispatch(p, count, now)
  /\ UNCHANGED banlist
  /\ Remember({})

BanNext ==
  \/ OtherCalls
  \/ \E p \in Peer : PoolAdds(p) \/ PoolDrops(p) \/ PoolBans(p)

BanSpec == BanInit /\ [][BanNext]_banVars

-----------------------------------------------------------------------------
\* The registry's bans are the pool's (registry.rs:236-270), but for the peers
\* that have been without an entry since: no feed, outcome, eviction or repeated
\* event in between sets, lifts or transfers one.
BansCarried ==
  {p \in DOMAIN entries : entries[p].banned} = banlist \ forgotten

\* "A Banned peer (from PoolEvent::PeerRemoved) MUST be ineligible for
\* selection until re-added by the pool" (SPEC 9.4).
BannedIneligible ==
  \A p \in banlist \cap DOMAIN entries : ~IsEligible(entries[p])
=============================================================================

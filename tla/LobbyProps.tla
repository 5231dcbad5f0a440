----------------------------- MODULE LobbyProps -----------------------------
(***************************************************************************)
(* What the matchmaking server promises, as properties of module Lobby.    *)
(***************************************************************************)
EXTENDS Lobby

-----------------------------------------------------------------------------
\* Safety.

\* Stale browse lists and re-joins never overfill a lobby: join_gathering
\* keeps the roster within the hard cap and the uninvited joiners within the
\* public slots, in whatever order joins, leaves and disconnects arrive.
LobbyCapacity ==
  \A g \in DOMAIN by_id :
    /\ Cardinality(by_id[g].participants) <= MAX_PARTICIPANTS_PER_GATHERING
    /\ Cardinality(PublicJoiners(by_id[g])) <= by_id[g].slots

\* add_participant never lists an account twice, even when it joins again
\* from another address or connection.
UniquePids ==
  \A g \in DOMAIN by_id : \A p, q \in by_id[g].participants :
    p.pid = q.pid => p = q

\* The two dictionaries of the registry agree after any mix of create,
\* destroy and owner disconnects; so an account owns at most one gathering.
OwnerIndexExact ==
  /\ \A pid \in DOMAIN owner_pid_to_id :
       /\ owner_pid_to_id[pid] \in DOMAIN by_id
       /\ by_id[owner_pid_to_id[pid]].owner_pid = pid
  /\ \A g \in DOMAIN by_id :
       /\ by_id[g].owner_pid \in DOMAIN owner_pid_to_id
       /\ owner_pid_to_id[by_id[g].owner_pid] = g

\* No gathering outlives the last connection from its owner's address, and no
\* participant entry outlives the last connection from the address it records:
\* every way a table entry can go away runs the on_close hooks.
NoOrphans ==
  \A g \in DOMAIN by_id :
    /\ \E p \in Ports : Connected(p, by_id[g].owner_remote)
    /\ \A q \in by_id[g].participants : \E p \in Ports : Connected(p, q.remote)

\* A handle is held exactly while its callback is in the event loop, so a
\* batch is never fired by a forgotten timer of an earlier batch, and a
\* callback that outlives its gathering finds no other one under its id.
TimersMatchHandles ==
  /\ \A g \in DOMAIN by_id : by_id[g].handle <=> (\E t \in timers : t.gid = g)
  /\ \A t, u \in timers : t.gid = u.gid => t = u
  /\ \A t \in timers : t.gid < next_gathering_id

\* A batch that waits has something to wait for, and (unless the database
\* raises) a batch with reports in it has its timer armed: the guards of
\* _on_m12_timeout for an empty or complete batch never apply.
BatchTimed ==
  \A g \in DOMAIN by_id :
    /\ by_id[g].handle => by_id[g].received # {} /\ ~Complete(by_id[g])
    /\ by_id[g].received # {} => by_id[g].expected # {} /\ (by_id[g].handle \/ DbFaults)

\* When no database call raises, a stats notification pairs the txn id of its
\* recipient's latest upload with the career cash of that very upload, for the
\* players that have not reported in this batch too, whoever's report or timer
\* fired it.
PushedTotalsCurrent ==
  \A m \in out : m.kind = "stats" => m.cash = m.txn

\* The matches quick_match may return to pid (the ranked flag is left out).
QuickMatchCandidates(pid) ==
  {g \in DOMAIN by_id :
     /\ by_id[g].owner_pid # pid
     /\ heap[by_id[g].host_conn].station_urls
     /\ public_remaining(by_id[g]) > 0
     /\ ~by_id[g].closed}

\* A match that quick_match hands out would be accepted by join_gathering at
\* that moment, although quick_match never looks at the hard cap: a sane slot
\* count leaves room for the host.
QuickMatchJoinable ==
  \A pid \in UserPids : \A g \in QuickMatchCandidates(pid) :
    by_id[g].slots < MAX_PARTICIPANTS_PER_GATHERING => JoinAccepted(by_id[g])

-----------------------------------------------------------------------------
\* What a step may never do.

LiveBefore == DOMAIN by_id
LiveAfter == DOMAIN by_id'

\* The reporters of the batch of g, with the caller of the present step.
Reporters(g) == by_id[g].received \cup {pid \in UserPids : txn'[pid] # txn[pid]}

\* A received report is kept until its batch is pushed or EndGame cancels it:
\* the second CloseParticipation at match end, a re-opened lobby or a repeated
\* upload never restarts the collection.
ReportsKept ==
  \A g \in LiveBefore \cap LiveAfter :
    \/ by_id[g].received \subseteq by_id'[g].received
    \/ /\ by_id'[g].received = {}
       /\ \/ \E m \in out' : m.kind = "stats" /\ m.gid = g
          \/ \E p \in Ports : Reachable(p, by_id[g].participants) = {}
          \/ \E p \in Ports, r \in Remotes, gid \in Gids \cup {0} : EndGame(p, r, gid)

\* In every step, a received report is kept in that sense.
ReportsNotDropped == [][ReportsKept]_vars

\* The registry implements the directory of module Directory: an account hosts
\* at most one lobby, ids are never handed out twice, players enter one at a
\* time while there is room, and every other step only takes players or
\* lobbies away.
D == INSTANCE Directory WITH
       Accounts <- UserPids,
       Capacity <- MAX_PARTICIPANTS_PER_GATHERING,
       FirstId  <- FirstGid,
       nextId   <- next_gathering_id,
       lobbies  <- [g \in DOMAIN by_id |->
                      [owner |-> by_id[g].owner_pid, members |-> PidsOf(by_id[g])]]

ImplementsDirectory == D!Spec

-----------------------------------------------------------------------------
\* Liveness, under FairSpec.

\* The owner's connection is heard from after it had gone idle.
OwnerHeard(g) ==
  /\ g \in DOMAIN by_id
  /\ \E p \in Ports :
       LET c == connections[p][by_id[g].owner_remote]
       IN c # NoConn /\ heap[c].idle /\ ~heap'[c].idle

\* A host that goes silent (power off, crash, no DISCONNECT) loses its
\* gathering: one that exists for ever has an owner that keeps talking, all
\* others are found by the reaper and removed by the on_close hooks.
SilentOwnerReaped ==
  \A g \in Gids : <>[](g \in DOMAIN by_id) => []<><<OwnerHeard(g)>>_vars

\* Once a report arrives, the batch is pushed, cancelled or goes away with its
\* gathering: the 30 s timer covers players that never report.
Collecting(g) == g \in DOMAIN by_id /\ by_id[g].received # {}

BatchResolves == \A g \in Gids : Collecting(g) ~> ~Collecting(g)

=============================================================================

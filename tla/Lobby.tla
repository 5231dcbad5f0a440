------------------------------- MODULE Lobby -------------------------------
(***************************************************************************)
(* The matchmaking server: the RMC handlers that create, join, leave, lock *)
(* and destroy gatherings (protocols/game.py, protocols/matchmaking.py),   *)
(* the end-of-match stats batch with its 30 s timer, the notifications     *)
(* they push (protocols/notification.py), and the on_close hooks that tie  *)
(* the registry to the PRUDP connection tables (server.py).                *)
(*                                                                         *)
(* The server is one asyncio thread: a handler, a timer callback or a      *)
(* round of the reaper runs to its end without an await, so each is one    *)
(* action.  Clients are unconstrained: any packet may arrive at any time,  *)
(* which covers lost, delayed and repeated calls.                          *)
(***************************************************************************)
EXTENDS Prudp, Gatherings

CONSTANTS
  SlotChoices, \* public-slot counts a host may configure
  MaxTxn,      \* bound: ReportStats calls per account
  DbFaults     \* TRUE when a database call may raise

ASSUME LobbyAssumption ==
  /\ SlotChoices \subseteq Nat
  /\ MaxTxn \in Nat
  /\ DbFaults \in BOOLEAN

VARIABLES
  by_id,             \* GatheringRegistry._by_id
  owner_pid_to_id,   \* GatheringRegistry._owner_pid_to_id
  next_gathering_id, \* registry._gathering_id_seq
  timers,            \* call_later callbacks waiting in the event loop
  txn,               \* _STATS_TXN_ID; 0 for an account without an entry
  career,            \* number of the upload that the career table holds
  out                \* requests pushed to clients by the last step

registryVars == <<by_id, owner_pid_to_id, next_gathering_id>>
statsVars == <<txn, career>>
vars == <<connections, heap, by_id, owner_pid_to_id, next_gathering_id,
          timers, txn, career, out>>

ParticipantType == [pid : UserPids, remote : Remotes, conn : Conns]

Gathering == [owner_pid : UserPids, owner_remote : Remotes, host_conn : Conns,
              slots : SlotChoices, participants : SUBSET ParticipantType,
              closed : BOOLEAN, expected : SUBSET UserPids,
              received : SUBSET UserPids, handle : BOOLEAN]

\* A callback remembers the dispatcher, that is the port, it was armed from.
Timer == [gid : Gids, port : Ports]

\* join and leave: type 900002 and 900000 events about pid; stats: the 901001
\* event for its recipient pid; probe: proto 3 m 2 for a joiner's URLs.
Push == [kind : {"join", "leave", "stats", "probe"}, to : Conns, pid : UserPids,
         gid : Gids, txn : 0 .. MaxTxn, cash : 0 .. MaxTxn]

\* The type invariant.
TypeOK ==
  /\ PrudpTypeOK
  /\ DOMAIN by_id \subseteq Gids
  /\ by_id \in [DOMAIN by_id -> Gathering]
  /\ DOMAIN owner_pid_to_id \subseteq UserPids
  /\ owner_pid_to_id \in [DOMAIN owner_pid_to_id -> Gids]
  /\ next_gathering_id \in FirstGid .. (FirstGid + MaxGatherings)
  /\ timers \subseteq Timer
  /\ txn \in [UserPids -> 0 .. MaxTxn]
  /\ career \in [UserPids -> 0 .. MaxTxn]
  /\ out \subseteq Push

Init ==
  /\ PrudpInit
  /\ by_id = [g \in {} |-> {}]
  /\ owner_pid_to_id = [p \in {} |-> {}]
  /\ next_gathering_id = FirstGid
  /\ timers = {}
  /\ txn = [p \in UserPids |-> 0]
  /\ career = [p \in UserPids |-> 0]
  /\ out = {}

-----------------------------------------------------------------------------
\* Notifications.  A recipient is looked up in the connection table of the
\* dispatcher's port by the remote stored in its participant entry.

Reachable_Unchecked(p, parts) == parts

Reachable(p, parts) == {q \in parts : Connected(p, q.remote)}

Event(kind, to, pid, gid) ==
  [kind |-> kind, to |-> to, pid |-> pid, gid |-> gid, txn |-> 0, cash |-> 0]

Broadcast_JoinsOnly(p, kind, parts, subject, gid) ==
  {Event(kind, connections[p][q.remote], subject, gid) :
     q \in {x \in Reachable(p, parts) : kind = "join" /\ x.pid # subject}}

\* push_join and push_leave: everyone but the subject.
Broadcast(p, kind, parts, subject, gid) ==
  {Event(kind, connections[p][q.remote], subject, gid) :
     q \in {x \in Reachable(p, parts) : x.pid # subject}}

push_participants_to_joiner_SelfOnly(p, parts, joiner, gid) ==
  {Event("join", connections[p][j.remote], joiner, gid) :
     j \in {x \in Reachable(p, parts) : x.pid = joiner}}

\* The joiner gets one join event per participant, itself included.
push_participants_to_joiner(p, parts, joiner, gid) ==
  {Event("join", connections[p][j.remote], q.pid, gid) :
     j \in {x \in Reachable(p, parts) : x.pid = joiner}, q \in parts}

push_stats_processed_Shared(p, parts, gid, txns, cash) ==
  {[kind |-> "stats", to |-> connections[p][q.remote], pid |-> q.pid,
    gid |-> gid, txn |-> txns[q.pid], cash |-> cash[(CHOOSE x \in parts : TRUE).pid]] :
     q \in Reachable(p, parts)}

\* Every participant gets its own txn id and career cash.
push_stats_processed(p, parts, gid, txns, cash) ==
  {[kind |-> "stats", to |-> connections[p][q.remote], pid |-> q.pid,
    gid |-> gid, txn |-> txns[q.pid], cash |-> cash[q.pid]] :
     q \in Reachable(p, parts)}

-----------------------------------------------------------------------------
\* Transport events.  None of them but a close touches the registry.

Quiet == UNCHANGED <<by_id, owner_pid_to_id, next_gathering_id, timers,
                     txn, career>> /\ out' = {}

Syn(p, r) == HandleSyn(p, r) /\ Quiet

Connect(p, r, pid) == HandleConnect(p, r, pid) /\ Quiet

Ping(p, r) == HandlePing(p, r) /\ Quiet

\* DATA that changes no other state: a pure ACK, a fragment, a query
\* (SearchGatherings, QuickMatch, UserStats, leaderboards, friends), a stub,
\* and every call whose handler refuses it or finds nothing to do.
DataOnly(p, r) == HandleData(p, r) /\ Quiet

SilentFor(p, r) == Elapse(p, r) /\ Quiet

\* The on_close hooks for a set R of remotes: destroy_by_owner_remote, then
\* remove_participant_by_remote.  Neither pushes a notification, and neither
\* cancels a timer.
CloseHooks(R) ==
  LET victims == OwnedFrom(by_id, R)
      kept    == Without(by_id, victims)
  IN /\ by_id' = [g \in DOMAIN kept |-> remove_participant_by_remote(kept[g], R)]
     /\ owner_pid_to_id' = Unindexed(owner_pid_to_id, by_id, victims)
     /\ UNCHANGED <<next_gathering_id, timers, txn, career>>
     /\ out' = {}

Disconnect(p, r) == HandleDisconnect(p, r) /\ CloseHooks({r})

Reap == ReapIdle /\ CloseHooks(UNION {Stale(p) : p \in Ports})

-----------------------------------------------------------------------------
\* RMC handlers.  Caller(p, r) is conn.user_pid of the calling connection.

Caller(p, r) == heap[connections[p][r]].user_pid

\* RegisterEx: station_urls always ends with the observed address.
RegisterEx(p, r) ==
  /\ Established(p, r)
  /\ heap' = [heap EXCEPT ![connections[p][r]] =
                [@ EXCEPT !.idle = FALSE, !.station_urls = TRUE]]
  /\ UNCHANGED connections
  /\ Quiet

\* create_gathering: an earlier gathering of the same owner is dropped without
\* a word to its participants.
CreateGathering(p, r, slots) ==
  LET pid == Caller(p, r)
      gid == next_gathering_id
      c   == connections[p][r]
  IN /\ HandleData(p, r)
     /\ gid < FirstGid + MaxGatherings
     /\ next_gathering_id' = gid + 1
     /\ by_id' = Put(Without(by_id, Superseded(owner_pid_to_id, by_id, pid)),
                     gid, NewGathering(pid, r, c, slots))
     /\ owner_pid_to_id' = Put(owner_pid_to_id, pid, gid)
     /\ UNCHANGED <<timers, txn, career>>
     /\ out' = {}

JoinAccepted_NoCap(g) == heap[g.host_conn].station_urls /\ public_remaining(g) > 0

\* What join_gathering checks before it accepts; a failed check is DataOnly.
JoinAccepted(g) ==
  /\ heap[g.host_conn].station_urls
  /\ ~is_full(g)
  /\ public_remaining(g) > 0

JoinGathering(p, r, gid) ==
  LET pid == Caller(p, r)
      c   == connections[p][r]
      g   == add_participant(by_id[gid], pid, r, c)
  IN /\ HandleData(p, r)
     /\ gid \in DOMAIN by_id
     /\ JoinAccepted(by_id[gid])
     /\ by_id' = [by_id EXCEPT ![gid] = g]
     /\ UNCHANGED <<owner_pid_to_id, next_gathering_id, timers, txn, career>>
     /\ out' = {Event("probe", g.host_conn, pid, gid) :
                  x \in IF heap[c].station_urls THEN {c} ELSE {}}
               \cup Broadcast(p, "join", g.participants, pid, gid)
               \cup push_participants_to_joiner(p, g.participants, pid, gid)

\* leave_gathering_game
LeaveGathering(p, r, gid) ==
  LET pid == Caller(p, r)
      g   == remove_participant(by_id[gid], pid)
  IN /\ HandleData(p, r)
     /\ gid \in DOMAIN by_id
     /\ pid \in PidsOf(by_id[gid])
     /\ by_id' = [by_id EXCEPT ![gid] = g]
     /\ UNCHANGED <<owner_pid_to_id, next_gathering_id, timers, txn, career>>
     /\ out' = Broadcast(p, "leave", g.participants, pid, gid)

\* destroy_gathering: owner only.
DestroyGathering(p, r, gid) ==
  LET pid == Caller(p, r)
  IN /\ HandleData(p, r)
     /\ gid \in DOMAIN by_id
     /\ pid = by_id[gid].owner_pid
     /\ by_id' = Without(by_id, {gid})
     /\ owner_pid_to_id' = Unindexed(owner_pid_to_id, by_id, {gid})
     /\ UNCHANGED <<next_gathering_id, timers, txn, career>>
     /\ out' = Broadcast(p, "leave", by_id[gid].participants, pid, gid)

-----------------------------------------------------------------------------
\* The match lifecycle.  Neither handler checks that the caller is the host.

\* The roster a stats batch waits for.
Snapshot(g) == [g EXCEPT !.expected = PidsOf(g), !.received = {}]

Expecting_Anew(g) == Snapshot(g)

\* Taken when none is there: at the first lock, or at the first report.
Expecting(g) == IF g.expected = {} THEN Snapshot(g) ELSE g

CloseParticipation(p, r, gid) ==
  /\ HandleData(p, r)
  /\ gid \in DOMAIN by_id
  /\ by_id' = [by_id EXCEPT ![gid] = Expecting(set_closed(@, TRUE))]
  /\ UNCHANGED <<owner_pid_to_id, next_gathering_id, timers, txn, career>>
  /\ out' = {}

\* Leaves the snapshot as it is.
OpenParticipation(p, r, gid) ==
  /\ HandleData(p, r)
  /\ gid \in DOMAIN by_id
  /\ by_id' = [by_id EXCEPT ![gid] = set_closed(@, FALSE)]
  /\ UNCHANGED <<owner_pid_to_id, next_gathering_id, timers, txn, career>>
  /\ out' = {}

\* The batch after a report of pid.
Recorded(g, pid) == [Expecting(g) EXCEPT !.received = @ \cup {pid}]

Complete(g) == g.expected \subseteq g.received

CancelTimer_Skipped(pending, gid, g) == pending

\* handle.cancel(), when there is a handle; pending are the callbacks left.
CancelTimer(pending, gid, g) ==
  IF g.handle THEN {t \in pending : t.gid # gid} ELSE pending

ClearBatch_KeepsReports(g) == [g EXCEPT !.handle = FALSE, !.expected = {}]

ClearBatch_HandleOnly(g) == [g EXCEPT !.handle = FALSE]

ClearBatch(g) == [g EXCEPT !.handle = FALSE, !.expected = {}, !.received = {}]

\* _fire_stats_processed_batch on gathering gid, whose value is g.  The timer
\* goes first.  A career read that raises, one per participant, then leaves
\* the handler before the batch is cleared.
FireBatch(p, gid, g, pending, txns, cash) ==
  /\ timers' = CancelTimer(pending, gid, g)
  /\ \/ /\ by_id' = [by_id EXCEPT ![gid] = ClearBatch(g)]
        /\ out' = push_stats_processed(p, g.participants, gid, txns, cash)
     \/ /\ DbFaults
        /\ g.participants # {}
        /\ by_id' = [by_id EXCEPT ![gid] = [g EXCEPT !.handle = FALSE]]
        /\ out' = {}

AwaitReports_NoTimer(p, gid, g) ==
  /\ by_id' = [by_id EXCEPT ![gid] = g]
  /\ UNCHANGED timers
  /\ out' = {}

\* Arms the timer unless one is armed.
AwaitReports(p, gid, g) ==
  /\ by_id' = [by_id EXCEPT ![gid] = [g EXCEPT !.handle = TRUE]]
  /\ timers' = IF g.handle THEN timers ELSE timers \cup {[gid |-> gid, port |-> p]}
  /\ out' = {}

\* ReportStats (m 12).  stored is FALSE when the upload does not parse or
\* _persist_match rolls back; the txn id advances all the same.
ReportStats(p, r, stored) ==
  LET pid  == Caller(p, r)
      mine == Containing(by_id, pid)
      gid  == First(mine)
      g    == Recorded(by_id[gid], pid)
  IN /\ HandleData(p, r)
     /\ stored \/ DbFaults
     /\ txn[pid] < MaxTxn
     /\ txn' = [txn EXCEPT ![pid] = @ + 1]
     /\ career' = IF stored THEN [career EXCEPT ![pid] = txn[pid] + 1] ELSE career
     /\ UNCHANGED <<owner_pid_to_id, next_gathering_id>>
     /\ \/ mine = {} /\ UNCHANGED <<by_id, timers>> /\ out' = {}
        \/ mine # {} /\ ~Complete(g) /\ AwaitReports(p, gid, g)
        \/ mine # {} /\ Complete(g) /\ FireBatch(p, gid, g, timers, txn', career')

\* EndGame (m 15): the named gathering or, for an unknown id, the caller's.
EndGame(p, r, gid) ==
  LET mine   == Containing(by_id, Caller(p, r))
      target == IF gid \in DOMAIN by_id THEN gid ELSE First(mine)
      g      == by_id[target]
  IN /\ HandleData(p, r)
     /\ gid \in DOMAIN by_id \/ mine # {}
     /\ g.handle \/ g.expected # {}
     /\ timers' = CancelTimer(timers, target, g)
     /\ by_id' = [by_id EXCEPT ![target] = ClearBatch(g)]
     /\ UNCHANGED <<owner_pid_to_id, next_gathering_id, txn, career>>
     /\ out' = {}

\* _on_m12_timeout: the batch is still incomplete.
TimeoutFires(t) ==
  /\ t.gid \in DOMAIN by_id
  /\ by_id[t.gid].received # {}
  /\ ~Complete(by_id[t.gid])
  /\ FireBatch(t.port, t.gid, by_id[t.gid], timers \ {t}, txn, career)

\* _on_m12_timeout: the gathering is gone, or there is nothing to push.
TimeoutIgnored(t) ==
  /\ t.gid \in DOMAIN by_id =>
       by_id[t.gid].received = {} \/ Complete(by_id[t.gid])
  /\ timers' = timers \ {t}
  /\ by_id' = [g \in DOMAIN by_id |->
                 IF g = t.gid THEN [by_id[g] EXCEPT !.handle = FALSE] ELSE by_id[g]]
  /\ out' = {}

OnM12Timeout ==
  \E t \in timers :
    /\ TimeoutFires(t) \/ TimeoutIgnored(t)
    /\ UNCHANGED <<connections, heap, owner_pid_to_id, next_gathering_id, txn, career>>

-----------------------------------------------------------------------------
\* gid 0 stands for any id the registry never handed out.
PacketFrom(p, r) ==
  \/ Syn(p, r)
  \/ \E pid \in UserPids : Connect(p, r, pid)
  \/ Ping(p, r)
  \/ DataOnly(p, r)
  \/ Disconnect(p, r)
  \/ RegisterEx(p, r)
  \/ \E slots \in SlotChoices : CreateGathering(p, r, slots)
  \/ \E stored \in BOOLEAN : ReportStats(p, r, stored)
  \/ \E gid \in Gids \cup {0} :
       \/ JoinGathering(p, r, gid)
       \/ LeaveGathering(p, r, gid)
       \/ DestroyGathering(p, r, gid)
       \/ CloseParticipation(p, r, gid)
       \/ OpenParticipation(p, r, gid)
       \/ EndGame(p, r, gid)

Next ==
  \/ \E p \in Ports, r \in Remotes : PacketFrom(p, r) \/ SilentFor(p, r)
  \/ Reap
  \/ OnM12Timeout

Spec == Init /\ [][Next]_vars

\* The event loop keeps running: the clock advances, the reaper task wakes
\* every REAP_INTERVAL_SECONDS, and a callback whose delay is over is called.
\* Nothing is assumed about clients.
Fairness ==
  /\ \A p \in Ports, r \in Remotes : WF_vars(SilentFor(p, r))
  /\ WF_vars(Reap)
  /\ WF_vars(OnM12Timeout)

FairSpec == Spec /\ Fairness

=============================================================================

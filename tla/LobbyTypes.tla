----------------------------- MODULE LobbyTypes -----------------------------
(***************************************************************************)
(* The type invariant of Lobby, proved for all values of the constants.    *)
(***************************************************************************)
EXTENDS Lobby, TLAPS, WellFoundedInduction

\* The typed registry: a gathering of by_id is a Gathering.
LEMMA LiveGathering ==
  ASSUME TypeOK, NEW gid \in DOMAIN by_id
  PROVE  gid \in Gids /\ by_id[gid] \in Gathering
BY DEF TypeOK

\* Every operation of the registry on one gathering yields a Gathering.
LEMMA NewGatheringType ==
  ASSUME NEW pid \in UserPids, NEW r \in Remotes, NEW c \in Conns, NEW slots \in SlotChoices
  PROVE  NewGathering(pid, r, c, slots) \in Gathering
BY DEF NewGathering, Gathering, ParticipantType, Participant

\* A join keeps the type, for a new member and for a re-join alike.
LEMMA AddParticipantType ==
  ASSUME NEW g \in Gathering, NEW pid \in UserPids, NEW r \in Remotes, NEW c \in Conns
  PROVE  add_participant(g, pid, r, c) \in Gathering
<1>1. Participant(pid, r, c) \in ParticipantType
  BY DEF Participant, ParticipantType
<1>2. \A p \in g.participants : [p EXCEPT !.conn = c] \in ParticipantType
  BY DEF Gathering, ParticipantType
<1>3. g.participants \subseteq ParticipantType
  BY DEF Gathering
<1>4. {IF p.pid = pid THEN [p EXCEPT !.conn = c] ELSE p : p \in g.participants}
        \subseteq ParticipantType
  BY <1>2, <1>3
<1>5. g.participants \cup {Participant(pid, r, c)} \subseteq ParticipantType
  BY <1>1, <1>3
<1> QED
  BY <1>4, <1>5 DEF add_participant, Gathering

\* A smaller roster is a roster.
LEMMA ShrinkType ==
  ASSUME NEW g \in Gathering, NEW S, S \subseteq g.participants
  PROVE  [g EXCEPT !.participants = S] \in Gathering
BY DEF Gathering

\* leave_gathering_game's removal by account.
LEMMA RemoveParticipantType ==
  ASSUME NEW g \in Gathering, NEW pid
  PROVE  remove_participant(g, pid) \in Gathering
BY ShrinkType DEF remove_participant

\* The removal of the on_close hooks, by remote.
LEMMA RemoveByRemoteType ==
  ASSUME NEW g \in Gathering, NEW R
  PROVE  remove_participant_by_remote(g, R) \in Gathering
BY ShrinkType DEF remove_participant_by_remote

\* Lock and unlock.
LEMMA SetClosedType ==
  ASSUME NEW g \in Gathering, NEW b \in BOOLEAN
  PROVE  set_closed(g, b) \in Gathering
BY DEF set_closed, Gathering

\* The snapshot of a roster is a set of accounts.
LEMMA PidsOfType ==
  ASSUME NEW g \in Gathering
  PROVE  PidsOf(g) \subseteq UserPids
BY DEF PidsOf, Gathering, ParticipantType

\* Taking the snapshot of expected reporters.
LEMMA ExpectingType ==
  ASSUME NEW g \in Gathering
  PROVE  Expecting(g) \in Gathering
BY PidsOfType DEF Expecting, Snapshot, Gathering

\* Recording a report.
LEMMA RecordedType ==
  ASSUME NEW g \in Gathering, NEW pid \in UserPids
  PROVE  Recorded(g, pid) \in Gathering
BY ExpectingType DEF Recorded, Gathering

\* Clearing a finished or cancelled batch.
LEMMA ClearBatchType ==
  ASSUME NEW g \in Gathering
  PROVE  ClearBatch(g) \in Gathering
BY DEF ClearBatch, Gathering

\* Setting or clearing the timer handle.
LEMMA HandleType ==
  ASSUME NEW g \in Gathering, NEW b \in BOOLEAN
  PROVE  [g EXCEPT !.handle = b] \in Gathering
BY DEF Gathering
-----------------------------------------------------------------------------
\* First picks a member: the lowest id of a nonempty set of ids exists, so
\* lifecycle_stub's matches[0] is one of the caller's gatherings.
LEMMA FirstInSet ==
  ASSUME NEW S \in SUBSET Nat, S # {}
  PROVE  First(S) \in S /\ \A h \in S : First(S) <= h
<1> DEFINE Less == OpToRel(<, Nat)
<1>0. \A x, y \in Nat : x < y => <<x, y>> \in Less
  BY DEF OpToRel
<1>1. PICK m \in S : \A k \in S : ~(<<k, m>> \in Less)
  <2>1. IsWellFoundedOn(Less, Nat)
    BY NatLessThanWellFounded
  <2> HIDE DEF Less
  <2> QED BY <2>1, WFMin, Zenon
<1> HIDE DEF Less
<1>2. \A k \in S : m <= k
  <2> TAKE k \in S
  <2>1. ~(k < m)
    BY <1>0, <1>1
  <2> QED BY <2>1
<1>3. \E g \in S : \A h \in S : g <= h
  BY <1>2
<1> QED
  BY <1>3 DEF First

\* Gathering ids are naturals, and 0 is not one of them.
LEMMA GidsNat == Gids \subseteq Nat /\ 0 \notin Gids
BY GatheringsAssumption DEF Gids, FirstGid

-----------------------------------------------------------------------------
\* The connection tables.

\* The handlers of the transport keep tables and objects typed.
LEMMA TransportTypes ==
  ASSUME PrudpTypeOK, NEW p \in Ports, NEW r \in Remotes,
         \/ HandleSyn(p, r)
         \/ \E pid \in UserPids : HandleConnect(p, r, pid)
         \/ HandleData(p, r)
         \/ HandlePing(p, r)
         \/ HandleDisconnect(p, r)
         \/ Elapse(p, r)
  PROVE  PrudpTypeOK'
<1> USE DEF PrudpTypeOK, Connection, ConnState
<1>1. CASE HandleSyn(p, r)
  BY <1>1 DEF HandleSyn, NewConnection, UserPids
<1>2. CASE \E pid \in UserPids : HandleConnect(p, r, pid)
  <2>1. PICK pid \in UserPids : HandleConnect(p, r, pid)
    BY <1>2
  <2> DEFINE c == connections[p][r]
             o == [heap[c] EXCEPT !.state = "ESTABLISHED", !.idle = FALSE, !.user_pid = pid]
  <2>2. Connected(p, r) /\ UNCHANGED connections
    BY <2>1, Zenon DEF HandleConnect
  <2>3. c \in Conns
    BY <2>2 DEF Connected
  <2>4. o \in Connection
    BY <2>3
  <2>5. heap' = [heap EXCEPT ![c] = o]
    BY <2>1, Zenon DEF HandleConnect
  <2> HIDE DEF o, c
  <2> QED
    BY <2>2, <2>3, <2>4, <2>5
<1>3. CASE HandleData(p, r)
  BY <1>3 DEF HandleData, Established, Connected, Touched
<1>4. CASE HandlePing(p, r)
  BY <1>4 DEF HandlePing, Connected, Touched
<1>5. CASE HandleDisconnect(p, r)
  BY <1>5 DEF HandleDisconnect, Connected
<1>6. CASE Elapse(p, r)
  BY <1>6 DEF Elapse, Connected
<1> QED
  BY <1>1, <1>2, <1>3, <1>4, <1>5, <1>6

\* A round of the reaper keeps them typed.
LEMMA ReapTypes ==
  ASSUME PrudpTypeOK, ReapIdle
  PROVE  PrudpTypeOK'
BY DEF PrudpTypeOK, ReapIdle

\* A packet that HandleData accepts comes from a connection with an account
\* id, and leaves it in the table.
LEMMA CallerType ==
  ASSUME PrudpTypeOK, NEW p \in Ports, NEW r \in Remotes, HandleData(p, r)
  PROVE  connections[p][r] \in Conns /\ Caller(p, r) \in UserPids
BY DEF PrudpTypeOK, HandleData, Established, Connected, Caller, Connection

-----------------------------------------------------------------------------
\* The registry as a whole.

\* Storing a value for one live gathering keeps by_id typed.
LEMMA StoreType ==
  ASSUME TypeOK, NEW gid \in DOMAIN by_id, NEW g \in Gathering
  PROVE  /\ DOMAIN [by_id EXCEPT ![gid] = g] = DOMAIN by_id
         /\ [by_id EXCEPT ![gid] = g] \in [DOMAIN by_id -> Gathering]
BY DEF TypeOK

\* Dropping gatherings keeps by_id typed.
LEMMA WithoutType ==
  ASSUME TypeOK, NEW V
  PROVE  /\ DOMAIN Without(by_id, V) = DOMAIN by_id \ V
         /\ DOMAIN Without(by_id, V) \subseteq Gids
         /\ \A g \in DOMAIN by_id \ V : /\ Without(by_id, V)[g] = by_id[g]
                                        /\ by_id[g] \in Gathering
BY DEF TypeOK, Without

\* Dropping index entries keeps the index typed.
LEMMA UnindexedType ==
  ASSUME TypeOK, NEW V
  PROVE  /\ DOMAIN Unindexed(owner_pid_to_id, by_id, V) \subseteq UserPids
         /\ Unindexed(owner_pid_to_id, by_id, V)
              \in [DOMAIN Unindexed(owner_pid_to_id, by_id, V) -> Gids]
BY DEF TypeOK, Unindexed
-----------------------------------------------------------------------------
\* Notifications.  Reachable only keeps participants with a table entry, so a
\* push never names a connection that is not there.

\* An event is a push.
LEMMA EventType ==
  ASSUME NEW kind \in {"join", "leave", "probe"}, NEW to \in Conns,
         NEW pid \in UserPids, NEW gid \in Gids
  PROVE  Event(kind, to, pid, gid) \in Push
BY LobbyAssumption DEF Event, Push

\* A reachable participant has a connection object to push to.
LEMMA ReachableType ==
  ASSUME TypeOK, NEW p \in Ports, NEW parts \in SUBSET ParticipantType,
         NEW q \in Reachable(p, parts)
  PROVE  /\ q \in parts /\ q.pid \in UserPids
         /\ connections[p][q.remote] \in Conns
BY DEF TypeOK, PrudpTypeOK, Reachable, Connected, ParticipantType

\* Join and leave broadcasts are pushes.
LEMMA BroadcastType ==
  ASSUME TypeOK, NEW p \in Ports, NEW parts \in SUBSET ParticipantType,
         NEW kind \in {"join", "leave"}, NEW subject \in UserPids, NEW gid \in Gids
  PROVE  Broadcast(p, kind, parts, subject, gid) \subseteq Push
<1>1. ASSUME NEW q \in Reachable(p, parts)
      PROVE  Event(kind, connections[p][q.remote], subject, gid) \in Push
  BY ReachableType, EventType
<1> QED
  BY <1>1 DEF Broadcast

\* The roster replay for a joiner consists of pushes.
LEMMA ReplayType ==
  ASSUME TypeOK, NEW p \in Ports, NEW parts \in SUBSET ParticipantType,
         NEW joiner, NEW gid \in Gids
  PROVE  push_participants_to_joiner(p, parts, joiner, gid) \subseteq Push
<1>1. ASSUME NEW j \in Reachable(p, parts), NEW q \in parts
      PROVE  Event("join", connections[p][j.remote], q.pid, gid) \in Push
  <2>1. q.pid \in UserPids
    BY DEF ParticipantType
  <2> QED
    BY <2>1, ReachableType, EventType
<1> QED
  BY <1>1 DEF push_participants_to_joiner

\* Stats notifications are pushes, whatever txn ids and totals they carry.
LEMMA StatsPushType ==
  ASSUME TypeOK, NEW p \in Ports, NEW parts \in SUBSET ParticipantType, NEW gid \in Gids,
         NEW txns \in [UserPids -> 0 .. MaxTxn], NEW cash \in [UserPids -> 0 .. MaxTxn]
  PROVE  push_stats_processed(p, parts, gid, txns, cash) \subseteq Push
<1>1. ASSUME NEW q \in Reachable(p, parts)
      PROVE  [kind |-> "stats", to |-> connections[p][q.remote], pid |-> q.pid,
              gid |-> gid, txn |-> txns[q.pid], cash |-> cash[q.pid]] \in Push
  BY ReachableType DEF Push
<1> QED
  BY <1>1 DEF push_stats_processed
-----------------------------------------------------------------------------
\* One lemma per action.

\* The transport events leave the registry alone.
LEMMA QuietTypes ==
  ASSUME TypeOK, Quiet, PrudpTypeOK'
  PROVE  TypeOK'
BY DEF TypeOK, Quiet

\* The on_close hooks only shrink the registry.
LEMMA CloseHooksTypes ==
  ASSUME TypeOK, PrudpTypeOK', NEW R, CloseHooks(R)
  PROVE  TypeOK'
<1> DEFINE V == OwnedFrom(by_id, R)
           kept == Without(by_id, V)
<1>1. DOMAIN kept \subseteq Gids /\ \A g \in DOMAIN kept : kept[g] \in Gathering
  BY WithoutType
<1>2. by_id' = [g \in DOMAIN kept |-> remove_participant_by_remote(kept[g], R)]
  BY DEF CloseHooks
<1>3. DOMAIN by_id' \subseteq Gids /\ by_id' \in [DOMAIN by_id' -> Gathering]
  <2> HIDE DEF kept
  <2> QED BY <1>1, <1>2, RemoveByRemoteType
<1>4. /\ DOMAIN owner_pid_to_id' \subseteq UserPids
      /\ owner_pid_to_id' \in [DOMAIN owner_pid_to_id' -> Gids]
  BY UnindexedType DEF CloseHooks
<1>5. UNCHANGED <<next_gathering_id, timers, txn, career>> /\ out' = {}
  BY DEF CloseHooks
<1> QED
  BY <1>3, <1>4, <1>5 DEF TypeOK

\* Create: the new id is below the bound and its gathering is typed.
LEMMA CreateTypes ==
  ASSUME TypeOK, NEW p \in Ports, NEW r \in Remotes, NEW slots \in SlotChoices,
         CreateGathering(p, r, slots)
  PROVE  TypeOK'
<1> DEFINE pid == Caller(p, r)
           gid == next_gathering_id
           c   == connections[p][r]
           kept == Without(by_id, Superseded(owner_pid_to_id, by_id, pid))
           g   == NewGathering(pid, r, c, slots)
<1>0. PrudpTypeOK /\ HandleData(p, r)
  BY DEF TypeOK, CreateGathering
<1>1. PrudpTypeOK' /\ c \in Conns /\ pid \in UserPids
  BY <1>0, TransportTypes, CallerType
<1>2. gid \in Gids /\ gid + 1 \in FirstGid .. (FirstGid + MaxGatherings)
  BY GatheringsAssumption DEF TypeOK, CreateGathering, Gids, FirstGid
<1>3. g \in Gathering
  BY <1>1, NewGatheringType
<1>4. DOMAIN kept \subseteq Gids /\ \A h \in DOMAIN kept : kept[h] \in Gathering
  BY WithoutType
<1>5. by_id' = Put(kept, gid, g) /\ owner_pid_to_id' = Put(owner_pid_to_id, pid, gid)
  BY DEF CreateGathering
<1> HIDE DEF kept, g, gid, pid
<1>6. DOMAIN by_id' \subseteq Gids /\ by_id' \in [DOMAIN by_id' -> Gathering]
  BY <1>2, <1>3, <1>4, <1>5 DEF Put
<1>7. /\ DOMAIN owner_pid_to_id' \subseteq UserPids
      /\ owner_pid_to_id' \in [DOMAIN owner_pid_to_id' -> Gids]
  BY <1>1, <1>2, <1>5 DEF Put, TypeOK
<1>8. UNCHANGED <<timers, txn, career>> /\ out' = {} /\ next_gathering_id' = gid + 1
  BY DEF CreateGathering, gid
<1> QED
  BY <1>1, <1>2, <1>6, <1>7, <1>8 DEF TypeOK

\* The handlers that replace one live gathering by a typed value, and push
\* pushes, keep the type invariant.
LEMMA UpdateTypes ==
  ASSUME TypeOK, PrudpTypeOK', NEW gid \in DOMAIN by_id, NEW g \in Gathering,
         by_id' = [by_id EXCEPT ![gid] = g], timers' \subseteq Timer,
         UNCHANGED <<owner_pid_to_id, next_gathering_id>>,
         txn' \in [UserPids -> 0 .. MaxTxn], career' \in [UserPids -> 0 .. MaxTxn],
         out' \subseteq Push
  PROVE  TypeOK'
<1>1. DOMAIN by_id' = DOMAIN by_id /\ by_id' \in [DOMAIN by_id' -> Gathering]
  BY StoreType
<1> QED
  BY <1>1 DEF TypeOK

\* Join: the roster grows by a typed participant, and the probe, the
\* broadcast and the replay go to connections that exist.
LEMMA JoinTypes ==
  ASSUME TypeOK, NEW p \in Ports, NEW r \in Remotes, NEW gid, JoinGathering(p, r, gid)
  PROVE  TypeOK'
<1> DEFINE pid == Caller(p, r)
           c   == connections[p][r]
           g   == add_participant(by_id[gid], pid, r, c)
<1>0. PrudpTypeOK /\ HandleData(p, r) /\ gid \in DOMAIN by_id
  BY DEF TypeOK, JoinGathering
<1>1. PrudpTypeOK' /\ c \in Conns /\ pid \in UserPids
  BY <1>0, TransportTypes, CallerType
<1>2. by_id[gid] \in Gathering /\ gid \in Gids
  BY <1>0, LiveGathering
<1>3. g \in Gathering
  BY <1>1, <1>2, AddParticipantType
<1>4. g.participants \in SUBSET ParticipantType /\ by_id[gid].host_conn \in Conns
  BY <1>2, <1>3 DEF Gathering
<1>5. out' \subseteq Push
  <2>1. Broadcast(p, "join", g.participants, pid, gid) \subseteq Push
    BY <1>1, <1>2, <1>4, BroadcastType
  <2>2. push_participants_to_joiner(p, g.participants, pid, gid) \subseteq Push
    BY <1>2, <1>4, ReplayType
  <2>3. Event("probe", g.host_conn, pid, gid) \in Push
    BY <1>1, <1>2, <1>3, EventType DEF Gathering
  <2>4. out' = {Event("probe", g.host_conn, pid, gid) :
                  x \in IF heap[c].station_urls THEN {c} ELSE {}}
               \cup Broadcast(p, "join", g.participants, pid, gid)
               \cup push_participants_to_joiner(p, g.participants, pid, gid)
    BY DEF JoinGathering
  <2> HIDE DEF g, c, pid
  <2> QED
    BY <2>1, <2>2, <2>3, <2>4
<1>6. /\ by_id' = [by_id EXCEPT ![gid] = g]
      /\ UNCHANGED <<owner_pid_to_id, next_gathering_id, timers, txn, career>>
  BY DEF JoinGathering
<1> HIDE DEF g, c, pid
<1>7. timers' \subseteq Timer /\ txn' \in [UserPids -> 0 .. MaxTxn]
        /\ career' \in [UserPids -> 0 .. MaxTxn]
  BY <1>6 DEF TypeOK
<1> QED
  BY <1>0, <1>1, <1>3, <1>5, <1>6, <1>7, UpdateTypes

\* Leave: the roster shrinks and the rest is told.
LEMMA LeaveTypes ==
  ASSUME TypeOK, NEW p \in Ports, NEW r \in Remotes, NEW gid, LeaveGathering(p, r, gid)
  PROVE  TypeOK'
<1> DEFINE pid == Caller(p, r)
           g   == remove_participant(by_id[gid], pid)
<1>0. PrudpTypeOK /\ HandleData(p, r) /\ gid \in DOMAIN by_id
  BY DEF TypeOK, LeaveGathering
<1>1. PrudpTypeOK' /\ pid \in UserPids
  BY <1>0, TransportTypes, CallerType
<1>2. g \in Gathering /\ gid \in Gids
  BY <1>0, LiveGathering, RemoveParticipantType
<1>3. out' \subseteq Push
  BY <1>1, <1>2, BroadcastType DEF LeaveGathering, Gathering
<1>4. /\ by_id' = [by_id EXCEPT ![gid] = g]
      /\ UNCHANGED <<owner_pid_to_id, next_gathering_id, timers, txn, career>>
  BY DEF LeaveGathering
<1> HIDE DEF g, pid
<1>5. timers' \subseteq Timer /\ txn' \in [UserPids -> 0 .. MaxTxn]
        /\ career' \in [UserPids -> 0 .. MaxTxn]
  BY <1>4 DEF TypeOK
<1> QED
  BY <1>0, <1>1, <1>2, <1>3, <1>4, <1>5, UpdateTypes

\* Destroy: the gathering and its index entry go, its roster is told.
LEMMA DestroyTypes ==
  ASSUME TypeOK, NEW p \in Ports, NEW r \in Remotes, NEW gid, DestroyGathering(p, r, gid)
  PROVE  TypeOK'
<1>0. PrudpTypeOK /\ HandleData(p, r) /\ gid \in DOMAIN by_id
  BY DEF TypeOK, DestroyGathering
<1>1. PrudpTypeOK' /\ Caller(p, r) \in UserPids
  BY <1>0, TransportTypes, CallerType
<1>2. by_id[gid].participants \in SUBSET ParticipantType /\ gid \in Gids
  BY <1>0, LiveGathering DEF Gathering
<1>3. out' \subseteq Push
  BY <1>1, <1>2, BroadcastType DEF DestroyGathering
<1>4. by_id' = Without(by_id, {gid})
      /\ owner_pid_to_id' = Unindexed(owner_pid_to_id, by_id, {gid})
      /\ UNCHANGED <<next_gathering_id, timers, txn, career>>
  BY DEF DestroyGathering
<1>5. DOMAIN by_id' \subseteq Gids /\ by_id' \in [DOMAIN by_id' -> Gathering]
  BY <1>4, WithoutType DEF Without
<1>6. /\ DOMAIN owner_pid_to_id' \subseteq UserPids
      /\ owner_pid_to_id' \in [DOMAIN owner_pid_to_id' -> Gids]
  BY <1>4, UnindexedType
<1> QED
  BY <1>1, <1>3, <1>4, <1>5, <1>6 DEF TypeOK
\* Lock: with or without a fresh snapshot.
LEMMA CloseParticipationTypes ==
  ASSUME TypeOK, NEW p \in Ports, NEW r \in Remotes, NEW gid, CloseParticipation(p, r, gid)
  PROVE  TypeOK'
<1> DEFINE g == Expecting(set_closed(by_id[gid], TRUE))
<1>0. PrudpTypeOK /\ HandleData(p, r) /\ gid \in DOMAIN by_id
  BY DEF TypeOK, CloseParticipation
<1>1. PrudpTypeOK'
  BY <1>0, TransportTypes
<1>2. g \in Gathering
  BY <1>0, LiveGathering, SetClosedType, ExpectingType
<1>3. /\ by_id' = [by_id EXCEPT ![gid] = g]
      /\ UNCHANGED <<owner_pid_to_id, next_gathering_id, timers, txn, career>>
      /\ out' = {}
  BY DEF CloseParticipation
<1> HIDE DEF g
<1>4. timers' \subseteq Timer /\ txn' \in [UserPids -> 0 .. MaxTxn]
        /\ career' \in [UserPids -> 0 .. MaxTxn] /\ out' \subseteq Push
  BY <1>3 DEF TypeOK
<1> QED
  BY <1>0, <1>1, <1>2, <1>3, <1>4, UpdateTypes

\* Unlock.
LEMMA OpenParticipationTypes ==
  ASSUME TypeOK, NEW p \in Ports, NEW r \in Remotes, NEW gid, OpenParticipation(p, r, gid)
  PROVE  TypeOK'
<1> DEFINE g == set_closed(by_id[gid], FALSE)
<1>0. PrudpTypeOK /\ HandleData(p, r) /\ gid \in DOMAIN by_id
  BY DEF TypeOK, OpenParticipation
<1>1. PrudpTypeOK'
  BY <1>0, TransportTypes
<1>2. g \in Gathering
  BY <1>0, LiveGathering, SetClosedType
<1>3. /\ by_id' = [by_id EXCEPT ![gid] = g]
      /\ UNCHANGED <<owner_pid_to_id, next_gathering_id, timers, txn, career>>
      /\ out' = {}
  BY DEF OpenParticipation
<1> HIDE DEF g
<1>4. timers' \subseteq Timer /\ txn' \in [UserPids -> 0 .. MaxTxn]
        /\ career' \in [UserPids -> 0 .. MaxTxn] /\ out' \subseteq Push
  BY <1>3 DEF TypeOK
<1> QED
  BY <1>0, <1>1, <1>2, <1>3, <1>4, UpdateTypes

\* What firing a batch leaves of one gathering, of the timers and of the
\* pushes, whether or not the database raises.
LEMMA FireBatchTypes ==
  ASSUME TypeOK, NEW p \in Ports, NEW gid \in DOMAIN by_id, NEW g \in Gathering,
         NEW pending \in SUBSET Timer, NEW txns \in [UserPids -> 0 .. MaxTxn],
         NEW cash \in [UserPids -> 0 .. MaxTxn], FireBatch(p, gid, g, pending, txns, cash)
  PROVE  /\ \E h \in Gathering : by_id' = [by_id EXCEPT ![gid] = h]
         /\ timers' \subseteq Timer /\ out' \subseteq Push
<1>1. gid \in Gids /\ g.participants \in SUBSET ParticipantType
  BY LiveGathering DEF Gathering
<1>2. timers' \subseteq Timer
  BY DEF FireBatch, CancelTimer
<1>3. ClearBatch(g) \in Gathering /\ [g EXCEPT !.handle = FALSE] \in Gathering
  BY ClearBatchType, HandleType
<1>4. push_stats_processed(p, g.participants, gid, txns, cash) \subseteq Push
  BY <1>1, StatsPushType
<1> QED
  BY <1>2, <1>3, <1>4 DEF FireBatch

\* Waiting for more reports arms at most one typed timer.
LEMMA AwaitReportsTypes ==
  ASSUME TypeOK, NEW p \in Ports, NEW gid \in DOMAIN by_id, NEW g \in Gathering,
         AwaitReports(p, gid, g)
  PROVE  /\ \E h \in Gathering : by_id' = [by_id EXCEPT ![gid] = h]
         /\ timers' \subseteq Timer /\ out' \subseteq Push
<1>1. [gid |-> gid, port |-> p] \in Timer
  BY LiveGathering DEF Timer
<1>2. timers \subseteq Timer
  BY DEF TypeOK
<1>3. [g EXCEPT !.handle = TRUE] \in Gathering
  BY HandleType
<1> QED
  BY <1>1, <1>2, <1>3 DEF AwaitReports

\* Report: the txn id stays within its bound, and the batch of one of the
\* caller's gatherings, if there is one, waits or fires.
LEMMA ReportTypes ==
  ASSUME TypeOK, NEW p \in Ports, NEW r \in Remotes, NEW stored \in BOOLEAN,
         ReportStats(p, r, stored)
  PROVE  TypeOK'
<1> DEFINE pid  == Caller(p, r)
           mine == Containing(by_id, pid)
           gid  == First(mine)
           g    == Recorded(by_id[gid], pid)
<1>0. PrudpTypeOK /\ HandleData(p, r)
  BY DEF TypeOK, ReportStats
<1>1. PrudpTypeOK' /\ pid \in UserPids
  BY <1>0, TransportTypes, CallerType
<1>2. txn' \in [UserPids -> 0 .. MaxTxn]
  BY <1>1, LobbyAssumption DEF ReportStats, TypeOK
<1>3. career' \in [UserPids -> 0 .. MaxTxn]
  BY <1>1, LobbyAssumption DEF ReportStats, TypeOK
<1>4. UNCHANGED <<owner_pid_to_id, next_gathering_id>>
  BY DEF ReportStats
<1>5. CASE mine = {} /\ UNCHANGED <<by_id, timers>> /\ out' = {}
  BY <1>1, <1>2, <1>3, <1>4, <1>5 DEF TypeOK
<1>6. ASSUME mine # {} PROVE gid \in DOMAIN by_id /\ g \in Gathering
  <2>1. mine \in SUBSET Nat
    BY GidsNat DEF TypeOK, Containing
  <2>2. gid \in mine
    BY <2>1, <1>6, FirstInSet
  <2>3. gid \in DOMAIN by_id
    BY <2>2 DEF Containing
  <2> QED
    BY <2>3, <1>1, LiveGathering, RecordedType
<1>7. CASE mine # {} /\ AwaitReports(p, gid, g)
  <2> HIDE DEF mine, gid, g, pid
  <2>1. PICK h \in Gathering : by_id' = [by_id EXCEPT ![gid] = h]
    BY <1>6, <1>7, AwaitReportsTypes
  <2>2. timers' \subseteq Timer /\ out' \subseteq Push
    BY <1>6, <1>7, AwaitReportsTypes
  <2> QED
    BY <1>1, <1>2, <1>3, <1>4, <1>6, <1>7, <2>1, <2>2, UpdateTypes
<1>8. CASE mine # {} /\ FireBatch(p, gid, g, timers, txn', career')
  <2>0. timers \in SUBSET Timer
    BY DEF TypeOK
  <2> HIDE DEF mine, gid, g, pid
  <2>1. PICK h \in Gathering : by_id' = [by_id EXCEPT ![gid] = h]
    BY <1>2, <1>3, <1>6, <1>8, <2>0, FireBatchTypes
  <2>2. timers' \subseteq Timer /\ out' \subseteq Push
    BY <1>2, <1>3, <1>6, <1>8, <2>0, FireBatchTypes
  <2> QED
    BY <1>1, <1>2, <1>3, <1>4, <1>6, <1>8, <2>1, <2>2, UpdateTypes
<1> QED
  BY <1>5, <1>7, <1>8 DEF ReportStats

\* EndGame: the named gathering, or one of the caller's.
LEMMA EndGameTypes ==
  ASSUME TypeOK, NEW p \in Ports, NEW r \in Remotes, NEW gid, EndGame(p, r, gid)
  PROVE  TypeOK'
<1> DEFINE mine   == Containing(by_id, Caller(p, r))
           target == IF gid \in DOMAIN by_id THEN gid ELSE First(mine)
           g      == ClearBatch(by_id[target])
<1>0. PrudpTypeOK /\ HandleData(p, r) /\ (gid \in DOMAIN by_id \/ mine # {})
  BY DEF TypeOK, EndGame
<1>1. PrudpTypeOK'
  BY <1>0, TransportTypes
<1>2. target \in DOMAIN by_id
  <2>1. mine \in SUBSET Nat /\ mine \subseteq DOMAIN by_id
    BY GidsNat DEF TypeOK, Containing
  <2>2. mine # {} => First(mine) \in DOMAIN by_id
    BY <2>1, FirstInSet
  <2> QED
    BY <1>0, <2>2
<1>3. g \in Gathering
  BY <1>2, LiveGathering, ClearBatchType
<1>4. /\ by_id' = [by_id EXCEPT ![target] = g]
      /\ UNCHANGED <<owner_pid_to_id, next_gathering_id, txn, career>>
      /\ out' = {}
  BY DEF EndGame
<1>5. timers' \subseteq Timer
  BY DEF EndGame, CancelTimer, TypeOK
<1> HIDE DEF g, target, mine
<1>6. txn' \in [UserPids -> 0 .. MaxTxn] /\ career' \in [UserPids -> 0 .. MaxTxn]
        /\ out' \subseteq Push
  BY <1>4 DEF TypeOK
<1> QED
  BY <1>1, <1>2, <1>3, <1>4, <1>5, <1>6, UpdateTypes

\* The timer callback, whether it fires the batch or finds nothing to do.
LEMMA TimeoutTypes ==
  ASSUME TypeOK, OnM12Timeout
  PROVE  TypeOK'
<1>1. PICK t \in timers :
        /\ TimeoutFires(t) \/ TimeoutIgnored(t)
        /\ UNCHANGED <<connections, heap, owner_pid_to_id, next_gathering_id, txn, career>>
  BY DEF OnM12Timeout
<1>2. t.port \in Ports /\ timers \ {t} \in SUBSET Timer
  BY DEF TypeOK, Timer
<1>3. PrudpTypeOK'
  BY <1>1 DEF TypeOK, PrudpTypeOK
<1>4. txn \in [UserPids -> 0 .. MaxTxn] /\ career \in [UserPids -> 0 .. MaxTxn]
  BY DEF TypeOK
<1>5. CASE TimeoutFires(t)
  <2>1. /\ t.gid \in DOMAIN by_id /\ by_id[t.gid] \in Gathering
        /\ FireBatch(t.port, t.gid, by_id[t.gid], timers \ {t}, txn, career)
    BY <1>5, LiveGathering DEF TimeoutFires
  <2>2. PICK h \in Gathering : by_id' = [by_id EXCEPT ![t.gid] = h]
    BY <1>2, <1>4, <2>1, FireBatchTypes
  <2>3. timers' \subseteq Timer /\ out' \subseteq Push
    BY <1>2, <1>4, <2>1, FireBatchTypes
  <2> QED
    BY <1>1, <1>3, <1>4, <2>1, <2>2, <2>3, UpdateTypes
<1>6. CASE TimeoutIgnored(t)
  <2>1. \A g \in DOMAIN by_id : [by_id[g] EXCEPT !.handle = FALSE] \in Gathering
    BY LiveGathering, HandleType
  <2>2. DOMAIN by_id' \subseteq Gids /\ by_id' \in [DOMAIN by_id' -> Gathering]
    BY <1>6, <2>1 DEF TimeoutIgnored, TypeOK
  <2>3. timers' \subseteq Timer /\ out' = {}
    BY <1>2, <1>6 DEF TimeoutIgnored
  <2> QED
    BY <1>1, <1>3, <2>2, <2>3 DEF TypeOK
<1> QED
  BY <1>1, <1>5, <1>6

-----------------------------------------------------------------------------
\* TypeOK holds initially and every step keeps it.
LEMMA TypeInductive ==
  /\ Init => TypeOK
  /\ TypeOK /\ [Next]_vars => TypeOK'
<1>1. Init => TypeOK
  <2> SUFFICES ASSUME Init PROVE TypeOK
    OBVIOUS
  <2>1. PrudpTypeOK
    BY DEF Init, PrudpInit, PrudpTypeOK, NewConnection, Connection, ConnState, UserPids
  <2>2. FirstGid \in FirstGid .. (FirstGid + MaxGatherings) /\ 0 \in 0 .. MaxTxn
    BY GatheringsAssumption, LobbyAssumption DEF FirstGid
  <2> QED
    BY <2>1, <2>2 DEF Init, TypeOK
<1>2. TypeOK /\ [Next]_vars => TypeOK'
  <2> SUFFICES ASSUME TypeOK, [Next]_vars PROVE TypeOK'
    OBVIOUS
  <2>0. PrudpTypeOK
    BY DEF TypeOK
  <2>1. CASE UNCHANGED vars
    BY <2>1 DEF vars, TypeOK, PrudpTypeOK
  <2>2. ASSUME NEW p \in Ports, NEW r \in Remotes, PacketFrom(p, r)
        PROVE  TypeOK'
    <3>1. CASE Syn(p, r) \/ Ping(p, r) \/ DataOnly(p, r) \/ \E pid \in UserPids : Connect(p, r, pid)
      BY <2>0, <3>1, TransportTypes, QuietTypes DEF Syn, Ping, DataOnly, Connect
    <3>2. CASE Disconnect(p, r)
      BY <2>0, <3>2, TransportTypes, CloseHooksTypes DEF Disconnect
    <3>3. CASE RegisterEx(p, r)
      <4>1. PrudpTypeOK'
        BY <2>0, <3>3 DEF RegisterEx, PrudpTypeOK, Connection, Established, Connected
      <4> QED
        BY <3>3, <4>1, QuietTypes DEF RegisterEx
    <3>4. CASE \E slots \in SlotChoices : CreateGathering(p, r, slots)
      BY <3>4, CreateTypes
    <3>5. CASE \E stored \in BOOLEAN : ReportStats(p, r, stored)
      BY <3>5, ReportTypes
    <3>6. CASE \E gid \in Gids \cup {0} : JoinGathering(p, r, gid)
      BY <3>6, JoinTypes
    <3>7. CASE \E gid \in Gids \cup {0} : LeaveGathering(p, r, gid)
      BY <3>7, LeaveTypes
    <3>8. CASE \E gid \in Gids \cup {0} : DestroyGathering(p, r, gid)
      BY <3>8, DestroyTypes
    <3>9. CASE \E gid \in Gids \cup {0} : CloseParticipation(p, r, gid)
      BY <3>9, CloseParticipationTypes
    <3>10. CASE \E gid \in Gids \cup {0} : OpenParticipation(p, r, gid)
      BY <3>10, OpenParticipationTypes
    <3>11. CASE \E gid \in Gids \cup {0} : EndGame(p, r, gid)
      BY <3>11, EndGameTypes
    <3> QED
      BY <2>2, <3>1, <3>2, <3>3, <3>4, <3>5, <3>6, <3>7, <3>8, <3>9, <3>10, <3>11
         DEF PacketFrom
  <2>3. ASSUME NEW p \in Ports, NEW r \in Remotes, SilentFor(p, r)
        PROVE  TypeOK'
    BY <2>0, <2>3, TransportTypes, QuietTypes DEF SilentFor
  <2>4. CASE Reap
    BY <2>0, <2>4, ReapTypes, CloseHooksTypes DEF Reap
  <2>5. CASE OnM12Timeout
    BY <2>5, TimeoutTypes
  <2> QED
    BY <2>1, <2>2, <2>3, <2>4, <2>5 DEF Next
<1> QED
  BY <1>1, <1>2

\* The type invariant is inductive: every state any mix of packets, closes,
\* reaper rounds and timeouts leads to has registry entries, timers and pushes
\* of the declared shape.  In particular no push is ever addressed to a missing
\* connection, and no gathering id leaves the range create() hands out.
THEOREM TypeCorrect == Spec => []TypeOK
BY TypeInductive, PTL DEF Spec

=============================================================================

----------------------------- MODULE LobbyBatch -----------------------------
(***************************************************************************)
(* Proofs about the end-of-match stats batch: TimersMatchHandles,          *)
(* BatchTimed and ReportsNotDropped hold for all values of the constants,  *)
(* and so does ReportersAdvance of module Versions; PushedTotalsCurrent    *)
(* holds when no database call raises.                                     *)
(***************************************************************************)
EXTENDS LobbyRosters, Versions

-----------------------------------------------------------------------------
\* The inductive invariant.

\* Without database faults every upload is stored before its txn id is used.
TotalsInStep == DbFaults \/ txn = career

\* So what is pushed fits too.
PushesInStep == DbFaults \/ PushedTotalsCurrent

BatchInv ==
  /\ TypeOK
  /\ FreshIds
  /\ TimersMatchHandles
  /\ BatchTimed
  /\ TotalsInStep
  /\ PushesInStep

\* BatchTimed for one gathering.
Timed(g) ==
  /\ g.handle => g.received # {} /\ ~Complete(g)
  /\ g.received # {} => g.expected # {} /\ (g.handle \/ DbFaults)

-----------------------------------------------------------------------------
\* The steps that have nothing to do with a batch.

\* Gathering h has the batch of g.
SameBatch(g, h) ==
  h.expected = g.expected /\ h.received = g.received /\ h.handle = g.handle

\* Batches stay as they are, a new gathering has none, and nothing is pushed
\* for one.
KeepsBatches ==
  /\ \A g \in DOMAIN by_id' :
       \/ g \in DOMAIN by_id /\ SameBatch(by_id[g], by_id'[g])
       \/ /\ g \notin DOMAIN by_id /\ g = next_gathering_id
          /\ by_id'[g].received = {} /\ ~by_id'[g].handle
  /\ next_gathering_id' \in {next_gathering_id, next_gathering_id + 1}
  /\ UNCHANGED <<timers, txn, career>>
  /\ \A m \in out' : m.kind # "stats"

\* A gathering that is stored with its batch keeps batches.
LEMMA StoreKeepsBatches ==
  ASSUME TypeOK, NEW gid \in DOMAIN by_id, NEW h,
         by_id' = [by_id EXCEPT ![gid] = h], SameBatch(by_id[gid], h),
         UNCHANGED <<next_gathering_id, timers, txn, career>>,
         \A m \in out' : m.kind # "stats"
  PROVE  KeepsBatches
BY DEF KeepsBatches, SameBatch, TypeOK

\* The registry's operations on a roster leave the batch alone.
LEMMA RosterOpsKeepBatch ==
  ASSUME NEW g \in Gathering, NEW pid, NEW r, NEW c, NEW R, NEW b
  PROVE  /\ SameBatch(g, add_participant(g, pid, r, c))
         /\ SameBatch(g, remove_participant(g, pid))
         /\ SameBatch(g, remove_participant_by_remote(g, R))
         /\ SameBatch(g, set_closed(g, b))
BY DEF SameBatch, Gathering, add_participant, remove_participant,
       remove_participant_by_remote, set_closed

\* Events about players are not stats notifications.
LEMMA EventsAreNotStats ==
  ASSUME NEW p, NEW kind \in {"join", "leave"}, NEW parts, NEW pid, NEW gid, NEW to
  PROVE  /\ \A m \in Broadcast(p, kind, parts, pid, gid) : m.kind # "stats"
         /\ \A m \in push_participants_to_joiner(p, parts, pid, gid) : m.kind # "stats"
         /\ Event("probe", to, pid, gid).kind # "stats"
BY DEF Broadcast, push_participants_to_joiner, Event

\* Transport, membership, close hooks and re-opening keep batches.
LEMMA KeepsBatchesSteps ==
  ASSUME TypeOK, FreshIds, Next
  PROVE  \/ KeepsBatches
         \/ \E p \in Ports, r \in Remotes :
              \/ \E stored \in BOOLEAN : ReportStats(p, r, stored)
              \/ \E gid \in Gids \cup {0} : CloseParticipation(p, r, gid) \/ EndGame(p, r, gid)
         \/ OnM12Timeout
<1>2. ASSUME Quiet PROVE KeepsBatches
  BY <1>2 DEF Quiet, KeepsBatches, SameBatch
<1>3. ASSUME NEW p \in Ports, NEW r \in Remotes,
             \/ Syn(p, r) \/ Ping(p, r) \/ DataOnly(p, r) \/ RegisterEx(p, r) \/ SilentFor(p, r)
             \/ \E pid \in UserPids : Connect(p, r, pid)
      PROVE  KeepsBatches
  <2>1. Quiet
    BY <1>3 DEF Syn, Ping, DataOnly, RegisterEx, SilentFor, Connect
  <2> QED
    BY <1>2, <2>1
<1>4. ASSUME NEW p \in Ports, NEW r \in Remotes, NEW slots \in SlotChoices,
             CreateGathering(p, r, slots)
      PROVE  KeepsBatches
  <2> DEFINE gid == next_gathering_id
             gone == Superseded(owner_pid_to_id, by_id, Caller(p, r))
             h == NewGathering(Caller(p, r), r, connections[p][r], slots)
  <2>1. /\ gid \notin DOMAIN by_id
        /\ DOMAIN by_id' = (DOMAIN by_id \ gone) \cup {gid}
        /\ by_id'[gid] = h
        /\ \A g \in DOMAIN by_id \ gone : by_id'[g] = by_id[g]
    BY <1>4, CreateEffect, Zenon
  <2>2. h.received = {} /\ ~h.handle
    BY DEF NewGathering
  <2>3. next_gathering_id' = gid + 1 /\ UNCHANGED <<timers, txn, career>> /\ out' = {}
    BY <1>4 DEF CreateGathering
  <2> HIDE DEF gone, h
  <2> QED
    BY <2>1, <2>2, <2>3 DEF KeepsBatches, SameBatch
<1>5. ASSUME NEW p \in Ports, NEW r \in Remotes, NEW gid, JoinGathering(p, r, gid)
      PROVE  KeepsBatches
  <2> DEFINE pid == Caller(p, r)
             c == connections[p][r]
             h == add_participant(by_id[gid], pid, r, c)
  <2>1. /\ gid \in DOMAIN by_id /\ by_id' = [by_id EXCEPT ![gid] = h]
        /\ UNCHANGED <<next_gathering_id, timers, txn, career>>
    BY <1>5 DEF JoinGathering
  <2>2. SameBatch(by_id[gid], h)
    BY <2>1, LiveGathering, RosterOpsKeepBatch
  <2>3. out' = {Event("probe", h.host_conn, pid, gid) :
                  x \in IF heap[c].station_urls THEN {c} ELSE {}}
               \cup Broadcast(p, "join", h.participants, pid, gid)
               \cup push_participants_to_joiner(p, h.participants, pid, gid)
    BY <1>5 DEF JoinGathering
  <2> HIDE DEF h, c, pid
  <2>4. \A m \in out' : m.kind # "stats"
    BY <2>3, EventsAreNotStats
  <2> QED
    BY <2>1, <2>2, <2>4, StoreKeepsBatches
<1>6. ASSUME NEW p \in Ports, NEW r \in Remotes, NEW gid, LeaveGathering(p, r, gid)
      PROVE  KeepsBatches
  <2> DEFINE h == remove_participant(by_id[gid], Caller(p, r))
  <2>1. /\ gid \in DOMAIN by_id /\ by_id' = [by_id EXCEPT ![gid] = h]
        /\ UNCHANGED <<next_gathering_id, timers, txn, career>>
        /\ out' = Broadcast(p, "leave", h.participants, Caller(p, r), gid)
    BY <1>6 DEF LeaveGathering
  <2>2. SameBatch(by_id[gid], h)
    BY <2>1, LiveGathering, RosterOpsKeepBatch
  <2>3. \A m \in out' : m.kind # "stats"
    BY <2>1, EventsAreNotStats
  <2> HIDE DEF h
  <2> QED
    BY <2>1, <2>2, <2>3, StoreKeepsBatches
<1>7. ASSUME NEW p \in Ports, NEW r \in Remotes, NEW gid, DestroyGathering(p, r, gid)
      PROVE  KeepsBatches
  <2>1. /\ by_id' = Without(by_id, {gid})
        /\ UNCHANGED <<next_gathering_id, timers, txn, career>>
        /\ out' = Broadcast(p, "leave", by_id[gid].participants, Caller(p, r), gid)
    BY <1>7 DEF DestroyGathering
  <2>2. \A m \in out' : m.kind # "stats"
    BY <2>1, EventsAreNotStats
  <2> QED
    BY <2>1, <2>2 DEF KeepsBatches, SameBatch, Without
<1>8. ASSUME NEW R, CloseHooks(R)
      PROVE  KeepsBatches
  <2>1. \A g \in DOMAIN by_id' :
          /\ g \in DOMAIN by_id
          /\ by_id'[g] = remove_participant_by_remote(by_id[g], R)
    BY <1>8 DEF CloseHooks, Without
  <2>2. \A g \in DOMAIN by_id' : g \in DOMAIN by_id /\ SameBatch(by_id[g], by_id'[g])
    BY <2>1, LiveGathering, RosterOpsKeepBatch
  <2> QED
    BY <1>8, <2>2 DEF KeepsBatches, CloseHooks
<1>9. ASSUME NEW p \in Ports, NEW r \in Remotes, NEW gid, OpenParticipation(p, r, gid)
      PROVE  KeepsBatches
  <2>1. /\ gid \in DOMAIN by_id /\ by_id' = [by_id EXCEPT ![gid] = set_closed(by_id[gid], FALSE)]
        /\ UNCHANGED <<next_gathering_id, timers, txn, career>> /\ out' = {}
    BY <1>9 DEF OpenParticipation
  <2>2. SameBatch(by_id[gid], set_closed(by_id[gid], FALSE))
    BY <2>1, LiveGathering, RosterOpsKeepBatch
  <2> QED
    BY <2>1, <2>2, StoreKeepsBatches
<1> QED
  BY <1>3, <1>4, <1>5, <1>6, <1>7, <1>8, <1>9 DEF Next, PacketFrom, Disconnect, Reap

-----------------------------------------------------------------------------
\* What the steps of a batch do to their gathering.

\* Recording a report of a member never drops an earlier one: a snapshot is
\* only taken when there is none, and then there are no reports.
LEMMA RecordedEffect ==
  ASSUME NEW g \in Gathering, Timed(g), NEW pid \in PidsOf(g)
  PROVE  /\ Recorded(g, pid).handle = g.handle
         /\ Recorded(g, pid).participants = g.participants
         /\ Recorded(g, pid).expected # {}
         /\ pid \in Recorded(g, pid).received
         /\ g.received \subseteq Recorded(g, pid).received
<1>1. /\ Expecting(g).handle = g.handle /\ Expecting(g).participants = g.participants
      /\ Expecting(g).expected # {} /\ g.received \subseteq Expecting(g).received
  BY DEF Expecting, Snapshot, Timed, Gathering
<1>2. Recorded(g, pid) = [Expecting(g) EXCEPT !.received = @ \cup {pid}]
  BY DEF Recorded
<1>3. Expecting(g) \in Gathering
  <2>1. PidsOf(g) \subseteq UserPids
    BY PidsOfType
  <2> QED
    BY ExpectingType
<1> HIDE DEF Expecting
<1>4. /\ Recorded(g, pid).handle = Expecting(g).handle
      /\ Recorded(g, pid).participants = Expecting(g).participants
      /\ Recorded(g, pid).expected = Expecting(g).expected
      /\ Recorded(g, pid).received = Expecting(g).received \cup {pid}
  BY <1>2, <1>3 DEF Gathering
<1> QED
  BY <1>1, <1>4

\* Locking leaves a waiting batch alone.
LEMMA LockEffect ==
  ASSUME NEW g \in Gathering, Timed(g), NEW h, h = Expecting(set_closed(g, TRUE))
  PROVE  h.handle = g.handle /\ h.received = g.received /\ Timed(h)
<1> DEFINE k == set_closed(g, TRUE)
<1>1. k \in Gathering /\ SameBatch(g, k)
  BY SetClosedType, RosterOpsKeepBatch
<1>2. Timed(k)
  BY <1>1 DEF SameBatch, Timed, Complete
<1> HIDE DEF k
<1>3. CASE k.expected # {}
  BY <1>1, <1>2, <1>3 DEF Expecting, SameBatch, k
<1>4. CASE k.expected = {}
  <2>1. k.received = {} /\ ~k.handle
    BY <1>2, <1>4 DEF Timed
  <2>2. h = [k EXCEPT !.expected = PidsOf(k), !.received = {}]
    BY <1>4 DEF Expecting, Snapshot, k
  <2>3. h.handle = k.handle /\ h.received = {}
    BY <1>1, <2>2 DEF Gathering
  <2> QED
    BY <1>1, <2>1, <2>3 DEF SameBatch, Timed
<1> QED
  BY <1>3, <1>4

\* The three things a step may do with a gathering's timer.
LEMMA TimerStep ==
  ASSUME BatchInv, NEW gid \in DOMAIN by_id, NEW h, by_id' = [by_id EXCEPT ![gid] = h],
         next_gathering_id' = next_gathering_id,
         \/ h.handle = by_id[gid].handle /\ timers' = timers
         \/ /\ h.handle = TRUE /\ by_id[gid].handle = FALSE
            /\ \E p \in Ports : timers' = timers \cup {[gid |-> gid, port |-> p]}
         \/ h.handle = FALSE /\ timers' = {t \in timers : t.gid # gid}
  PROVE  TimersMatchHandles'
<1>1. /\ DOMAIN by_id' = DOMAIN by_id /\ by_id'[gid] = h /\ gid < next_gathering_id
      /\ \A g \in DOMAIN by_id \ {gid} : by_id'[g] = by_id[g]
  BY DEF BatchInv, TypeOK, FreshIds
<1>2. /\ \A g \in DOMAIN by_id : by_id[g].handle <=> (\E t \in timers : t.gid = g)
      /\ \A t, u \in timers : t.gid = u.gid => t = u
      /\ \A t \in timers : t.gid < next_gathering_id
  BY DEF BatchInv, TimersMatchHandles
<1>3. CASE h.handle = by_id[gid].handle /\ timers' = timers
  BY <1>1, <1>2, <1>3 DEF TimersMatchHandles
<1>4. ASSUME h.handle = TRUE, by_id[gid].handle = FALSE, NEW p \in Ports,
             timers' = timers \cup {[gid |-> gid, port |-> p]}
      PROVE  TimersMatchHandles'
  <2> DEFINE x == [gid |-> gid, port |-> p]
  <2>1. x.gid = gid /\ timers' = timers \cup {x} /\ \A t \in timers : t.gid # gid
    BY <1>2, <1>4
  <2> HIDE DEF x
  <2> QED
    BY <1>1, <1>2, <1>4, <2>1 DEF TimersMatchHandles
<1>5. CASE h.handle = FALSE /\ timers' = {t \in timers : t.gid # gid}
  BY <1>1, <1>2, <1>5 DEF TimersMatchHandles
<1> QED
  BY <1>3, <1>4, <1>5

\* Cancelling the handle of a gathering takes its callback out of the loop,
\* also when that callback is the one that is running.
LEMMA CancelEffect ==
  ASSUME BatchInv, NEW gid \in DOMAIN by_id, NEW g, g.handle = by_id[gid].handle,
         NEW pending, \/ pending = timers
                      \/ \E t \in timers : t.gid = gid /\ pending = timers \ {t}
  PROVE  CancelTimer(pending, gid, g) = {t \in timers : t.gid # gid}
BY DEF CancelTimer, BatchInv, TimersMatchHandles

\* BatchTimed is kept by a step that leaves one gathering timed.
LEMMA TimedStep ==
  ASSUME BatchInv, NEW gid \in DOMAIN by_id, NEW h, by_id' = [by_id EXCEPT ![gid] = h],
         Timed(h)
  PROVE  BatchTimed'
BY DEF BatchInv, TypeOK, BatchTimed, Timed, Complete

\* Firing a batch: the timer is gone, the batch is cleared or (after a
\* database fault) keeps its reports, and the totals pushed are those that the
\* tables hold.
LEMMA FireEffect ==
  ASSUME BatchInv, NEW p \in Ports, NEW gid \in DOMAIN by_id, NEW g \in Gathering,
         g.handle = by_id[gid].handle, g.received # {} => g.expected # {},
         NEW pending, \/ pending = timers
                      \/ \E t \in timers : t.gid = gid /\ pending = timers \ {t},
         FireBatch(p, gid, g, pending, txn', career'),
         next_gathering_id' = next_gathering_id, TotalsInStep'
  PROVE  TimersMatchHandles' /\ BatchTimed' /\ PushesInStep'
<1>1. timers' = {t \in timers : t.gid # gid}
  BY CancelEffect DEF FireBatch
<1>2. CASE by_id' = [by_id EXCEPT ![gid] = ClearBatch(g)]
            /\ out' = push_stats_processed(p, g.participants, gid, txn', career')
  <2>1. ClearBatch(g).handle = FALSE /\ ClearBatch(g).received = {}
    BY DEF ClearBatch, Gathering
  <2>2. Timed(ClearBatch(g))
    BY <2>1 DEF Timed
  <2>3. PushesInStep'
    <3>1. ASSUME NEW m \in out'
          PROVE  m.txn = txn'[m.pid] /\ m.cash = career'[m.pid]
      BY <1>2 DEF push_stats_processed
    <3> QED
      BY <3>1 DEF TotalsInStep, PushesInStep, PushedTotalsCurrent
  <2> QED
    BY <1>1, <1>2, <2>1, <2>2, <2>3, TimerStep, TimedStep
<1>3. CASE DbFaults /\ by_id' = [by_id EXCEPT ![gid] = [g EXCEPT !.handle = FALSE]] /\ out' = {}
  <2> DEFINE h == [g EXCEPT !.handle = FALSE]
  <2>1. h.handle = FALSE /\ h.received = g.received /\ h.expected = g.expected
    BY DEF Gathering
  <2>2. Timed(h)
    BY <1>3, <2>1 DEF Timed
  <2>3. by_id' = [by_id EXCEPT ![gid] = h]
    BY <1>3
  <2>4. PushesInStep'
    BY <1>3 DEF PushesInStep, PushedTotalsCurrent
  <2> HIDE DEF h
  <2> QED
    BY <1>1, <2>1, <2>2, <2>3, <2>4, TimerStep, TimedStep
<1> QED
  BY <1>2, <1>3 DEF FireBatch

-----------------------------------------------------------------------------
\* BatchInv is inductive.

\* A step that keeps batches.
LEMMA KeepsBatchesEffect ==
  ASSUME BatchInv, KeepsBatches
  PROVE  TimersMatchHandles' /\ BatchTimed' /\ PushesInStep' /\ TotalsInStep'
<1>0. next_gathering_id \in Nat /\ \A t \in timers : t.gid < next_gathering_id /\ t.gid \in Nat
  <2>1. next_gathering_id \in Nat
    BY GatheringsAssumption DEF BatchInv, TypeOK, FirstGid
  <2>2. \A t \in timers : t.gid \in Nat
    BY GidsNat DEF BatchInv, TypeOK, Timer
  <2> QED
    BY <2>1, <2>2 DEF BatchInv, TimersMatchHandles
<1>1. \A g \in DOMAIN by_id' :
        \/ /\ g \in DOMAIN by_id /\ by_id'[g].handle = by_id[g].handle
           /\ by_id'[g].expected = by_id[g].expected /\ by_id'[g].received = by_id[g].received
        \/ g = next_gathering_id /\ by_id'[g].received = {} /\ ~by_id'[g].handle
  BY DEF KeepsBatches, SameBatch
<1>2. /\ timers' = timers /\ txn' = txn /\ career' = career
      /\ next_gathering_id' \in {next_gathering_id, next_gathering_id + 1}
      /\ \A m \in out' : m.kind # "stats"
  BY DEF KeepsBatches
<1>3. TimersMatchHandles'
  <2>1. ASSUME NEW g \in DOMAIN by_id'
        PROVE  by_id'[g].handle <=> (\E t \in timers : t.gid = g)
    <3>1. CASE g \in DOMAIN by_id /\ by_id'[g].handle = by_id[g].handle
      BY <3>1 DEF BatchInv, TimersMatchHandles
    <3>2. CASE g = next_gathering_id /\ ~by_id'[g].handle
      BY <1>0, <3>2
    <3> QED
      BY <1>1, <3>1, <3>2
  <2>2. \A t \in timers : t.gid < next_gathering_id'
    BY <1>0, <1>2
  <2>3. \A t, u \in timers : t.gid = u.gid => t = u
    BY DEF BatchInv, TimersMatchHandles
  <2> QED
    BY <1>2, <2>1, <2>2, <2>3 DEF TimersMatchHandles
<1>4. BatchTimed'
  BY <1>1 DEF BatchInv, BatchTimed, Complete
<1>5. PushesInStep' /\ TotalsInStep'
  BY <1>2 DEF BatchInv, PushesInStep, PushedTotalsCurrent, TotalsInStep
<1> QED
  BY <1>3, <1>4, <1>5

\* Locking.
LEMMA CloseParticipationBatch ==
  ASSUME BatchInv, NEW p \in Ports, NEW r \in Remotes, NEW gid, CloseParticipation(p, r, gid)
  PROVE  TimersMatchHandles' /\ BatchTimed' /\ PushesInStep' /\ TotalsInStep'
<1> DEFINE h == Expecting(set_closed(by_id[gid], TRUE))
<1>1. /\ gid \in DOMAIN by_id /\ by_id' = [by_id EXCEPT ![gid] = h]
      /\ UNCHANGED <<next_gathering_id, timers, txn, career>> /\ out' = {}
  BY DEF CloseParticipation
<1>2. by_id[gid] \in Gathering /\ Timed(by_id[gid])
  BY <1>1, LiveGathering DEF BatchInv, BatchTimed, Timed
<1>3. h.handle = by_id[gid].handle /\ Timed(h)
  BY <1>2, LockEffect
<1>4. PushesInStep' /\ TotalsInStep'
  BY <1>1 DEF BatchInv, PushesInStep, PushedTotalsCurrent, TotalsInStep
<1> HIDE DEF h
<1> QED
  BY <1>1, <1>3, <1>4, TimerStep, TimedStep

\* Reporting.
LEMMA ReportBatch ==
  ASSUME BatchInv, NEW p \in Ports, NEW r \in Remotes, NEW stored \in BOOLEAN,
         ReportStats(p, r, stored)
  PROVE  TimersMatchHandles' /\ BatchTimed' /\ PushesInStep' /\ TotalsInStep'
<1> DEFINE pid  == Caller(p, r)
           mine == Containing(by_id, pid)
           gid  == First(mine)
           g    == Recorded(by_id[gid], pid)
<1>1. pid \in UserPids /\ next_gathering_id' = next_gathering_id
  BY CallerType DEF ReportStats, BatchInv, TypeOK
<1>2. TotalsInStep'
  <2>1. CASE DbFaults
    BY <2>1, LobbyAssumption DEF TotalsInStep
  <2>2. CASE ~DbFaults
    <3>1. stored /\ txn' = [txn EXCEPT ![pid] = @ + 1]
      BY <2>2 DEF ReportStats
    <3>2. career' = [career EXCEPT ![pid] = txn[pid] + 1] /\ txn = career
      BY <2>2, <3>1 DEF ReportStats, BatchInv, TotalsInStep
    <3> HIDE DEF pid
    <3> QED
      BY <3>1, <3>2 DEF TotalsInStep
  <2> QED
    BY <2>1, <2>2
<1>3. CASE mine = {} /\ UNCHANGED <<by_id, timers>> /\ out' = {}
  BY <1>1, <1>2, <1>3 DEF BatchInv, TimersMatchHandles, BatchTimed, Complete, PushesInStep, PushedTotalsCurrent
<1>4. ASSUME mine # {}
      PROVE  /\ gid \in DOMAIN by_id /\ g \in Gathering
             /\ g.handle = by_id[gid].handle /\ g.expected # {} /\ g.received # {}
  <2>1. mine \in SUBSET Nat
    BY GidsNat DEF BatchInv, TypeOK, Containing
  <2>2. gid \in mine
    BY <2>1, <1>4, FirstInSet
  <2>3. gid \in DOMAIN by_id /\ pid \in PidsOf(by_id[gid])
    BY <2>2 DEF Containing
  <2> HIDE DEF pid, mine, gid
  <2>4. by_id[gid] \in Gathering /\ Timed(by_id[gid])
    BY <2>3, LiveGathering DEF BatchInv, BatchTimed, Timed
  <2>5. g \in Gathering
    BY <1>1, <2>4, RecordedType
  <2> QED
    BY <2>3, <2>4, <2>5, RecordedEffect
<1>5. CASE mine # {} /\ ~Complete(g) /\ AwaitReports(p, gid, g)
  <2> HIDE DEF pid, mine, gid, g
  <2> DEFINE h == [g EXCEPT !.handle = TRUE]
  <2>1. /\ by_id' = [by_id EXCEPT ![gid] = h] /\ out' = {}
        /\ timers' = IF g.handle THEN timers ELSE timers \cup {[gid |-> gid, port |-> p]}
    BY <1>5 DEF AwaitReports
  <2>2. h.handle = TRUE /\ h.received = g.received /\ h.expected = g.expected
    BY <1>4, <1>5 DEF Gathering
  <2>3. Timed(h)
    BY <1>4, <1>5, <2>2 DEF Timed, Complete
  <2>4. g.handle \in BOOLEAN
    BY <1>4, <1>5 DEF Gathering
  <2>5. PushesInStep'
    BY <2>1 DEF PushesInStep, PushedTotalsCurrent
  <2> HIDE DEF h
  <2>6. TimersMatchHandles'
    <3>1. CASE g.handle = TRUE
      BY <1>1, <1>4, <1>5, <2>1, <2>2, <3>1, TimerStep
    <3>2. CASE g.handle = FALSE
      BY <1>1, <1>4, <1>5, <2>1, <2>2, <3>2, TimerStep
    <3> QED
      BY <2>4, <3>1, <3>2
  <2> QED
    BY <1>2, <1>4, <1>5, <2>1, <2>3, <2>5, <2>6, TimedStep
<1>6. CASE mine # {} /\ FireBatch(p, gid, g, timers, txn', career')
  <2> HIDE DEF pid, mine, gid, g
  <2> QED
    BY <1>1, <1>2, <1>4, <1>6, FireEffect
<1> QED
  BY <1>3, <1>5, <1>6 DEF ReportStats

\* EndGame.
LEMMA EndGameBatch ==
  ASSUME BatchInv, NEW p \in Ports, NEW r \in Remotes, NEW gid, EndGame(p, r, gid)
  PROVE  TimersMatchHandles' /\ BatchTimed' /\ PushesInStep' /\ TotalsInStep'
<1> DEFINE mine   == Containing(by_id, Caller(p, r))
           target == IF gid \in DOMAIN by_id THEN gid ELSE First(mine)
           h      == ClearBatch(by_id[target])
<1>1. /\ timers' = CancelTimer(timers, target, by_id[target])
      /\ by_id' = [by_id EXCEPT ![target] = h] /\ out' = {}
      /\ UNCHANGED <<next_gathering_id, txn, career>>
      /\ gid \in DOMAIN by_id \/ mine # {}
  BY DEF EndGame
<1>2. target \in DOMAIN by_id
  <2>1. mine \in SUBSET Nat /\ mine \subseteq DOMAIN by_id
    BY GidsNat DEF BatchInv, TypeOK, Containing
  <2>2. mine # {} => First(mine) \in DOMAIN by_id
    BY <2>1, FirstInSet
  <2> QED
    BY <1>1, <2>2
<1> HIDE DEF target, mine
<1>3. by_id[target] \in Gathering
  BY <1>2, LiveGathering DEF BatchInv
<1>4. h.handle = FALSE /\ h.received = {}
  BY <1>3 DEF ClearBatch, Gathering
<1>5. Timed(h)
  BY <1>4 DEF Timed
<1>6. timers' = {t \in timers : t.gid # target}
  BY <1>1, <1>2, CancelEffect
<1>7. PushesInStep' /\ TotalsInStep'
  BY <1>1 DEF BatchInv, PushesInStep, PushedTotalsCurrent, TotalsInStep
<1> HIDE DEF h
<1> QED
  BY <1>1, <1>2, <1>4, <1>5, <1>6, <1>7, TimerStep, TimedStep

\* The timer callback.  By TimersMatchHandles and BatchTimed the guards of
\* _on_m12_timeout for an empty or complete batch never apply: a callback
\* whose gathering is alive finds a waiting batch.
LEMMA TimeoutBatch ==
  ASSUME BatchInv, OnM12Timeout
  PROVE  TimersMatchHandles' /\ BatchTimed' /\ PushesInStep' /\ TotalsInStep'
<1>1. PICK t \in timers :
        /\ TimeoutFires(t) \/ TimeoutIgnored(t)
        /\ UNCHANGED <<connections, heap, owner_pid_to_id, next_gathering_id, txn, career>>
  BY DEF OnM12Timeout
<1>2. TotalsInStep'
  BY <1>1 DEF BatchInv, TotalsInStep
<1>3. CASE TimeoutFires(t)
  <2>1. /\ t.gid \in DOMAIN by_id
        /\ FireBatch(t.port, t.gid, by_id[t.gid], timers \ {t}, txn', career')
    BY <1>1, <1>3 DEF TimeoutFires
  <2>2. by_id[t.gid] \in Gathering /\ t.port \in Ports
    BY <2>1, LiveGathering DEF BatchInv, TypeOK, Timer
  <2>3. by_id[t.gid].received # {} => by_id[t.gid].expected # {}
    BY <2>1 DEF BatchInv, BatchTimed
  <2> QED
    BY <1>1, <1>2, <2>1, <2>2, <2>3, FireEffect
<1>4. CASE TimeoutIgnored(t)
  <2>1. t.gid \notin DOMAIN by_id
    BY <1>4 DEF BatchInv, TimersMatchHandles, BatchTimed, TimeoutIgnored
  <2>2. by_id' = by_id /\ timers' = timers \ {t} /\ out' = {}
    BY <1>4, <2>1 DEF BatchInv, TypeOK, TimeoutIgnored
  <2>3. TimersMatchHandles'
    BY <1>1, <2>1, <2>2 DEF BatchInv, TimersMatchHandles
  <2> QED
    BY <1>2, <2>2, <2>3 DEF BatchInv, BatchTimed, Complete, PushesInStep, PushedTotalsCurrent
<1> QED
  BY <1>1, <1>3, <1>4

\* BatchInv holds initially, and every step keeps it.
LEMMA BatchInvInductive ==
  /\ Init => BatchInv
  /\ BatchInv /\ RosterInv' /\ [Next]_vars => BatchInv'
<1>1. ASSUME Init PROVE BatchInv
  <2>1. TypeOK
    BY <1>1, TypeInductive
  <2> QED
    BY <1>1, <2>1 DEF Init, BatchInv, FreshIds, TimersMatchHandles, BatchTimed, TotalsInStep,
                      PushesInStep, PushedTotalsCurrent
<1>2. ASSUME BatchInv, RosterInv', [Next]_vars PROVE BatchInv'
  <2>1. TypeOK' /\ FreshIds'
    BY <1>2 DEF RosterInv
  <2>2. TimersMatchHandles' /\ BatchTimed' /\ PushesInStep' /\ TotalsInStep'
    <3>1. TypeOK /\ FreshIds
      BY <1>2 DEF BatchInv
    <3>2. CASE UNCHANGED vars
      BY <1>2, <3>2 DEF vars, BatchInv, TimersMatchHandles, BatchTimed, Complete, TotalsInStep,
                        PushesInStep, PushedTotalsCurrent
    <3> QED
      BY <1>2, <3>1, <3>2, KeepsBatchesSteps, KeepsBatchesEffect, CloseParticipationBatch, ReportBatch,
         EndGameBatch, TimeoutBatch
  <2> QED
    BY <2>1, <2>2 DEF BatchInv
<1> QED
  BY <1>1, <1>2

\* In every reachable state, for all constants, the stats batches, their
\* timers and the totals pushed fit together.
THEOREM BatchCorrect == Spec => []BatchInv
<1>1. Init => BatchInv
  BY BatchInvInductive
<1>2. BatchInv /\ RosterInv' /\ [Next]_vars => BatchInv'
  BY BatchInvInductive
<1> QED
  BY <1>1, <1>2, RosterCorrect, PTL DEF Spec

\* A handle is held exactly while its callback is in the event loop.
THEOREM TimersCorrect == Spec => []TimersMatchHandles
BY BatchCorrect, PTL DEF BatchInv

\* A waiting batch has reports, misses some, and has its timer armed.
THEOREM BatchTimedCorrect == Spec => []BatchTimed
BY BatchCorrect, PTL DEF BatchInv

\* While the database works, a stats notification pairs its recipient's latest
\* txn id with the career cash of that upload.
THEOREM PushedTotalsCorrect ==
  ASSUME DbFaults = FALSE
  PROVE  Spec => []PushedTotalsCurrent
<1>1. BatchInv => PushedTotalsCurrent
  BY DEF BatchInv, PushesInStep
<1> QED
  BY <1>1, BatchCorrect, PTL

-----------------------------------------------------------------------------
\* Reports are not dropped.

\* Storing a gathering that has all the reports of the one it replaces.
LEMMA StoreReportsKept ==
  ASSUME TypeOK, NEW gid \in DOMAIN by_id, NEW h, by_id' = [by_id EXCEPT ![gid] = h],
         by_id[gid].received \subseteq h.received
  PROVE  ReportsKept
BY DEF TypeOK, ReportsKept, LiveBefore, LiveAfter

\* Firing a batch pushes for every report it clears, unless nobody is there to
\* be told; after a database fault the reports stay.
LEMMA FireReportsKept ==
  ASSUME TypeOK, NEW p \in Ports, NEW gid \in DOMAIN by_id, NEW g \in Gathering,
         g.participants = by_id[gid].participants, by_id[gid].received \subseteq g.received,
         NEW pending, NEW txns, NEW cash, FireBatch(p, gid, g, pending, txns, cash)
  PROVE  ReportsKept
<1>1. CASE by_id' = [by_id EXCEPT ![gid] = ClearBatch(g)]
            /\ out' = push_stats_processed(p, g.participants, gid, txns, cash)
  <2>1. ClearBatch(g).received = {}
    BY DEF ClearBatch, Gathering
  <2>2. \/ Reachable(p, by_id[gid].participants) = {}
        \/ \E m \in out' : m.kind = "stats" /\ m.gid = gid
    <3>1. Reachable(p, by_id[gid].participants) = Reachable(p, g.participants)
      BY Zenon
    <3>2. ASSUME NEW q \in Reachable(p, g.participants)
          PROVE  \E m \in out' : m.kind = "stats" /\ m.gid = gid
      <4> DEFINE m == [kind |-> "stats", to |-> connections[p][q.remote], pid |-> q.pid,
                       gid |-> gid, txn |-> txns[q.pid], cash |-> cash[q.pid]]
      <4>1. m \in out'
        BY <1>1, Zenon DEF push_stats_processed
      <4>2. m.kind = "stats" /\ m.gid = gid
        OBVIOUS
      <4> HIDE DEF m
      <4> QED
        BY <4>1, <4>2
    <3> QED
      BY <3>1, <3>2, Zenon
  <2>3. \A k \in DOMAIN by_id : by_id'[k] = IF k = gid THEN ClearBatch(g) ELSE by_id[k]
    BY <1>1 DEF TypeOK
  <2> QED
    BY <2>1, <2>2, <2>3 DEF ReportsKept, LiveBefore, LiveAfter
<1>2. CASE by_id' = [by_id EXCEPT ![gid] = [g EXCEPT !.handle = FALSE]]
  <2> DEFINE h == [g EXCEPT !.handle = FALSE]
  <2>1. h.received = g.received
    BY DEF Gathering
  <2>2. by_id' = [by_id EXCEPT ![gid] = h]
    BY <1>2
  <2> HIDE DEF h
  <2> QED
    BY <2>1, <2>2, StoreReportsKept
<1> QED
  BY <1>1, <1>2 DEF FireBatch

\* Every step keeps the reports it does not push or cancel.
LEMMA ReportsKeptStep ==
  ASSUME BatchInv, [Next]_vars
  PROVE  ReportsKept
<1>0. TypeOK /\ FreshIds
  BY DEF BatchInv
<1>1. CASE UNCHANGED vars \/ KeepsBatches
  BY <1>1 DEF vars, KeepsBatches, SameBatch, ReportsKept, LiveBefore, LiveAfter
<1>2. ASSUME NEW p \in Ports, NEW r \in Remotes, NEW gid, CloseParticipation(p, r, gid)
      PROVE  ReportsKept
  <2> DEFINE h == Expecting(set_closed(by_id[gid], TRUE))
  <2>1. gid \in DOMAIN by_id /\ by_id' = [by_id EXCEPT ![gid] = h]
    BY <1>2 DEF CloseParticipation
  <2>2. by_id[gid] \in Gathering /\ Timed(by_id[gid])
    BY <1>0, <2>1, LiveGathering DEF BatchInv, BatchTimed, Timed
  <2>3. h.received = by_id[gid].received
    BY <2>2, LockEffect
  <2> HIDE DEF h
  <2> QED
    BY <1>0, <2>1, <2>3, StoreReportsKept
<1>3. ASSUME NEW p \in Ports, NEW r \in Remotes, NEW stored \in BOOLEAN,
             ReportStats(p, r, stored)
      PROVE  ReportsKept
  <2> DEFINE pid  == Caller(p, r)
             mine == Containing(by_id, pid)
             gid  == First(mine)
             g    == Recorded(by_id[gid], pid)
  <2>1. pid \in UserPids
    BY <1>0, <1>3, CallerType DEF ReportStats, TypeOK
  <2>2. CASE by_id' = by_id
    BY <2>2 DEF ReportsKept
  <2>3. ASSUME mine # {}
        PROVE  /\ gid \in DOMAIN by_id /\ g \in Gathering
               /\ g.participants = by_id[gid].participants
               /\ by_id[gid].received \subseteq g.received
    <3>1. mine \in SUBSET Nat
      BY GidsNat DEF BatchInv, TypeOK, Containing
    <3>2. gid \in mine
      BY <3>1, <2>3, FirstInSet
    <3>3. gid \in DOMAIN by_id /\ pid \in PidsOf(by_id[gid])
      BY <3>2 DEF Containing
    <3> HIDE DEF pid, mine, gid
    <3>4. by_id[gid] \in Gathering /\ Timed(by_id[gid])
      BY <1>0, <3>3, LiveGathering DEF BatchInv, BatchTimed, Timed
    <3>5. g \in Gathering
      BY <2>1, <3>4, RecordedType
    <3> QED
      BY <3>3, <3>4, <3>5, RecordedEffect
  <2>4. CASE mine # {} /\ AwaitReports(p, gid, g)
    <3> HIDE DEF pid, mine, gid, g
    <3> DEFINE h == [g EXCEPT !.handle = TRUE]
    <3>1. by_id' = [by_id EXCEPT ![gid] = h]
      BY <2>4 DEF AwaitReports
    <3>2. h.received = g.received
      BY <2>3, <2>4 DEF Gathering
    <3> HIDE DEF h
    <3> QED
      BY <1>0, <2>3, <2>4, <3>1, <3>2, StoreReportsKept
  <2>5. CASE mine # {} /\ FireBatch(p, gid, g, timers, txn', career')
    <3> HIDE DEF pid, mine, gid, g
    <3> QED
      BY <1>0, <2>3, <2>5, FireReportsKept
  <2> QED
    BY <1>3, <2>2, <2>4, <2>5 DEF ReportStats
<1>4. ASSUME NEW p \in Ports, NEW r \in Remotes, NEW gid \in Gids \cup {0}, EndGame(p, r, gid)
      PROVE  ReportsKept
  <2> DEFINE mine   == Containing(by_id, Caller(p, r))
             target == IF gid \in DOMAIN by_id THEN gid ELSE First(mine)
  <2>1. by_id' = [by_id EXCEPT ![target] = ClearBatch(by_id[target])]
    BY <1>4 DEF EndGame
  <2> HIDE DEF target
  <2>2. \A k \in DOMAIN by_id :
          by_id'[k] = by_id[k] \/ (k = target /\ by_id'[k] = ClearBatch(by_id[k]))
    BY <2>1 DEF BatchInv, TypeOK
  <2>3. \A k \in DOMAIN by_id : ClearBatch(by_id[k]).received = {}
    BY <1>0, LiveGathering DEF ClearBatch, Gathering
  <2> QED
    BY <1>4, <2>2, <2>3 DEF ReportsKept, LiveBefore, LiveAfter
<1>5. CASE OnM12Timeout
  <2>1. PICK t \in timers : TimeoutFires(t) \/ TimeoutIgnored(t)
    BY <1>5 DEF OnM12Timeout
  <2>2. CASE TimeoutFires(t)
    <3>1. /\ t.gid \in DOMAIN by_id
          /\ FireBatch(t.port, t.gid, by_id[t.gid], timers \ {t}, txn, career)
      BY <2>2 DEF TimeoutFires
    <3>2. by_id[t.gid] \in Gathering /\ t.port \in Ports
      BY <1>0, <3>1, LiveGathering DEF TypeOK, Timer
    <3> QED
      BY <1>0, <3>1, <3>2, FireReportsKept
  <2>3. CASE TimeoutIgnored(t)
    <3>1. \A k \in DOMAIN by_id : [by_id[k] EXCEPT !.handle = FALSE].received = by_id[k].received
      BY <1>0, LiveGathering DEF Gathering
    <3>2. \A k \in DOMAIN by_id' :
            by_id'[k] \in {by_id[k], [by_id[k] EXCEPT !.handle = FALSE]}
      BY <2>3 DEF TimeoutIgnored
    <3> QED
      BY <3>1, <3>2 DEF ReportsKept, LiveBefore, LiveAfter
  <2> QED
    BY <2>1, <2>2, <2>3
<1> QED
  BY <1>0, <1>1, <1>2, <1>3, <1>4, <1>5, KeepsBatchesSteps

\* No lock, re-open, repeated upload, join or close ever restarts the
\* collection of reports: they go only with a push or an EndGame.
THEOREM ReportsCorrect == Spec => ReportsNotDropped
<1>1. BatchInv /\ [Next]_vars => [ReportsKept]_vars
  BY ReportsKeptStep
<1> QED
  BY <1>1, BatchCorrect, PTL DEF Spec, ReportsNotDropped

-----------------------------------------------------------------------------
\* The versions of the stats that consoles hold.

\* No player was told a number that the server had not reached, and a player
\* whose report waits was told a smaller one.
VersionsInv ==
  /\ told \in [Gids -> [UserPids -> Nat]]
  /\ \A g \in Gids, pid \in UserPids : told[g][pid] <= txn[pid]
  /\ \A g \in DOMAIN by_id : \A pid \in by_id[g].received : told[g][pid] < txn[pid]

\* What VersionsInv needs of a step: txn ids only grow, a push carries the id
\* of its recipient and ends the batch, and whoever is new among the received
\* reports has got a new id.
Numbers ==
  /\ \A pid \in UserPids : txn[pid] <= txn'[pid]
  /\ \A m \in out' : m.kind = "stats" =>
       /\ m.gid \in DOMAIN by_id /\ m.gid \in DOMAIN by_id' /\ m.pid \in UserPids
       /\ m.txn = txn'[m.pid] /\ by_id'[m.gid].received = {}
  /\ \A g \in DOMAIN by_id' : \A pid \in by_id'[g].received :
       \/ g \in DOMAIN by_id /\ pid \in by_id[g].received
       \/ txn[pid] < txn'[pid]

\* A report adds its sender to the batch and nobody else.
LEMMA RecordedOnly ==
  ASSUME NEW g \in Gathering, NEW pid \in UserPids
  PROVE  Recorded(g, pid).received \subseteq g.received \cup {pid}
<1>1. Expecting(g) \in Gathering /\ Expecting(g).received \subseteq g.received
  BY ExpectingType DEF Expecting, Snapshot, Gathering
<1> QED
  BY <1>1 DEF Recorded, Gathering

\* Storing a gathering whose reports are old, or of players with new ids.
LEMMA StoreNumbers ==
  ASSUME TypeOK, NEW gid \in DOMAIN by_id, NEW h, by_id' = [by_id EXCEPT ![gid] = h],
         \A pid \in h.received : pid \in by_id[gid].received \/ txn[pid] < txn'[pid],
         \A pid \in UserPids : txn[pid] <= txn'[pid],
         \A m \in out' : m.kind # "stats"
  PROVE  Numbers
BY DEF Numbers, TypeOK

\* Firing a batch.
LEMMA FireNumbers ==
  ASSUME TypeOK, NEW p \in Ports, NEW gid \in DOMAIN by_id, NEW g \in Gathering,
         NEW pending, NEW cash, FireBatch(p, gid, g, pending, txn', cash),
         \A pid \in g.received : pid \in by_id[gid].received \/ txn[pid] < txn'[pid],
         \A pid \in UserPids : txn[pid] <= txn'[pid]
  PROVE  Numbers
<1>1. CASE by_id' = [by_id EXCEPT ![gid] = ClearBatch(g)]
            /\ out' = push_stats_processed(p, g.participants, gid, txn', cash)
  <2>1. ClearBatch(g).received = {}
    BY DEF ClearBatch, Gathering
  <2>2. ASSUME NEW m \in out'
        PROVE  m.gid = gid /\ m.pid \in UserPids /\ m.txn = txn'[m.pid]
    BY <1>1 DEF push_stats_processed, Reachable, Gathering, ParticipantType
  <2>3. /\ DOMAIN by_id' = DOMAIN by_id /\ by_id'[gid].received = {}
        /\ \A k \in DOMAIN by_id \ {gid} : by_id'[k] = by_id[k]
    BY <1>1, <2>1 DEF TypeOK
  <2> QED
    BY <2>2, <2>3 DEF Numbers
<1>2. CASE by_id' = [by_id EXCEPT ![gid] = [g EXCEPT !.handle = FALSE]] /\ out' = {}
  <2> DEFINE h == [g EXCEPT !.handle = FALSE]
  <2>1. h.received = g.received
    BY DEF Gathering
  <2>2. by_id' = [by_id EXCEPT ![gid] = h] /\ out' = {}
    BY <1>2
  <2> HIDE DEF h
  <2> QED
    BY <2>1, <2>2, StoreNumbers
<1> QED
  BY <1>1, <1>2 DEF FireBatch

\* Every step of the server numbers its pushes that way.
LEMMA NumbersStep ==
  ASSUME BatchInv, Next
  PROVE  Numbers
<1>0. /\ TypeOK /\ FreshIds
      /\ \A pid \in UserPids : txn[pid] \in Nat
  BY DEF BatchInv, TypeOK
<1>1. CASE KeepsBatches
  <2>1. txn' = txn /\ \A m \in out' : m.kind # "stats"
    BY <1>1 DEF KeepsBatches
  <2>2. \A g \in DOMAIN by_id' : \A pid \in by_id'[g].received :
          g \in DOMAIN by_id /\ pid \in by_id[g].received
    BY <1>1 DEF KeepsBatches, SameBatch
  <2> QED
    BY <1>0, <2>1, <2>2 DEF Numbers
<1>2. ASSUME NEW p \in Ports, NEW r \in Remotes, NEW gid, CloseParticipation(p, r, gid)
      PROVE  Numbers
  <2> DEFINE h == Expecting(set_closed(by_id[gid], TRUE))
  <2>1. /\ gid \in DOMAIN by_id /\ by_id' = [by_id EXCEPT ![gid] = h]
        /\ txn' = txn /\ out' = {}
    BY <1>2 DEF CloseParticipation
  <2>2. by_id[gid] \in Gathering /\ Timed(by_id[gid])
    BY <1>0, <2>1, LiveGathering DEF BatchInv, BatchTimed, Timed
  <2>3. h.received = by_id[gid].received
    BY <2>2, LockEffect
  <2> HIDE DEF h
  <2>4. \A pid \in UserPids : txn[pid] <= txn'[pid]
    BY <1>0, <2>1
  <2>5. /\ \A pid \in h.received : pid \in by_id[gid].received
        /\ \A m \in out' : m.kind # "stats"
    BY <2>1, <2>3
  <2> QED
    BY <1>0, <2>1, <2>4, <2>5, StoreNumbers
<1>3. ASSUME NEW p \in Ports, NEW r \in Remotes, NEW stored \in BOOLEAN,
             ReportStats(p, r, stored)
      PROVE  Numbers
  <2> DEFINE pid  == Caller(p, r)
             mine == Containing(by_id, pid)
             gid  == First(mine)
             g    == Recorded(by_id[gid], pid)
  <2>1. pid \in UserPids /\ txn' = [txn EXCEPT ![pid] = @ + 1]
    BY <1>0, <1>3, CallerType DEF ReportStats, TypeOK
  <2>2. /\ txn[pid] < txn'[pid]
        /\ \A q \in UserPids : txn[q] <= txn'[q]
    <3> HIDE DEF pid
    <3> QED
      BY <1>0, <2>1 DEF TypeOK
  <2>3. CASE mine = {} /\ by_id' = by_id /\ out' = {}
    BY <2>2, <2>3 DEF Numbers
  <2>4. ASSUME mine # {}
        PROVE  /\ gid \in DOMAIN by_id /\ g \in Gathering
               /\ \A q \in g.received : q \in by_id[gid].received \/ txn[q] < txn'[q]
    <3>1. mine \in SUBSET Nat
      BY GidsNat DEF BatchInv, TypeOK, Containing
    <3>2. gid \in mine
      BY <3>1, <2>4, FirstInSet
    <3>3. gid \in DOMAIN by_id
      BY <3>2 DEF Containing
    <3> HIDE DEF pid, mine, gid
    <3>4. by_id[gid] \in Gathering
      BY <1>0, <3>3, LiveGathering
    <3>5. g \in Gathering /\ g.received \subseteq by_id[gid].received \cup {pid}
      BY <2>1, <3>4, RecordedType, RecordedOnly
    <3> HIDE DEF g
    <3> QED
      BY <2>2, <3>3, <3>5
  <2>5. CASE mine # {} /\ AwaitReports(p, gid, g)
    <3> HIDE DEF pid, mine, gid, g
    <3> DEFINE h == [g EXCEPT !.handle = TRUE]
    <3>1. by_id' = [by_id EXCEPT ![gid] = h] /\ out' = {}
      BY <2>5 DEF AwaitReports
    <3>2. h.received = g.received
      BY <2>4, <2>5 DEF Gathering
    <3> HIDE DEF h
    <3> QED
      BY <1>0, <2>2, <2>4, <2>5, <3>1, <3>2, StoreNumbers
  <2>6. CASE mine # {} /\ FireBatch(p, gid, g, timers, txn', career')
    <3> HIDE DEF pid, mine, gid, g
    <3> QED
      BY <1>0, <2>2, <2>4, <2>6, FireNumbers
  <2> QED
    BY <1>3, <2>3, <2>5, <2>6 DEF ReportStats
<1>4. ASSUME NEW p \in Ports, NEW r \in Remotes, NEW gid \in Gids \cup {0}, EndGame(p, r, gid)
      PROVE  Numbers
  <2> DEFINE mine   == Containing(by_id, Caller(p, r))
             target == IF gid \in DOMAIN by_id THEN gid ELSE First(mine)
  <2>1. /\ by_id' = [by_id EXCEPT ![target] = ClearBatch(by_id[target])]
        /\ txn' = txn /\ out' = {}
    BY <1>4 DEF EndGame
  <2> HIDE DEF target
  <2>2. \A k \in DOMAIN by_id :
          by_id'[k] = by_id[k] \/ by_id'[k] = ClearBatch(by_id[k])
    BY <2>1 DEF BatchInv, TypeOK
  <2>3. \A k \in DOMAIN by_id : ClearBatch(by_id[k]).received = {}
    BY <1>0, LiveGathering DEF ClearBatch, Gathering
  <2>4. DOMAIN by_id' = DOMAIN by_id
    BY <2>1
  <2> QED
    BY <1>0, <2>1, <2>2, <2>3, <2>4 DEF Numbers
<1>5. CASE OnM12Timeout
  <2>1. PICK t \in timers : (TimeoutFires(t) \/ TimeoutIgnored(t)) /\ txn' = txn
    BY <1>5 DEF OnM12Timeout
  <2>0. \A pid \in UserPids : txn[pid] <= txn'[pid]
    BY <1>0, <2>1
  <2>2. CASE TimeoutFires(t)
    <3>1. /\ t.gid \in DOMAIN by_id
          /\ FireBatch(t.port, t.gid, by_id[t.gid], timers \ {t}, txn', career)
      BY <2>1, <2>2 DEF TimeoutFires
    <3>2. by_id[t.gid] \in Gathering /\ t.port \in Ports
      BY <1>0, <3>1, LiveGathering DEF TypeOK, Timer
    <3> QED
      BY <1>0, <2>0, <3>1, <3>2, FireNumbers
  <2>3. CASE TimeoutIgnored(t)
    <3>1. \A k \in DOMAIN by_id : [by_id[k] EXCEPT !.handle = FALSE].received = by_id[k].received
      BY <1>0, LiveGathering DEF Gathering
    <3>2. /\ DOMAIN by_id' = DOMAIN by_id /\ out' = {}
          /\ \A k \in DOMAIN by_id : by_id'[k] \in {by_id[k], [by_id[k] EXCEPT !.handle = FALSE]}
      BY <2>3 DEF TimeoutIgnored
    <3>3. \A k \in DOMAIN by_id' : k \in DOMAIN by_id /\ by_id'[k].received = by_id[k].received
      BY <3>1, <3>2
    <3> QED
      BY <2>0, <3>2, <3>3 DEF Numbers
  <2> QED
    BY <2>1, <2>2, <2>3
<1> QED
  BY <1>0, <1>1, <1>2, <1>3, <1>4, <1>5, KeepsBatchesSteps

\* Remembering the pushes of a step: each account was told its own number.
LEMMA VersionedEffect ==
  ASSUME BatchInv, TypeOK', VersionsInv, Numbers, Versioned
  PROVE  VersionsInv'
<1>0. \A pid \in UserPids : txn[pid] \in Nat /\ txn'[pid] \in Nat /\ txn[pid] <= txn'[pid]
  BY DEF BatchInv, TypeOK, Numbers
<1>1. ASSUME NEW g \in Gids, NEW pid \in UserPids
      PROVE  \/ told'[g][pid] = told[g][pid]
             \/ told'[g][pid] = txn'[pid] /\ by_id'[g].received = {}
  <2>1. told'[g][pid] = IF StatsFor(g, pid) = {} THEN told[g][pid]
                                                ELSE (CHOOSE m \in StatsFor(g, pid) : TRUE).txn
    BY DEF Versioned
  <2>2. ASSUME NEW m \in StatsFor(g, pid)
        PROVE  m.txn = txn'[pid] /\ by_id'[g].received = {}
    BY <2>2 DEF StatsFor, Numbers
  <2> QED
    BY <2>1, <2>2
<1>2. told' \in [Gids -> [UserPids -> Nat]]
  <2>1. \A g \in Gids, pid \in UserPids : told'[g][pid] \in Nat
    BY <1>0, <1>1 DEF VersionsInv
  <2>2. \A g \in Gids : told'[g] \in [UserPids -> Nat]
    <3> TAKE g \in Gids
    <3> DEFINE v(pid) == IF StatsFor(g, pid) = {} THEN told[g][pid]
                                                  ELSE (CHOOSE m \in StatsFor(g, pid) : TRUE).txn
    <3>1. told'[g] = [pid \in UserPids |-> v(pid)]
      BY DEF Versioned
    <3> HIDE DEF v
    <3> QED
      BY <2>1, <3>1
  <2> QED
    BY <2>2 DEF Versioned
<1>3. \A g \in Gids, pid \in UserPids : told'[g][pid] <= txn'[pid]
  <2>1. \A g \in Gids, pid \in UserPids : told[g][pid] \in Nat /\ told[g][pid] <= txn[pid]
    BY DEF VersionsInv
  <2> QED
    BY <1>0, <1>1, <2>1
<1>4. ASSUME NEW g \in DOMAIN by_id', NEW pid \in by_id'[g].received
      PROVE  told'[g][pid] < txn'[pid]
  <2>1. g \in Gids /\ pid \in UserPids
    BY DEF TypeOK, Gathering
  <2>2. told'[g][pid] = told[g][pid] /\ told[g][pid] \in Nat /\ told[g][pid] <= txn[pid]
    BY <1>1, <1>4, <2>1 DEF VersionsInv
  <2>3. told[g][pid] < txn[pid] \/ txn[pid] < txn'[pid]
    BY <1>4 DEF Numbers, VersionsInv
  <2> QED
    BY <1>0, <2>1, <2>2, <2>3
<1> QED
  BY <1>2, <1>3, <1>4 DEF VersionsInv

\* The players whose reports are in a batch have not been told their new ids.
LEMMA AdvanceStep ==
  ASSUME BatchInv, TypeOK', VersionsInv, Numbers,
         NEW m \in out', m.kind = "stats", m.pid \in Reporters(m.gid)
  PROVE  m.txn > told[m.gid][m.pid]
<1>1. /\ m.gid \in DOMAIN by_id /\ m.gid \in Gids /\ m.pid \in UserPids
      /\ m.txn = txn'[m.pid]
  BY DEF Numbers, BatchInv, TypeOK
<1>2. /\ txn[m.pid] \in Nat /\ txn'[m.pid] \in Nat /\ txn[m.pid] <= txn'[m.pid]
      /\ told[m.gid][m.pid] \in Nat /\ told[m.gid][m.pid] <= txn[m.pid]
  BY <1>1 DEF BatchInv, TypeOK, Numbers, VersionsInv
<1>3. told[m.gid][m.pid] < txn[m.pid] \/ txn'[m.pid] # txn[m.pid]
  BY <1>1 DEF Reporters, VersionsInv
<1> QED
  BY <1>1, <1>2, <1>3

\* A console is never sent a report's outcome under a number it already has:
\* for all constants, and whatever the database does.
THEOREM ReportersAdvanceHolds == VersionsSpec => ReportersAdvance
<1> DEFINE A == \A m \in out' : m.kind = "stats" /\ m.pid \in Reporters(m.gid) =>
                  m.txn > told[m.gid][m.pid]
<1>1. VersionsInit => Init /\ VersionsInv
  <2> SUFFICES ASSUME VersionsInit PROVE Init /\ VersionsInv
    OBVIOUS
  <2>1. txn = [pid \in UserPids |-> 0] /\ DOMAIN by_id = {}
    BY DEF VersionsInit, Init
  <2> QED
    BY <2>1 DEF VersionsInit, VersionsInv
<1>2. [VersionsNext]_versionsVars => [Next]_vars
  BY DEF VersionsNext, versionsVars
<1>3. BatchInv /\ BatchInv' /\ VersionsInv /\ [VersionsNext]_versionsVars
        => VersionsInv' /\ [A]_versionsVars
  <2> SUFFICES ASSUME BatchInv, BatchInv', VersionsInv, [VersionsNext]_versionsVars
               PROVE  VersionsInv' /\ [A]_versionsVars
    OBVIOUS
  <2>1. CASE UNCHANGED versionsVars
    BY <2>1 DEF versionsVars, vars, VersionsInv
  <2>2. CASE VersionsNext
    <3>1. Numbers /\ TypeOK' /\ Versioned
      BY <2>2, NumbersStep DEF VersionsNext, BatchInv
    <3>2. VersionsInv'
      BY <3>1, VersionedEffect
    <3>3. A
      BY <3>1, AdvanceStep
    <3> QED
      BY <3>2, <3>3
  <2> QED
    BY <2>1, <2>2
<1> QED
  BY <1>1, <1>2, <1>3, BatchCorrect, PTL DEF VersionsSpec, Spec, ReportersAdvance

=============================================================================

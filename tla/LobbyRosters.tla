---------------------------- MODULE LobbyRosters ----------------------------
(***************************************************************************)
(* Proofs about who is in which gathering: UniquePids, LobbyCapacity,      *)
(* OwnerIndexExact and NoOrphans hold in every reachable state, for all    *)
(* values of the constants.                                                *)
(***************************************************************************)
EXTENDS LobbyProps, LobbyTypes, FiniteSetTheorems

-----------------------------------------------------------------------------
\* The inductive invariant.

\* Rosters are finite, so their cardinality means something.
FiniteRosters == \A g \in DOMAIN by_id : IsFiniteSet(by_id[g].participants)

\* The next id create() hands out is not in use.
FreshIds == \A g \in DOMAIN by_id : g < next_gathering_id

RosterInv ==
  /\ TypeOK
  /\ FiniteRosters
  /\ FreshIds
  /\ UniquePids
  /\ LobbyCapacity
  /\ OwnerIndexExact
  /\ NoOrphans

-----------------------------------------------------------------------------
\* The steps, as far as rosters are concerned.

\* Gathering h has the owner, the slots and the roster of g.
SameRoster(g, h) ==
  /\ h.owner_pid = g.owner_pid /\ h.owner_remote = g.owner_remote
  /\ h.slots = g.slots /\ h.participants = g.participants

\* Rosters, owners and slots stay, and no connection entry goes away.
KeepsRosters ==
  /\ DOMAIN by_id' = DOMAIN by_id
  /\ \A g \in DOMAIN by_id : SameRoster(by_id[g], by_id'[g])
  /\ UNCHANGED <<owner_pid_to_id, next_gathering_id>>
  /\ \A p \in Ports, r \in Remotes : Connected(p, r) => connections'[p][r] # NoConn

\* Storing a gathering with the same host data and roster keeps rosters.
LEMMA StoreKeeps ==
  ASSUME TypeOK, NEW gid \in DOMAIN by_id, NEW h,
         by_id' = [by_id EXCEPT ![gid] = h], SameRoster(by_id[gid], h),
         UNCHANGED <<connections, owner_pid_to_id, next_gathering_id>>
  PROVE  KeepsRosters
BY DEF KeepsRosters, Connected, TypeOK, SameRoster

\* The operations of the lock and of the stats batch leave a roster alone.
LEMMA BatchKeeps ==
  ASSUME NEW g \in Gathering, NEW pid \in UserPids, NEW b \in BOOLEAN
  PROVE  /\ SameRoster(g, set_closed(g, b))
         /\ SameRoster(g, Expecting(g))
         /\ SameRoster(g, Recorded(g, pid))
         /\ SameRoster(g, ClearBatch(g))
         /\ SameRoster(g, [g EXCEPT !.handle = b])
<1> USE DEF SameRoster, Gathering
<1>1. SameRoster(g, set_closed(g, b))
  BY DEF set_closed
<1>2. SameRoster(g, Expecting(g))
  BY DEF Expecting, Snapshot
<1>3. SameRoster(g, Recorded(g, pid))
  BY <1>2, ExpectingType DEF Recorded
<1>4. SameRoster(g, ClearBatch(g))
  BY DEF ClearBatch
<1>5. SameRoster(g, [g EXCEPT !.handle = b])
  OBVIOUS
<1> QED
  BY <1>1, <1>2, <1>3, <1>4, <1>5

\* The transport handlers that only add to a table keep rosters.
LEMMA TransportKeeps ==
  ASSUME TypeOK, Quiet, NEW p \in Ports, NEW r \in Remotes,
         HandleSyn(p, r) \/ UNCHANGED connections
  PROVE  KeepsRosters
<1>1. \A q \in Ports, s \in Remotes : Connected(q, s) => connections'[q][s] # NoConn
  BY PrudpAssumption DEF TypeOK, PrudpTypeOK, HandleSyn, Connected
<1> QED
  BY <1>1 DEF KeepsRosters, Quiet, SameRoster

\* Firing or feeding a batch keeps rosters.
LEMMA FireKeeps ==
  ASSUME TypeOK, NEW p, NEW gid \in DOMAIN by_id, NEW pending, NEW txns, NEW cash,
         NEW g \in Gathering, SameRoster(by_id[gid], g),
         FireBatch(p, gid, g, pending, txns, cash) \/ AwaitReports(p, gid, g),
         UNCHANGED <<connections, owner_pid_to_id, next_gathering_id>>
  PROVE  KeepsRosters
<1>1. PICK h : /\ by_id' = [by_id EXCEPT ![gid] = h]
               /\ h \in {ClearBatch(g), [g EXCEPT !.handle = FALSE], [g EXCEPT !.handle = TRUE]}
  BY DEF FireBatch, AwaitReports
<1>2. SameRoster(g, h)
  BY <1>1, BatchKeeps, NoPid \in UserPids DEF UserPids
<1>3. SameRoster(by_id[gid], h)
  BY <1>2 DEF SameRoster
<1> QED
  BY <1>1, <1>3, StoreKeeps

\* A report keeps rosters.
LEMMA ReportKeeps ==
  ASSUME TypeOK, NEW p \in Ports, NEW r \in Remotes, NEW stored, ReportStats(p, r, stored)
  PROVE  KeepsRosters
<1> DEFINE pid  == Caller(p, r)
           mine == Containing(by_id, pid)
           gid  == First(mine)
           g    == Recorded(by_id[gid], pid)
<1>1. pid \in UserPids /\ UNCHANGED <<connections, owner_pid_to_id, next_gathering_id>>
  BY CallerType DEF ReportStats, HandleData, TypeOK
<1>2. CASE mine = {} /\ UNCHANGED <<by_id, timers>>
  BY <1>1, <1>2 DEF KeepsRosters, SameRoster, Connected
<1>3. ASSUME mine # {} PROVE gid \in DOMAIN by_id /\ g \in Gathering /\ SameRoster(by_id[gid], g)
  <2>1. mine \in SUBSET Nat /\ mine \subseteq DOMAIN by_id
    BY GidsNat DEF TypeOK, Containing
  <2>2. gid \in DOMAIN by_id
    BY <2>1, <1>3, FirstInSet
  <2>3. by_id[gid] \in Gathering
    BY <2>2, LiveGathering
  <2> HIDE DEF gid, pid, mine
  <2> QED
    BY <1>1, <2>2, <2>3, RecordedType, BatchKeeps
<1>4. CASE mine # {} /\ (AwaitReports(p, gid, g) \/ FireBatch(p, gid, g, timers, txn', career'))
  <2> HIDE DEF gid, pid, mine, g
  <2> QED
    BY <1>1, <1>3, <1>4, FireKeeps
<1> QED
  BY <1>2, <1>4 DEF ReportStats

\* EndGame keeps rosters.
LEMMA EndGameKeeps ==
  ASSUME TypeOK, NEW p \in Ports, NEW r \in Remotes, NEW gid, EndGame(p, r, gid)
  PROVE  KeepsRosters
<1> DEFINE mine   == Containing(by_id, Caller(p, r))
           target == IF gid \in DOMAIN by_id THEN gid ELSE First(mine)
           g      == ClearBatch(by_id[target])
<1>1. UNCHANGED <<connections, owner_pid_to_id, next_gathering_id>>
        /\ by_id' = [by_id EXCEPT ![target] = g] /\ (gid \in DOMAIN by_id \/ mine # {})
  BY DEF EndGame, HandleData
<1>2. target \in DOMAIN by_id
  <2>1. mine \in SUBSET Nat /\ mine \subseteq DOMAIN by_id
    BY GidsNat DEF TypeOK, Containing
  <2>2. mine # {} => First(mine) \in DOMAIN by_id
    BY <2>1, FirstInSet
  <2> QED
    BY <1>1, <2>2
<1>3. SameRoster(by_id[target], g)
  <2> HIDE DEF target
  <2> QED
    BY <1>2, LiveGathering, BatchKeeps DEF UserPids
<1> HIDE DEF target, g
<1> QED
  BY <1>1, <1>2, <1>3, StoreKeeps

\* Lock and unlock keep rosters.
LEMMA LockKeeps ==
  ASSUME TypeOK, NEW p \in Ports, NEW r \in Remotes, NEW gid,
         CloseParticipation(p, r, gid) \/ OpenParticipation(p, r, gid)
  PROVE  KeepsRosters
<1>1. gid \in DOMAIN by_id /\ UNCHANGED <<connections, owner_pid_to_id, next_gathering_id>>
  BY DEF CloseParticipation, OpenParticipation, HandleData
<1>2. by_id[gid] \in Gathering /\ NoPid \in UserPids
  BY <1>1, LiveGathering DEF UserPids
<1>3. CASE CloseParticipation(p, r, gid)
  <2> DEFINE h == set_closed(by_id[gid], TRUE)
  <2>1. h \in Gathering /\ SameRoster(by_id[gid], h)
    BY <1>2, SetClosedType, BatchKeeps
  <2>2. SameRoster(by_id[gid], Expecting(h))
    <3> HIDE DEF h
    <3>1. SameRoster(h, Expecting(h))
      BY <1>2, <2>1, BatchKeeps
    <3> QED
      BY <2>1, <3>1 DEF SameRoster
  <2>3. by_id' = [by_id EXCEPT ![gid] = Expecting(h)]
    BY <1>3 DEF CloseParticipation
  <2> HIDE DEF h
  <2> QED
    BY <1>1, <2>2, <2>3, StoreKeeps
<1>4. CASE OpenParticipation(p, r, gid)
  <2>1. SameRoster(by_id[gid], set_closed(by_id[gid], FALSE))
    BY <1>2, BatchKeeps
  <2>2. by_id' = [by_id EXCEPT ![gid] = set_closed(by_id[gid], FALSE)]
    BY <1>4 DEF OpenParticipation
  <2> QED
    BY <1>1, <2>1, <2>2, StoreKeeps
<1> QED
  BY <1>3, <1>4

\* The timer callback keeps rosters.
LEMMA TimeoutKeeps ==
  ASSUME TypeOK, OnM12Timeout
  PROVE  KeepsRosters
<1>1. PICK t \in timers :
        /\ TimeoutFires(t) \/ TimeoutIgnored(t)
        /\ UNCHANGED <<connections, owner_pid_to_id, next_gathering_id>>
  BY DEF OnM12Timeout
<1>2. CASE TimeoutFires(t)
  <2>1. t.gid \in DOMAIN by_id /\ by_id[t.gid] \in Gathering
    BY <1>2, LiveGathering DEF TimeoutFires
  <2>2. SameRoster(by_id[t.gid], by_id[t.gid])
    BY DEF SameRoster
  <2> QED
    BY <1>1, <1>2, <2>1, <2>2, FireKeeps DEF TimeoutFires
<1>3. CASE TimeoutIgnored(t)
  <2>1. \A g \in DOMAIN by_id : SameRoster(by_id[g], [by_id[g] EXCEPT !.handle = FALSE])
    BY LiveGathering, BatchKeeps DEF UserPids
  <2>2. \A g \in DOMAIN by_id : SameRoster(by_id[g], by_id[g])
    BY DEF SameRoster
  <2>3. DOMAIN by_id' = DOMAIN by_id /\ \A g \in DOMAIN by_id :
          by_id'[g] = IF g = t.gid THEN [by_id[g] EXCEPT !.handle = FALSE] ELSE by_id[g]
    BY <1>3 DEF TimeoutIgnored
  <2> QED
    BY <1>1, <2>1, <2>2, <2>3 DEF KeepsRosters, Connected
<1> QED
  BY <1>1, <1>2, <1>3

\* Every step keeps rosters, or is one of the six that change them.
LEMMA RosterSteps ==
  ASSUME TypeOK, [Next]_vars
  PROVE  \/ KeepsRosters
         \/ \E p \in Ports, r \in Remotes :
              \/ \E slots \in SlotChoices : CreateGathering(p, r, slots)
              \/ \E gid \in Gids \cup {0} : \/ JoinGathering(p, r, gid)
                                            \/ LeaveGathering(p, r, gid)
                                            \/ DestroyGathering(p, r, gid)
              \/ Disconnect(p, r)
         \/ Reap
<1>1. CASE UNCHANGED vars
  BY <1>1 DEF vars, KeepsRosters, SameRoster, Connected
<1>2. ASSUME NEW p \in Ports, NEW r \in Remotes,
             \/ Syn(p, r) \/ Ping(p, r) \/ DataOnly(p, r) \/ RegisterEx(p, r) \/ SilentFor(p, r)
             \/ \E pid \in UserPids : Connect(p, r, pid)
      PROVE  KeepsRosters
  <2>1. Quiet /\ (HandleSyn(p, r) \/ UNCHANGED connections)
    BY <1>2 DEF Syn, Ping, DataOnly, RegisterEx, SilentFor, Connect, HandlePing, HandleData,
                Elapse, HandleConnect
  <2> QED
    BY <2>1, TransportKeeps
<1>3. CASE OnM12Timeout
  BY <1>3, TimeoutKeeps
<1> QED
  BY <1>1, <1>2, <1>3, ReportKeeps, EndGameKeeps, LockKeeps DEF Next, PacketFrom

-----------------------------------------------------------------------------
\* What a step may make of a gathering.

\* Gathering h is g with, at most, members missing.
Shrunk(g, h) ==
  /\ h.owner_pid = g.owner_pid /\ h.owner_remote = g.owner_remote
  /\ h.slots = g.slots /\ h.participants \subseteq g.participants

\* The two ways connections close run the hooks for every remote that loses an
\* entry; entries of other remotes stay.
LEMMA CloseSteps ==
  ASSUME TypeOK, Reap \/ \E p \in Ports, r \in Remotes : Disconnect(p, r)
  PROVE  \E R \in SUBSET Remotes :
           /\ CloseHooks(R)
           /\ \A p \in Ports : \A r \in Remotes \ R : connections'[p][r] = connections[p][r]
<1>1. ASSUME NEW p \in Ports, NEW r \in Remotes, Disconnect(p, r)
      PROVE  /\ {r} \in SUBSET Remotes /\ CloseHooks({r})
             /\ \A q \in Ports : \A s \in Remotes \ {r} : connections'[q][s] = connections[q][s]
  BY <1>1 DEF Disconnect, HandleDisconnect, TypeOK, PrudpTypeOK
<1>2. CASE Reap
  <2> DEFINE R == UNION {Stale(p) : p \in Ports}
  <2>1. R \in SUBSET Remotes /\ CloseHooks(R)
    BY <1>2 DEF Reap, Stale
  <2>2. \A p \in Ports : \A r \in Remotes \ R : connections'[p][r] = connections[p][r]
    BY <1>2 DEF Reap, ReapIdle
  <2> QED
    BY <2>1, <2>2
<1> QED
  BY <1>1, <1>2

\* The hooks leave the gatherings of other owners, without the members whose
\* remote closed.
LEMMA CloseHooksEffect ==
  ASSUME TypeOK, NEW R, CloseHooks(R)
  PROVE  /\ DOMAIN by_id' = DOMAIN by_id \ OwnedFrom(by_id, R)
         /\ \A g \in DOMAIN by_id' :
              /\ Shrunk(by_id[g], by_id'[g])
              /\ by_id'[g].participants =
                   {q \in by_id[g].participants : q.remote \notin R \ {by_id[g].owner_remote}}
<1>1. DOMAIN by_id' = DOMAIN by_id \ OwnedFrom(by_id, R)
  BY DEF CloseHooks, Without
<1>2. ASSUME NEW g \in DOMAIN by_id'
      PROVE  /\ by_id'[g] = remove_participant_by_remote(by_id[g], R)
             /\ by_id[g] \in Gathering
  BY <1>1, LiveGathering DEF CloseHooks, Without
<1>3. ASSUME NEW g \in Gathering
      PROVE  /\ Shrunk(g, remove_participant_by_remote(g, R))
             /\ remove_participant_by_remote(g, R).participants =
                  {q \in g.participants : q.remote \notin R \ {g.owner_remote}}
  BY DEF Shrunk, remove_participant_by_remote, Gathering
<1> QED
  BY <1>1, <1>2, <1>3

\* Create leaves every gathering but the owner's earlier one as it was, and
\* adds one with a fresh id.
LEMMA CreateEffect ==
  ASSUME TypeOK, FreshIds, NEW p \in Ports, NEW r \in Remotes, NEW slots,
         CreateGathering(p, r, slots), NEW gone,
         gone = Superseded(owner_pid_to_id, by_id, Caller(p, r))
  PROVE  /\ next_gathering_id \notin DOMAIN by_id
         /\ DOMAIN by_id' = (DOMAIN by_id \ gone) \cup {next_gathering_id}
         /\ by_id'[next_gathering_id] =
              NewGathering(Caller(p, r), r, connections[p][r], slots)
         /\ \A g \in DOMAIN by_id \ gone : by_id'[g] = by_id[g]
<1>1. next_gathering_id \notin DOMAIN by_id
  BY GidsNat, GatheringsAssumption DEF FreshIds, TypeOK, FirstGid
<1> QED
  BY <1>1 DEF CreateGathering, Put, Without

\* Whatever the step, a gathering that exists afterwards has lost members, or
\* is new, or has accepted one join.
LEMMA Members ==
  ASSUME TypeOK, FreshIds, [Next]_vars, NEW g \in DOMAIN by_id'
  PROVE  \/ g \in DOMAIN by_id /\ Shrunk(by_id[g], by_id'[g])
         \/ \E pid \in UserPids, r \in Remotes, c \in Conns, slots \in SlotChoices :
              by_id'[g] = NewGathering(pid, r, c, slots)
         \/ /\ g \in DOMAIN by_id /\ JoinAccepted(by_id[g])
            /\ \E pid \in UserPids, r \in Remotes, c \in Conns :
                 by_id'[g] = add_participant(by_id[g], pid, r, c)
<1> DEFINE Old == g \in DOMAIN by_id /\ Shrunk(by_id[g], by_id'[g])
<1>0. \A h \in DOMAIN by_id : by_id'[h] = by_id[h] => Shrunk(by_id[h], by_id'[h])
  BY DEF Shrunk
<1>1. CASE KeepsRosters
  BY <1>1 DEF KeepsRosters, SameRoster, Shrunk
<1>2. ASSUME NEW p \in Ports, NEW r \in Remotes, NEW slots \in SlotChoices,
             CreateGathering(p, r, slots)
      PROVE  Old \/ \E pid \in UserPids, s \in Remotes, c \in Conns, l \in SlotChoices :
                      by_id'[g] = NewGathering(pid, s, c, l)
  <2>1. Caller(p, r) \in UserPids /\ connections[p][r] \in Conns
    BY <1>2, CallerType DEF CreateGathering, TypeOK
  <2>2. CASE g = next_gathering_id
    <3>1. by_id'[g] = NewGathering(Caller(p, r), r, connections[p][r], slots)
      BY <1>2, <2>2, CreateEffect
    <3> QED
      BY <2>1, <3>1
  <2>3. CASE g # next_gathering_id
    <3> DEFINE gone == Superseded(owner_pid_to_id, by_id, Caller(p, r))
    <3>0. /\ DOMAIN by_id' = (DOMAIN by_id \ gone) \cup {next_gathering_id}
          /\ \A k \in DOMAIN by_id \ gone : by_id'[k] = by_id[k]
      BY <1>2, CreateEffect, Zenon
    <3> HIDE DEF gone
    <3>1. g \in DOMAIN by_id /\ by_id'[g] = by_id[g]
      BY <2>3, <3>0
    <3> QED
      BY <1>0, <3>1
  <2> QED
    BY <2>2, <2>3
<1>3. ASSUME NEW p \in Ports, NEW r \in Remotes, NEW gid, JoinGathering(p, r, gid)
      PROVE  \/ Old
             \/ /\ g \in DOMAIN by_id /\ JoinAccepted(by_id[g])
                /\ \E pid \in UserPids, s \in Remotes, c \in Conns :
                     by_id'[g] = add_participant(by_id[g], pid, s, c)
  <2>1. Caller(p, r) \in UserPids /\ connections[p][r] \in Conns
    BY <1>3, CallerType DEF JoinGathering, TypeOK
  <2>2. /\ gid \in DOMAIN by_id /\ JoinAccepted(by_id[gid])
        /\ by_id' = [by_id EXCEPT ![gid] =
                       add_participant(by_id[gid], Caller(p, r), r, connections[p][r])]
    BY <1>3 DEF JoinGathering
  <2> QED
    BY <1>0, <2>1, <2>2 DEF TypeOK
<1>4. ASSUME NEW p \in Ports, NEW r \in Remotes, NEW gid, LeaveGathering(p, r, gid)
      PROVE  Old
  <2>1. /\ gid \in DOMAIN by_id
        /\ by_id' = [by_id EXCEPT ![gid] = remove_participant(by_id[gid], Caller(p, r))]
    BY <1>4 DEF LeaveGathering
  <2>2. Shrunk(by_id[gid], remove_participant(by_id[gid], Caller(p, r)))
    BY <2>1, LiveGathering DEF Shrunk, remove_participant, Gathering
  <2> QED
    BY <1>0, <2>1, <2>2 DEF TypeOK
<1>5. ASSUME NEW p \in Ports, NEW r \in Remotes, NEW gid, DestroyGathering(p, r, gid)
      PROVE  Old
  BY <1>0, <1>5 DEF DestroyGathering, Without
<1>6. ASSUME Reap \/ \E p \in Ports, r \in Remotes : Disconnect(p, r)
      PROVE  Old
  <2>1. PICK R : CloseHooks(R)
    BY <1>6, CloseSteps
  <2> QED
    BY <2>1, CloseHooksEffect
<1> QED
  BY <1>1, <1>2, <1>3, <1>4, <1>5, <1>6, RosterSteps

-----------------------------------------------------------------------------
\* Rosters: who and how many.

\* The entries in S after a re-join of pid over connection c.
Rejoined(S, pid, c) == {IF p.pid = pid THEN [p EXCEPT !.conn = c] ELSE p : p \in S}

\* A re-join replaces entries one for one, so a set of entries does not grow.
LEMMA RejoinCard ==
  ASSUME NEW S, IsFiniteSet(S), NEW pid, NEW c
  PROVE  /\ IsFiniteSet(Rejoined(S, pid, c))
         /\ Cardinality(Rejoined(S, pid, c)) <= Cardinality(S)
<1> DEFINE f == [p \in S |-> IF p.pid = pid THEN [p EXCEPT !.conn = c] ELSE p]
<1>1. f \in Surjection(S, Rejoined(S, pid, c))
  BY DEF Surjection, Rejoined
<1> QED
  BY <1>1, FS_Surjection

\* One more element is at most one more in cardinality.
LEMMA AddCard ==
  ASSUME NEW S, IsFiniteSet(S), NEW x
  PROVE  /\ IsFiniteSet(S \cup {x})
         /\ Cardinality(S) \in Nat /\ Cardinality(S \cup {x}) \in Nat
         /\ Cardinality(S \cup {x}) <= Cardinality(S) + 1
<1>1. IsFiniteSet(S \cup {x}) /\ Cardinality(S) \in Nat
  BY FS_AddElement, FS_CardinalityType
<1>2. Cardinality(S \cup {x}) = IF x \in S THEN Cardinality(S) ELSE Cardinality(S) + 1
  BY FS_AddElement
<1> QED
  BY <1>1, <1>2

\* What add_participant does to a roster without double accounts, in either
\* of its branches: no account is doubled, and the roster and its public
\* joiners grow by one entry at most.
LEMMA AddEffect ==
  ASSUME NEW g \in Gathering, IsFiniteSet(g.participants),
         NEW pid \in UserPids, NEW r \in Remotes, NEW c \in Conns,
         \A p, q \in g.participants : p.pid = q.pid => p = q,
         NEW h, h = add_participant(g, pid, r, c)
  PROVE  /\ h.owner_pid = g.owner_pid /\ h.owner_remote = g.owner_remote
         /\ h.slots = g.slots
         /\ \A p, q \in h.participants : p.pid = q.pid => p = q
         /\ IsFiniteSet(h.participants)
         /\ Cardinality(h.participants) <= Cardinality(g.participants) + 1
         /\ Cardinality(PublicJoiners(h)) <= Cardinality(PublicJoiners(g)) + 1
<1> DEFINE x == Participant(pid, r, c)
<1>0. /\ PublicJoiners(g) \in SUBSET g.participants /\ IsFiniteSet(PublicJoiners(g))
      /\ Cardinality(PublicJoiners(g)) \in Nat /\ Cardinality(g.participants) \in Nat
  <2>1. PublicJoiners(g) \in SUBSET g.participants
    BY DEF PublicJoiners
  <2> QED
    BY <2>1, FS_Subset, FS_CardinalityType
<1>1. CASE pid \in PidsOf(g)
  <2>1. h = [g EXCEPT !.participants = Rejoined(g.participants, pid, c)]
    BY <1>1 DEF add_participant, Rejoined
  <2>2. /\ h.owner_pid = g.owner_pid /\ h.owner_remote = g.owner_remote
        /\ h.slots = g.slots /\ h.participants = Rejoined(g.participants, pid, c)
    BY <2>1 DEF Gathering
  <2> DEFINE swap(p) == IF p.pid = pid THEN [p EXCEPT !.conn = c] ELSE p
  <2>3. /\ \A p \in g.participants : swap(p).pid = p.pid
        /\ \A S : Rejoined(S, pid, c) = {swap(p) : p \in S}
    BY DEF Gathering, ParticipantType, Rejoined
  <2> HIDE DEF swap
  <2>4. h.participants = {swap(p) : p \in g.participants}
    BY <2>2, <2>3
  <2>5. \A p, q \in h.participants : p.pid = q.pid => p = q
    BY <2>3, <2>4
  <2>6. PublicJoiners(h) = Rejoined(PublicJoiners(g), pid, c)
    <3>1. PublicJoiners(h) = {swap(p) : p \in PublicJoiners(g)}
      BY <2>2, <2>3, <2>4 DEF PublicJoiners
    <3> QED
      BY <2>3, <3>1
  <2>7. /\ IsFiniteSet(h.participants)
        /\ Cardinality(h.participants) <= Cardinality(g.participants)
    BY <2>2, RejoinCard, Zenon
  <2>8. /\ IsFiniteSet(PublicJoiners(h))
        /\ Cardinality(PublicJoiners(h)) <= Cardinality(PublicJoiners(g))
    <3>1. /\ IsFiniteSet(Rejoined(PublicJoiners(g), pid, c))
          /\ Cardinality(Rejoined(PublicJoiners(g), pid, c)) <= Cardinality(PublicJoiners(g))
      BY <1>0, RejoinCard
    <3> QED
      BY <2>6, <3>1, Zenon
  <2>9. Cardinality(h.participants) \in Nat /\ Cardinality(PublicJoiners(h)) \in Nat
    BY <2>7, <2>8, FS_CardinalityType
  <2> QED
    BY <1>0, <2>2, <2>5, <2>7, <2>8, <2>9
<1>2. CASE pid \notin PidsOf(g)
  <2>1. h = [g EXCEPT !.participants = @ \cup {x}]
    BY <1>2 DEF add_participant
  <2>2. /\ h.owner_pid = g.owner_pid /\ h.owner_remote = g.owner_remote
        /\ h.slots = g.slots /\ h.participants = g.participants \cup {x}
    BY <2>1 DEF Gathering
  <2>3. x.pid = pid /\ \A p \in g.participants : p.pid # pid
    BY <1>2 DEF PidsOf, Participant
  <2> HIDE DEF x
  <2>4. \A p, q \in h.participants : p.pid = q.pid => p = q
    BY <2>2, <2>3
  <2>5. PublicJoiners(h) = PublicJoiners(g) \/ PublicJoiners(h) = PublicJoiners(g) \cup {x}
    BY <2>2 DEF PublicJoiners
  <2>6. /\ IsFiniteSet(h.participants)
        /\ Cardinality(h.participants) <= Cardinality(g.participants) + 1
    <3>1. /\ IsFiniteSet(g.participants \cup {x})
          /\ Cardinality(g.participants \cup {x}) <= Cardinality(g.participants) + 1
      BY AddCard
    <3> QED
      BY <2>2, <3>1, Zenon
  <2>7. Cardinality(PublicJoiners(h)) <= Cardinality(PublicJoiners(g)) + 1
    <3>1. Cardinality(PublicJoiners(g) \cup {x}) <= Cardinality(PublicJoiners(g)) + 1
      BY <1>0, AddCard
    <3>2. Cardinality(PublicJoiners(g)) <= Cardinality(PublicJoiners(g)) + 1
      BY <1>0
    <3> QED
      BY <2>5, <3>1, <3>2, Zenon
  <2> QED
    BY <2>2, <2>4, <2>6, <2>7
<1> QED
  BY <1>1, <1>2

\* A roster that only lost members is as good as it was.
LEMMA ShrunkEffect ==
  ASSUME NEW g, NEW h, Shrunk(g, h), IsFiniteSet(g.participants)
  PROVE  /\ IsFiniteSet(h.participants)
         /\ Cardinality(h.participants) <= Cardinality(g.participants)
         /\ Cardinality(PublicJoiners(h)) <= Cardinality(PublicJoiners(g))
         /\ Cardinality(g.participants) \in Nat /\ Cardinality(h.participants) \in Nat
         /\ Cardinality(PublicJoiners(g)) \in Nat /\ Cardinality(PublicJoiners(h)) \in Nat
<1>1. /\ h.participants \in SUBSET g.participants
      /\ PublicJoiners(h) \in SUBSET PublicJoiners(g)
      /\ PublicJoiners(g) \in SUBSET g.participants
  BY DEF Shrunk, PublicJoiners
<1>2. IsFiniteSet(PublicJoiners(g))
  BY <1>1, FS_Subset
<1>3. IsFiniteSet(h.participants) /\ Cardinality(h.participants) <= Cardinality(g.participants)
  BY <1>1, FS_Subset
<1>4. /\ IsFiniteSet(PublicJoiners(h))
      /\ Cardinality(PublicJoiners(h)) <= Cardinality(PublicJoiners(g))
  BY <1>1, <1>2, FS_Subset
<1> QED
  BY <1>2, <1>3, <1>4, FS_CardinalityType

\* A gathering fits when it has no more members than the cap and no more
\* public joiners than slots.
Fits(g) ==
  /\ IsFiniteSet(g.participants)
  /\ \A p, q \in g.participants : p.pid = q.pid => p = q
  /\ Cardinality(g.participants) <= MAX_PARTICIPANTS_PER_GATHERING
  /\ Cardinality(PublicJoiners(g)) <= g.slots

\* A step keeps every gathering fitting: members leave at will, a new
\* gathering has its host only, and a join has passed the checks of
\* join_gathering on the very roster it is added to.
LEMMA FitsStep ==
  ASSUME RosterInv, [Next]_vars, NEW g \in DOMAIN by_id'
  PROVE  Fits(by_id'[g])
<1>0. \A h \in DOMAIN by_id : /\ by_id[h] \in Gathering /\ Fits(by_id[h])
                              /\ by_id[h].slots \in Nat
  BY LiveGathering, LobbyAssumption
     DEF RosterInv, FiniteRosters, UniquePids, LobbyCapacity, Fits, Gathering
<1>1. CASE g \in DOMAIN by_id /\ Shrunk(by_id[g], by_id'[g])
  <2>1. /\ by_id'[g].participants \subseteq by_id[g].participants
        /\ by_id'[g].slots = by_id[g].slots
    BY <1>1 DEF Shrunk
  <2>2. \A p, q \in by_id'[g].participants : p.pid = q.pid => p = q
    BY <1>0, <1>1, <2>1 DEF Fits
  <2>3. /\ IsFiniteSet(by_id'[g].participants)
        /\ Cardinality(by_id'[g].participants) <= MAX_PARTICIPANTS_PER_GATHERING
        /\ Cardinality(PublicJoiners(by_id'[g])) <= by_id'[g].slots
    BY <1>0, <1>1, <2>1, ShrunkEffect, GatheringsAssumption DEF Fits
  <2> QED
    BY <2>2, <2>3 DEF Fits
<1>2. ASSUME NEW pid \in UserPids, NEW r \in Remotes, NEW c \in Conns, NEW slots \in SlotChoices
      PROVE  Fits(NewGathering(pid, r, c, slots))
  <2> DEFINE x == Participant(pid, r, c)
             h == NewGathering(pid, r, c, slots)
  <2>1. h.participants = {x} /\ h.slots = slots /\ h.owner_pid = pid /\ x.pid = pid
    BY DEF NewGathering, Participant
  <2> HIDE DEF x, h
  <2>2. PublicJoiners(h) = {}
    BY <2>1 DEF PublicJoiners
  <2>3. IsFiniteSet(h.participants) /\ Cardinality(h.participants) = 1
    BY <2>1, FS_Singleton, Zenon
  <2>4. Cardinality(PublicJoiners(h)) = 0
    BY <2>2, FS_EmptySet, Zenon
  <2>5. \A p, q \in h.participants : p.pid = q.pid => p = q
    BY <2>1
  <2>6. slots \in Nat /\ MAX_PARTICIPANTS_PER_GATHERING \in Nat \ {0}
    BY LobbyAssumption, GatheringsAssumption
  <2>7. Fits(h)
    BY <2>1, <2>3, <2>4, <2>5, <2>6 DEF Fits
  <2> QED
    BY <2>7 DEF h
<1>3. ASSUME g \in DOMAIN by_id, JoinAccepted(by_id[g]), NEW pid \in UserPids,
             NEW r \in Remotes, NEW c \in Conns,
             by_id'[g] = add_participant(by_id[g], pid, r, c)
      PROVE  Fits(by_id'[g])
  <2>1. IsFiniteSet(PublicJoiners(by_id[g]))
    <3>1. PublicJoiners(by_id[g]) \in SUBSET by_id[g].participants
      BY DEF PublicJoiners
    <3> QED
      BY <1>0, <1>3, <3>1, FS_Subset DEF Fits
  <2>2. /\ Cardinality(by_id[g].participants) \in Nat
        /\ Cardinality(PublicJoiners(by_id[g])) \in Nat
    BY <1>0, <1>3, <2>1, FS_CardinalityType DEF Fits
  <2>3. /\ Cardinality(by_id[g].participants) < MAX_PARTICIPANTS_PER_GATHERING
        /\ Cardinality(PublicJoiners(by_id[g])) < by_id[g].slots
    BY <1>0, <1>3, <2>2, GatheringsAssumption DEF JoinAccepted, is_full, public_remaining
  <2>4. /\ by_id'[g].slots = by_id[g].slots
        /\ \A p, q \in by_id'[g].participants : p.pid = q.pid => p = q
        /\ IsFiniteSet(by_id'[g].participants)
        /\ Cardinality(by_id'[g].participants) <= Cardinality(by_id[g].participants) + 1
        /\ Cardinality(PublicJoiners(by_id'[g])) <= Cardinality(PublicJoiners(by_id[g])) + 1
    BY <1>0, <1>3, AddEffect DEF Fits
  <2>5. PublicJoiners(by_id'[g]) \in SUBSET by_id'[g].participants
    BY DEF PublicJoiners
  <2>6. /\ Cardinality(by_id'[g].participants) \in Nat
        /\ Cardinality(PublicJoiners(by_id'[g])) \in Nat
    BY <2>4, <2>5, FS_Subset, FS_CardinalityType
  <2> QED
    BY <1>0, <1>3, <2>2, <2>3, <2>4, <2>6, GatheringsAssumption DEF Fits
<1> QED
  BY <1>1, <1>2, <1>3, Members DEF RosterInv

-----------------------------------------------------------------------------
\* The two dictionaries.

\* Dropping the gatherings V together with their index entries keeps the
\* dictionaries in step.
LEMMA DropIndex ==
  ASSUME TypeOK, OwnerIndexExact, NEW V,
         DOMAIN by_id' = DOMAIN by_id \ V,
         \A g \in DOMAIN by_id' : by_id'[g].owner_pid = by_id[g].owner_pid,
         owner_pid_to_id' = Unindexed(owner_pid_to_id, by_id, V)
  PROVE  OwnerIndexExact'
<1>1. ASSUME NEW pid \in DOMAIN owner_pid_to_id'
      PROVE  /\ owner_pid_to_id'[pid] \in DOMAIN by_id'
             /\ by_id'[owner_pid_to_id'[pid]].owner_pid = pid
  <2>1. /\ pid \in DOMAIN owner_pid_to_id /\ owner_pid_to_id'[pid] = owner_pid_to_id[pid]
        /\ ~\E g \in V : by_id[g].owner_pid = pid /\ owner_pid_to_id[pid] = g
    BY DEF Unindexed
  <2>2. owner_pid_to_id[pid] \in DOMAIN by_id /\ by_id[owner_pid_to_id[pid]].owner_pid = pid
    BY <2>1 DEF OwnerIndexExact
  <2> QED
    BY <2>1, <2>2
<1>2. ASSUME NEW g \in DOMAIN by_id'
      PROVE  /\ by_id'[g].owner_pid \in DOMAIN owner_pid_to_id'
             /\ owner_pid_to_id'[by_id'[g].owner_pid] = g
  <2> DEFINE pid == by_id[g].owner_pid
  <2>1. pid \in DOMAIN owner_pid_to_id /\ owner_pid_to_id[pid] = g /\ g \notin V
    BY DEF OwnerIndexExact
  <2>2. pid \in DOMAIN owner_pid_to_id' /\ owner_pid_to_id'[pid] = g
    BY <2>1 DEF Unindexed
  <2> QED
    BY <2>2
<1> QED
  BY <1>1, <1>2 DEF OwnerIndexExact

\* Every step keeps the dictionaries in step, and ids fresh.
LEMMA IndexStep ==
  ASSUME RosterInv, [Next]_vars
  PROVE  OwnerIndexExact' /\ FreshIds'
<1> USE DEF RosterInv
<1>0. /\ next_gathering_id \in Nat /\ DOMAIN by_id \subseteq Nat
      /\ \A g \in DOMAIN by_id : g < next_gathering_id
  BY GidsNat, GatheringsAssumption DEF TypeOK, FreshIds, FirstGid
<1>1. ASSUME DOMAIN by_id' = DOMAIN by_id, UNCHANGED <<owner_pid_to_id, next_gathering_id>>,
             \A g \in DOMAIN by_id : by_id'[g].owner_pid = by_id[g].owner_pid
      PROVE  OwnerIndexExact' /\ FreshIds'
  BY <1>0, <1>1 DEF OwnerIndexExact, FreshIds
<1>2. CASE KeepsRosters
  BY <1>1, <1>2 DEF KeepsRosters, SameRoster
<1>3. ASSUME NEW p \in Ports, NEW r \in Remotes, NEW slots, CreateGathering(p, r, slots)
      PROVE  OwnerIndexExact' /\ FreshIds'
  <2> DEFINE pid == Caller(p, r)
             gid == next_gathering_id
             gone == Superseded(owner_pid_to_id, by_id, pid)
  <2>1. /\ gid \notin DOMAIN by_id
        /\ DOMAIN by_id' = (DOMAIN by_id \ gone) \cup {gid}
        /\ by_id'[gid] = NewGathering(pid, r, connections[p][r], slots)
        /\ \A g \in DOMAIN by_id \ gone : by_id'[g] = by_id[g]
    BY <1>3, CreateEffect, Zenon
  <2>2. owner_pid_to_id' = Put(owner_pid_to_id, pid, gid) /\ next_gathering_id' = gid + 1
    BY <1>3 DEF CreateGathering
  <2>3. by_id'[gid].owner_pid = pid
    BY <2>1 DEF NewGathering
  <2>4. gone = {g \in DOMAIN by_id : by_id[g].owner_pid = pid}
    BY DEF Superseded, OwnerIndexExact
  <2> HIDE DEF gone, pid, gid
  <2>5. \A g \in DOMAIN by_id' : g < next_gathering_id'
    BY <1>0, <2>1, <2>2 DEF gid
  <2>6. ASSUME NEW q \in DOMAIN owner_pid_to_id'
        PROVE  /\ owner_pid_to_id'[q] \in DOMAIN by_id'
               /\ by_id'[owner_pid_to_id'[q]].owner_pid = q
    <3>1. CASE q = pid
      BY <2>1, <2>2, <2>3, <3>1 DEF Put
    <3>2. CASE q # pid
      <4>1. q \in DOMAIN owner_pid_to_id /\ owner_pid_to_id'[q] = owner_pid_to_id[q]
        BY <2>2, <3>2 DEF Put
      <4>2. /\ owner_pid_to_id[q] \in DOMAIN by_id
            /\ by_id[owner_pid_to_id[q]].owner_pid = q
        BY <4>1 DEF OwnerIndexExact
      <4> QED
        BY <2>1, <2>4, <3>2, <4>1, <4>2
    <3> QED
      BY <3>1, <3>2
  <2>7. ASSUME NEW g \in DOMAIN by_id'
        PROVE  /\ by_id'[g].owner_pid \in DOMAIN owner_pid_to_id'
               /\ owner_pid_to_id'[by_id'[g].owner_pid] = g
    <3>1. CASE g = gid
      BY <2>2, <2>3, <3>1 DEF Put
    <3>2. CASE g # gid
      <4>1. g \in DOMAIN by_id /\ by_id'[g] = by_id[g] /\ by_id[g].owner_pid # pid
        BY <2>1, <2>4, <3>2
      <4>2. /\ by_id[g].owner_pid \in DOMAIN owner_pid_to_id
            /\ owner_pid_to_id[by_id[g].owner_pid] = g
        BY <4>1 DEF OwnerIndexExact
      <4> QED
        BY <2>2, <4>1, <4>2 DEF Put
    <3> QED
      BY <3>1, <3>2
  <2> QED
    BY <2>5, <2>6, <2>7 DEF OwnerIndexExact, FreshIds
<1>4. ASSUME NEW p \in Ports, NEW r \in Remotes, NEW gid,
             JoinGathering(p, r, gid) \/ LeaveGathering(p, r, gid)
      PROVE  OwnerIndexExact' /\ FreshIds'
  <2>1. /\ gid \in DOMAIN by_id /\ UNCHANGED <<owner_pid_to_id, next_gathering_id>>
        /\ \E h \in {add_participant(by_id[gid], Caller(p, r), r, connections[p][r]),
                     remove_participant(by_id[gid], Caller(p, r))} :
             by_id' = [by_id EXCEPT ![gid] = h]
    BY <1>4 DEF JoinGathering, LeaveGathering
  <2>2. \A g \in Gathering : \A pid, c :
          /\ add_participant(g, pid, r, c).owner_pid = g.owner_pid
          /\ remove_participant(g, pid).owner_pid = g.owner_pid
    BY DEF add_participant, remove_participant, Gathering
  <2> QED
    BY <1>1, <2>1, <2>2, LiveGathering DEF TypeOK
<1>5. ASSUME NEW p \in Ports, NEW r \in Remotes, NEW gid, DestroyGathering(p, r, gid)
      PROVE  OwnerIndexExact' /\ FreshIds'
  <2>1. /\ DOMAIN by_id' = DOMAIN by_id \ {gid} /\ next_gathering_id' = next_gathering_id
        /\ \A g \in DOMAIN by_id' : by_id'[g].owner_pid = by_id[g].owner_pid
        /\ owner_pid_to_id' = Unindexed(owner_pid_to_id, by_id, {gid})
    BY <1>5 DEF DestroyGathering, Without
  <2> QED
    BY <1>0, <2>1, DropIndex DEF FreshIds
<1>6. ASSUME Reap \/ \E p \in Ports, r \in Remotes : Disconnect(p, r)
      PROVE  OwnerIndexExact' /\ FreshIds'
  <2>1. PICK R : CloseHooks(R)
    BY <1>6, CloseSteps
  <2>2. /\ DOMAIN by_id' = DOMAIN by_id \ OwnedFrom(by_id, R)
        /\ \A g \in DOMAIN by_id' : by_id'[g].owner_pid = by_id[g].owner_pid
    BY <2>1, CloseHooksEffect DEF Shrunk
  <2>3. /\ next_gathering_id' = next_gathering_id
        /\ owner_pid_to_id' = Unindexed(owner_pid_to_id, by_id, OwnedFrom(by_id, R))
    BY <2>1 DEF CloseHooks
  <2> QED
    BY <1>0, <2>2, <2>3, DropIndex DEF FreshIds
<1> QED
  BY <1>2, <1>3, <1>4, <1>5, <1>6, RosterSteps

-----------------------------------------------------------------------------
\* No orphans.

\* A remote has an entry on some port.
Present(r) == \E p \in Ports : Connected(p, r)

\* Every step leaves only gatherings and members whose remote has an entry: a
\* handler adds its caller, who has one, and a close removes whoever it takes
\* the entry from.
LEMMA NoOrphansStep ==
  ASSUME RosterInv, [Next]_vars
  PROVE  NoOrphans'
<1> DEFINE P(r) == \E p \in Ports : connections'[p][r] # NoConn
<1> USE DEF RosterInv
<1>0. SUFFICES ASSUME NEW g \in DOMAIN by_id'
               PROVE  P(by_id'[g].owner_remote) /\ \A q \in by_id'[g].participants : P(q.remote)
  BY DEF NoOrphans, Connected
<1>1. \A h \in DOMAIN by_id :
        /\ by_id[h] \in Gathering /\ by_id[h].owner_remote \in Remotes
        /\ Present(by_id[h].owner_remote)
        /\ \A q \in by_id[h].participants : q.remote \in Remotes /\ Present(q.remote)
  BY LiveGathering DEF NoOrphans, Gathering, ParticipantType, Present
<1>2. ASSUME \A p \in Ports, r \in Remotes : Connected(p, r) => connections'[p][r] # NoConn,
             g \in DOMAIN by_id, Shrunk(by_id[g], by_id'[g])
      PROVE  P(by_id'[g].owner_remote) /\ \A q \in by_id'[g].participants : P(q.remote)
  BY <1>1, <1>2 DEF Shrunk, Present
<1>3. CASE KeepsRosters
  BY <1>2, <1>3 DEF KeepsRosters, SameRoster, Shrunk
<1>4. ASSUME NEW p \in Ports, NEW r \in Remotes, NEW slots, CreateGathering(p, r, slots)
      PROVE  P(by_id'[g].owner_remote) /\ \A q \in by_id'[g].participants : P(q.remote)
  <2> DEFINE gid == next_gathering_id
             gone == Superseded(owner_pid_to_id, by_id, Caller(p, r))
  <2>1. /\ DOMAIN by_id' = (DOMAIN by_id \ gone) \cup {gid}
        /\ by_id'[gid] = NewGathering(Caller(p, r), r, connections[p][r], slots)
        /\ \A h \in DOMAIN by_id \ gone : by_id'[h] = by_id[h]
    BY <1>4, CreateEffect, Zenon
  <2>2. connections' = connections /\ connections[p][r] # NoConn
    BY <1>4 DEF CreateGathering, HandleData, Established, Connected
  <2>3. CASE g = gid
    <3>1. /\ by_id'[g].owner_remote = r
          /\ \A q \in by_id'[g].participants : q.remote = r
      BY <2>1, <2>3 DEF NewGathering, Participant
    <3> QED
      BY <2>2, <3>1
  <2>4. CASE g # gid
    <3> HIDE DEF gid, gone
    <3>1. g \in DOMAIN by_id /\ by_id'[g] = by_id[g]
      BY <2>1, <2>4
    <3> QED
      BY <1>2, <2>2, <3>1 DEF Shrunk, Connected
  <2> QED
    BY <2>3, <2>4
<1>5. ASSUME NEW p \in Ports, NEW r \in Remotes, NEW gid, JoinGathering(p, r, gid)
      PROVE  P(by_id'[g].owner_remote) /\ \A q \in by_id'[g].participants : P(q.remote)
  <2> DEFINE h == add_participant(by_id[gid], Caller(p, r), r, connections[p][r])
  <2>1. connections' = connections /\ connections[p][r] # NoConn
    BY <1>5 DEF JoinGathering, HandleData, Established, Connected
  <2>2. gid \in DOMAIN by_id /\ by_id' = [by_id EXCEPT ![gid] = h]
    BY <1>5 DEF JoinGathering
  <2>3. by_id[gid] \in Gathering
    BY <2>2, LiveGathering
  <2>4. /\ h.owner_remote = by_id[gid].owner_remote
        /\ \A q \in h.participants :
             q.remote = r \/ \E x \in by_id[gid].participants : q.remote = x.remote
    BY <2>3 DEF add_participant, Gathering, ParticipantType, Participant
  <2> HIDE DEF h
  <2>5. CASE g = gid
    BY <1>1, <2>1, <2>2, <2>4, <2>5 DEF Present, Connected, TypeOK
  <2>6. CASE g # gid
    BY <1>2, <2>1, <2>2, <2>6 DEF Shrunk, Connected, TypeOK
  <2> QED
    BY <2>5, <2>6
<1>6. ASSUME NEW p \in Ports, NEW r \in Remotes, NEW gid, LeaveGathering(p, r, gid)
      PROVE  P(by_id'[g].owner_remote) /\ \A q \in by_id'[g].participants : P(q.remote)
  <2>1. /\ gid \in DOMAIN by_id /\ connections' = connections
        /\ by_id' = [by_id EXCEPT ![gid] = remove_participant(by_id[gid], Caller(p, r))]
    BY <1>6 DEF LeaveGathering, HandleData
  <2>2. Shrunk(by_id[gid], remove_participant(by_id[gid], Caller(p, r)))
    BY <2>1, LiveGathering DEF Shrunk, remove_participant, Gathering
  <2>3. g \in DOMAIN by_id /\ Shrunk(by_id[g], by_id'[g])
    BY <2>1, <2>2 DEF Shrunk, TypeOK
  <2> QED
    BY <1>2, <2>1, <2>3 DEF Connected
<1>7. ASSUME NEW p \in Ports, NEW r \in Remotes, NEW gid, DestroyGathering(p, r, gid)
      PROVE  P(by_id'[g].owner_remote) /\ \A q \in by_id'[g].participants : P(q.remote)
  <2>1. g \in DOMAIN by_id /\ by_id'[g] = by_id[g] /\ connections' = connections
    BY <1>7 DEF DestroyGathering, Without, HandleData
  <2> QED
    BY <1>2, <2>1 DEF Shrunk, Connected
<1>8. ASSUME Reap \/ \E p \in Ports, r \in Remotes : Disconnect(p, r)
      PROVE  P(by_id'[g].owner_remote) /\ \A q \in by_id'[g].participants : P(q.remote)
  <2>1. PICK R \in SUBSET Remotes :
          /\ CloseHooks(R)
          /\ \A p \in Ports : \A r \in Remotes \ R : connections'[p][r] = connections[p][r]
    BY <1>8, CloseSteps
  <2>2. /\ g \in DOMAIN by_id \ OwnedFrom(by_id, R) /\ Shrunk(by_id[g], by_id'[g])
        /\ by_id'[g].participants =
             {q \in by_id[g].participants : q.remote \notin R \ {by_id[g].owner_remote}}
    <3>1. /\ DOMAIN by_id' = DOMAIN by_id \ OwnedFrom(by_id, R)
          /\ \A h \in DOMAIN by_id' :
               /\ Shrunk(by_id[h], by_id'[h])
               /\ by_id'[h].participants =
                    {q \in by_id[h].participants : q.remote \notin R \ {by_id[h].owner_remote}}
      BY <2>1, CloseHooksEffect, Zenon
    <3> QED
      BY <3>1, Zenon
  <2>3. by_id[g].owner_remote \notin R
    BY <2>2 DEF OwnedFrom
  <2>4. \A q \in by_id'[g].participants : q \in by_id[g].participants /\ q.remote \notin R
    BY <2>2, <2>3
  <2>5. \A r \in Remotes \ R : Present(r) => P(r)
    BY <2>1 DEF Present, Connected
  <2> QED
    BY <1>1, <2>2, <2>3, <2>4, <2>5 DEF Shrunk
<1> QED
  BY <1>3, <1>4, <1>5, <1>6, <1>7, <1>8, RosterSteps

-----------------------------------------------------------------------------
\* RosterInv is inductive.
LEMMA RosterInvInductive ==
  /\ Init => RosterInv
  /\ RosterInv /\ TypeOK' /\ [Next]_vars => RosterInv'
<1>1. ASSUME Init, TypeOK PROVE RosterInv
  BY <1>1 DEF Init, RosterInv, FiniteRosters, FreshIds, UniquePids, LobbyCapacity,
              OwnerIndexExact, NoOrphans
<1>2. ASSUME RosterInv, TypeOK', [Next]_vars PROVE RosterInv'
  <2>1. FiniteRosters' /\ UniquePids' /\ LobbyCapacity'
    BY <1>2, FitsStep DEF Fits, FiniteRosters, UniquePids, LobbyCapacity, PublicJoiners
  <2> QED
    BY <1>2, <2>1, IndexStep, NoOrphansStep DEF RosterInv
<1>3. Init => TypeOK
  BY TypeInductive
<1> QED
  BY <1>1, <1>2, <1>3

\* In every reachable state of the server, for any number of ports, addresses,
\* connections and accounts and any cap: the dictionaries agree, no account is
\* listed twice, no lobby is overfull, and nothing outlives its connections.
THEOREM RosterCorrect == Spec => []RosterInv
<1>1. Init => RosterInv
  BY RosterInvInductive
<1>2. RosterInv /\ TypeOK' /\ [Next]_vars => RosterInv'
  BY RosterInvInductive
<1> QED
  BY <1>1, <1>2, TypeCorrect, PTL DEF Spec

\* Joins, re-joins, leaves and closes in any order never overfill a lobby.
THEOREM CapacityCorrect == Spec => []LobbyCapacity
BY RosterCorrect, PTL DEF RosterInv

\* add_participant never lists an account twice.
THEOREM UniquePidsCorrect == Spec => []UniquePids
BY RosterCorrect, PTL DEF RosterInv

\* by_id and owner_pid_to_id agree: an account owns at most one gathering.
THEOREM OwnerIndexCorrect == Spec => []OwnerIndexExact
BY RosterCorrect, PTL DEF RosterInv

\* No gathering outlives its owner's last connection entry, and no roster
\* entry that of the address it records.
THEOREM NoOrphansCorrect == Spec => []NoOrphans
BY RosterCorrect, PTL DEF RosterInv

=============================================================================

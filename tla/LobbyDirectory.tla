--------------------------- MODULE LobbyDirectory ---------------------------
(***************************************************************************)
(* Proofs about what the registry promises its users: every behaviour of   *)
(* Lobby is one of Directory, and QuickMatch offers what JoinGathering     *)
(* accepts.                                                                *)
(***************************************************************************)
EXTENDS LobbyRosters

-----------------------------------------------------------------------------
\* A gathering with a sane slot count and a free public slot has room under
\* the hard cap, for the owner takes at most one seat of its own.
LEMMA RoomLeft ==
  ASSUME NEW g \in Gathering, Fits(g), public_remaining(g) > 0,
         g.slots < MAX_PARTICIPANTS_PER_GATHERING
  PROVE  ~is_full(g)
<1> DEFINE J == PublicJoiners(g)
<1>1. J \in SUBSET g.participants
  BY DEF PublicJoiners
<1>2. IsFiniteSet(J) /\ Cardinality(J) \in Nat /\ Cardinality(g.participants) \in Nat
  BY <1>1, FS_Subset, FS_CardinalityType DEF Fits
<1>3. g.slots \in Nat /\ MAX_PARTICIPANTS_PER_GATHERING \in Nat
  BY LobbyAssumption, GatheringsAssumption DEF Gathering
<1>4. Cardinality(J) < g.slots
  BY <1>2, <1>3 DEF public_remaining
<1>5. Cardinality(g.participants) <= Cardinality(J) + 1
  <2>1. CASE J = g.participants
    <3>1. Cardinality(J) = Cardinality(g.participants)
      BY <2>1, Zenon
    <3> QED
      BY <1>2, <3>1
  <2>2. CASE J # g.participants
    <3>1. PICK x \in g.participants : x.pid = g.owner_pid
      BY <2>2 DEF PublicJoiners
    <3>2. g.participants = J \cup {x}
      BY <3>1 DEF Fits, PublicJoiners
    <3>3. Cardinality(J \cup {x}) <= Cardinality(J) + 1
      BY <1>2, AddCard
    <3> HIDE DEF J
    <3> QED
      BY <3>2, <3>3, Zenon
  <2> QED
    BY <2>1, <2>2
<1> HIDE DEF J
<1> QED
  BY <1>2, <1>3, <1>4, <1>5 DEF is_full

\* A match that quick_match hands out would be accepted by join_gathering at
\* that moment, for any cap and any slot count below it.
THEOREM QuickMatchCorrect == Spec => []QuickMatchJoinable
<1>1. RosterInv => QuickMatchJoinable
  <2> SUFFICES ASSUME RosterInv, NEW pid \in UserPids, NEW g \in QuickMatchCandidates(pid),
                      by_id[g].slots < MAX_PARTICIPANTS_PER_GATHERING
               PROVE  JoinAccepted(by_id[g])
    BY DEF QuickMatchJoinable
  <2>1. /\ g \in DOMAIN by_id /\ heap[by_id[g].host_conn].station_urls
        /\ public_remaining(by_id[g]) > 0
    BY DEF QuickMatchCandidates
  <2>2. by_id[g] \in Gathering /\ Fits(by_id[g])
    BY <2>1, LiveGathering
       DEF RosterInv, FiniteRosters, UniquePids, LobbyCapacity, Fits
  <2>3. ~is_full(by_id[g])
    BY <2>1, <2>2, RoomLeft
  <2> QED
    BY <2>1, <2>3 DEF JoinAccepted
<1> QED
  BY <1>1, RosterCorrect, PTL

-----------------------------------------------------------------------------
\* The refinement.

\* The abstract lobby that a gathering stands for.
LobbyOf(g) == [owner |-> g.owner_pid, members |-> PidsOf(g)]

\* The refinement mapping of LobbyProps, by its name.
Lobbies == [g \in DOMAIN by_id |-> LobbyOf(by_id[g])]

\* A lobby with other members.
LEMMA LobbyExcept ==
  ASSUME NEW g, NEW S
  PROVE  [LobbyOf(g) EXCEPT !.members = S] = [owner |-> g.owner_pid, members |-> S]
BY DEF LobbyOf

\* A roster has at least as many entries as accounts.
LEMMA PidsCard ==
  ASSUME NEW g, IsFiniteSet(g.participants)
  PROVE  /\ IsFiniteSet(PidsOf(g))
         /\ Cardinality(PidsOf(g)) <= Cardinality(g.participants)
<1> DEFINE f == [p \in g.participants |-> p.pid]
<1>1. f \in Surjection(g.participants, PidsOf(g))
  BY DEF Surjection, PidsOf
<1> QED
  BY <1>1, FS_Surjection

\* A step after which gatherings only lost members, or are gone, is a Depart.
LEMMA DepartStep ==
  ASSUME DOMAIN by_id' \subseteq DOMAIN by_id, next_gathering_id' = next_gathering_id,
         \A g \in DOMAIN by_id' : /\ by_id'[g].owner_pid = by_id[g].owner_pid
                                  /\ by_id'[g].participants \subseteq by_id[g].participants
  PROVE  D!Depart
<1>1. ASSUME NEW g \in DOMAIN by_id'
      PROVE  \E left \in SUBSET PidsOf(by_id[g]) :
               LobbyOf(by_id'[g]) = [LobbyOf(by_id[g]) EXCEPT !.members = @ \ left]
  <2> DEFINE left == PidsOf(by_id[g]) \ PidsOf(by_id'[g])
  <2>1. PidsOf(by_id'[g]) = PidsOf(by_id[g]) \ left
    BY DEF PidsOf
  <2>2. LobbyOf(by_id[g]).members = PidsOf(by_id[g])
    BY DEF LobbyOf
  <2>3. LobbyOf(by_id'[g]) = [owner |-> by_id[g].owner_pid, members |-> PidsOf(by_id'[g])]
    BY Zenon DEF LobbyOf
  <2>4. [LobbyOf(by_id[g]) EXCEPT !.members = PidsOf(by_id'[g])] =
          [owner |-> by_id[g].owner_pid, members |-> PidsOf(by_id'[g])]
    BY LobbyExcept
  <2>5. LobbyOf(by_id'[g]) = [LobbyOf(by_id[g]) EXCEPT !.members = @ \ left]
    BY <2>1, <2>2, <2>3, <2>4, Zenon
  <2> HIDE DEF left
  <2>6. left \in SUBSET PidsOf(by_id[g])
    BY DEF left
  <2> QED
    BY <2>5, <2>6, Zenon
<1> QED
  BY <1>1 DEF D!Depart, LobbyOf

\* Create is an Open by the caller's account.
LEMMA OpenStep ==
  ASSUME RosterInv, NEW p \in Ports, NEW r \in Remotes, NEW slots, CreateGathering(p, r, slots),
         NEW pid, pid = Caller(p, r)
  PROVE  D!Open(pid)
<1> DEFINE gid == next_gathering_id
           gone == Superseded(owner_pid_to_id, by_id, pid)
           h == NewGathering(pid, r, connections[p][r], slots)
<1>0. TypeOK /\ FreshIds
  BY DEF RosterInv
<1>1. /\ gid \notin DOMAIN by_id
      /\ DOMAIN by_id' = (DOMAIN by_id \ gone) \cup {gid}
      /\ by_id'[gid] = h
      /\ \A g \in DOMAIN by_id \ gone : by_id'[g] = by_id[g]
  BY <1>0, CreateEffect, Zenon
<1>2. gone = {g \in DOMAIN by_id : by_id[g].owner_pid = pid}
  BY DEF Superseded, OwnerIndexExact, RosterInv
<1>3. h.owner_pid = pid /\ PidsOf(h) = {pid}
  BY DEF NewGathering, PidsOf, Participant
<1>4. next_gathering_id' = gid + 1
  BY DEF CreateGathering
<1> HIDE DEF h, gone
<1>5. D!OwnedBy(pid) = gone
  BY <1>2 DEF D!OwnedBy
<1> QED
  BY <1>1, <1>3, <1>4, <1>5 DEF D!Open

\* Join admits the caller (a re-join admits a member again, which changes
\* nothing).
LEMMA AdmitStep ==
  ASSUME RosterInv, NEW p \in Ports, NEW r \in Remotes, NEW gid, JoinGathering(p, r, gid),
         NEW pid, pid = Caller(p, r)
  PROVE  gid \in DOMAIN by_id /\ pid \in UserPids /\ D!Admit(gid, pid)
<1> DEFINE h == add_participant(by_id[gid], pid, r, connections[p][r])
<1>0. /\ TypeOK /\ gid \in DOMAIN by_id /\ by_id' = [by_id EXCEPT ![gid] = h]
      /\ JoinAccepted(by_id[gid]) /\ next_gathering_id' = next_gathering_id
  BY DEF RosterInv, JoinGathering
<1>1. by_id[gid] \in Gathering /\ pid \in UserPids
  BY <1>0, LiveGathering, CallerType DEF JoinGathering, TypeOK
<1>2. h.owner_pid = by_id[gid].owner_pid /\ PidsOf(h) = PidsOf(by_id[gid]) \cup {pid}
  <2>1. CASE pid \in PidsOf(by_id[gid])
    <3> DEFINE swap(q) == IF q.pid = pid THEN [q EXCEPT !.conn = connections[p][r]] ELSE q
    <3>1. /\ h.owner_pid = by_id[gid].owner_pid
          /\ h.participants = {swap(q) : q \in by_id[gid].participants}
      BY <1>1, <2>1 DEF add_participant, Gathering
    <3>2. \A q \in by_id[gid].participants : swap(q).pid = q.pid
      BY <1>1 DEF Gathering, ParticipantType
    <3> HIDE DEF swap, h
    <3>3. PidsOf(h) = PidsOf(by_id[gid])
      BY <3>1, <3>2 DEF PidsOf
    <3> QED
      BY <2>1, <3>1, <3>3
  <2>2. CASE pid \notin PidsOf(by_id[gid])
    <3> DEFINE x == Participant(pid, r, connections[p][r])
    <3>1. /\ h.owner_pid = by_id[gid].owner_pid /\ x.pid = pid
          /\ h.participants = by_id[gid].participants \cup {x}
      BY <1>1, <2>2 DEF add_participant, Gathering, Participant
    <3> HIDE DEF x, h
    <3> QED
      BY <3>1 DEF PidsOf
  <2> QED
    BY <2>1, <2>2
<1>3. Cardinality(PidsOf(by_id[gid])) < MAX_PARTICIPANTS_PER_GATHERING
  <2>1. IsFiniteSet(by_id[gid].participants)
    BY <1>0 DEF RosterInv, FiniteRosters
  <2>2. Cardinality(PidsOf(by_id[gid])) <= Cardinality(by_id[gid].participants)
    BY <2>1, PidsCard
  <2>3. Cardinality(PidsOf(by_id[gid])) \in Nat /\ Cardinality(by_id[gid].participants) \in Nat
    BY <2>1, PidsCard, FS_CardinalityType
  <2> QED
    BY <1>0, <2>2, <2>3, GatheringsAssumption DEF JoinAccepted, is_full
<1> HIDE DEF h
<1>4. LobbyOf(h) = [LobbyOf(by_id[gid]) EXCEPT !.members = @ \cup {pid}]
  BY <1>2 DEF LobbyOf
<1>5. Lobbies' = [Lobbies EXCEPT ![gid] = LobbyOf(h)]
  BY <1>0 DEF Lobbies, TypeOK
<1>6. Lobbies' = [Lobbies EXCEPT ![gid].members = @ \cup {pid}]
  BY <1>0, <1>4, <1>5 DEF Lobbies
<1>7. Lobbies[gid].members = PidsOf(by_id[gid])
  BY <1>0 DEF Lobbies, LobbyOf
<1>8. Cardinality(Lobbies[gid].members) < MAX_PARTICIPANTS_PER_GATHERING
  BY <1>3, <1>7, Zenon
<1>9. D!Admit(gid, pid)
  <2>1. Lobbies = [g \in DOMAIN by_id |->
                     [owner |-> by_id[g].owner_pid, members |-> PidsOf(by_id[g])]]
    BY Zenon DEF Lobbies, LobbyOf
  <2>2. Lobbies' = [g \in DOMAIN by_id' |->
                      [owner |-> by_id'[g].owner_pid, members |-> PidsOf(by_id'[g])]]
    BY Zenon DEF Lobbies, LobbyOf, PidsOf
  <2> HIDE DEF Lobbies
  <2>3. UNCHANGED next_gathering_id
    BY <1>0
  <2> QED
    BY <1>6, <1>8, <2>1, <2>2, <2>3, Zenon DEF D!Admit, D!Cardinality, Cardinality
<1> QED
  BY <1>0, <1>1, <1>9, Zenon

\* Every step of the server is a step of the directory, or leaves it alone.
LEMMA DirectoryStep ==
  ASSUME RosterInv, [Next]_vars
  PROVE  D!Next \/ UNCHANGED <<Lobbies, next_gathering_id>>
<1>0. TypeOK
  BY DEF RosterInv
<1>1. CASE KeepsRosters
  <2>1. \A g \in DOMAIN by_id : LobbyOf(by_id'[g]) = LobbyOf(by_id[g])
    BY <1>1 DEF KeepsRosters, SameRoster, LobbyOf, PidsOf
  <2> QED
    BY <1>1, <2>1 DEF KeepsRosters, Lobbies
<1>2. ASSUME NEW p \in Ports, NEW r \in Remotes, NEW slots, CreateGathering(p, r, slots)
      PROVE  D!Next
  <2>1. PICK pid \in UserPids : pid = Caller(p, r)
    BY <1>0, <1>2, CallerType DEF CreateGathering, TypeOK
  <2>2. D!Open(pid)
    BY <1>2, <2>1, OpenStep, Zenon
  <2> QED
    BY <2>1, <2>2, Zenon DEF D!Next
<1>3. ASSUME NEW p \in Ports, NEW r \in Remotes, NEW gid, JoinGathering(p, r, gid)
      PROVE  D!Next
  <2>1. PICK pid \in UserPids : pid = Caller(p, r)
    BY <1>0, <1>3, CallerType DEF JoinGathering, TypeOK
  <2>2. gid \in DOMAIN by_id /\ D!Admit(gid, pid)
    BY <1>3, <2>1, AdmitStep, Zenon
  <2> QED
    BY <2>1, <2>2 DEF D!Next
<1>4. ASSUME NEW p \in Ports, NEW r \in Remotes, NEW gid, LeaveGathering(p, r, gid)
      PROVE  D!Depart
  <2> DEFINE h == remove_participant(by_id[gid], Caller(p, r))
  <2>1. /\ gid \in DOMAIN by_id /\ by_id' = [by_id EXCEPT ![gid] = h]
        /\ next_gathering_id' = next_gathering_id
    BY <1>4 DEF LeaveGathering
  <2>2. /\ h.owner_pid = by_id[gid].owner_pid
        /\ h.participants \subseteq by_id[gid].participants
    BY <1>0, <2>1, LiveGathering DEF remove_participant, Gathering
  <2> HIDE DEF h
  <2>3. \A g \in DOMAIN by_id' : /\ g \in DOMAIN by_id
                                 /\ by_id'[g].owner_pid = by_id[g].owner_pid
                                 /\ by_id'[g].participants \subseteq by_id[g].participants
    BY <1>0, <2>1, <2>2 DEF TypeOK
  <2> QED
    BY <2>1, <2>3, DepartStep
<1>5. ASSUME NEW p \in Ports, NEW r \in Remotes, NEW gid, DestroyGathering(p, r, gid)
      PROVE  D!Depart
  <2>1. /\ next_gathering_id' = next_gathering_id
        /\ \A g \in DOMAIN by_id' : g \in DOMAIN by_id /\ by_id'[g] = by_id[g]
    BY <1>5 DEF DestroyGathering, Without
  <2> QED
    BY <2>1, DepartStep
<1>6. ASSUME Reap \/ \E p \in Ports, r \in Remotes : Disconnect(p, r)
      PROVE  D!Depart
  <2>1. PICK R : CloseHooks(R)
    BY <1>0, <1>6, CloseSteps
  <2>2. /\ next_gathering_id' = next_gathering_id
        /\ \A g \in DOMAIN by_id' : g \in DOMAIN by_id /\ Shrunk(by_id[g], by_id'[g])
    BY <1>0, <2>1, CloseHooksEffect DEF CloseHooks
  <2> QED
    BY <2>2, DepartStep DEF Shrunk
<1> QED
  BY <1>0, <1>1, <1>2, <1>3, <1>4, <1>5, <1>6, RosterSteps DEF D!Next

\* The server implements the directory: whatever mix of packets, closes and
\* timeouts, its users see an account host at most one lobby, fresh ids, one
\* admission at a time and only while there is room.
THEOREM DirectoryImplemented == Spec => ImplementsDirectory
<1>1. Init => D!Init
  BY DEF Init, D!Init
<1>2. RosterInv /\ [Next]_vars => [D!Next]_<<Lobbies, next_gathering_id>>
  BY DirectoryStep
<1>3. Lobbies = [g \in DOMAIN by_id |->
                   [owner |-> by_id[g].owner_pid, members |-> PidsOf(by_id[g])]]
  BY DEF Lobbies, LobbyOf
<1> QED
  BY <1>1, <1>2, <1>3, RosterCorrect, PTL DEF Spec, ImplementsDirectory, D!Spec, Lobbies, LobbyOf

=============================================================================

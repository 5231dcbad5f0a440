---------------------------- MODULE PeersProofs ----------------------------
(***************************************************************************)
(* Proofs about what the consoles learn of each other (module Peers): the  *)
(* type invariant, RostersComplete, AddressesOwned, ProbesHaveListener and *)
(* NoSilentLeave hold for any number of ports, addresses, connections and  *)
(* accounts.                                                               *)
(***************************************************************************)
EXTENDS Peers, LobbyRosters

-----------------------------------------------------------------------------
\* The inductive invariant.

\* Connection c is in use, and was made for address r.
Made(c, r) == heap[c].state # "INITIAL" /\ remote[c] = r

\* Connection c has logged in as account pid.
LoggedIn(c) == heap[c].state \notin {"INITIAL", "SYN_RECV"}
Authenticated(c, pid) == LoggedIn(c) /\ heap[c].user_pid = pid
AuthenticatedAfter(c, pid) ==
  heap'[c].state \notin {"INITIAL", "SYN_RECV"} /\ heap'[c].user_pid = pid

\* An entry holds an object that was made for its address; no object is in two
\* places; and a gathering refers to connections of the very accounts that it
\* lists, its owner's to the one made for the owner's address.
EntriesMade ==
  \A p \in Ports, r \in Remotes : Connected(p, r) => Made(connections[p][r], r)

EntriesDistinct ==
  \A p, q \in Ports, r, s \in Remotes :
    Connected(p, r) /\ connections[p][r] = connections[q][s] => p = q /\ r = s

HostMade(g) ==
  /\ Made(by_id[g].host_conn, by_id[g].owner_remote)
  /\ Authenticated(by_id[g].host_conn, by_id[g].owner_pid)

MembersMade ==
  \A g \in DOMAIN by_id :
    /\ HostMade(g)
    /\ \A q \in by_id[g].participants : Authenticated(q.conn, q.pid)

\* So do the rosters.
EntriesOwned ==
  \A c \in Conns : \A e \in roster[c] : e.url = NoUrl \/ Authenticated(e.url, e.pid)

Placement == EntriesMade /\ EntriesDistinct /\ MembersMade

PeersInv ==
  /\ RosterInv
  /\ PeersTypeOK
  /\ Placement
  /\ RostersComplete
  /\ EntriesOwned
  /\ ProbesHaveListener

-----------------------------------------------------------------------------
\* The steps of PeersNext.

\* A step that leaves the registry alone and pushes no join or leave event.
NoNews ==
  /\ UNCHANGED <<by_id, owner_pid_to_id, next_gathering_id, timers, txn, career>>
  /\ \A m \in out' : m.kind = "probe"

\* Every step either leaves the registry alone or is one of those that change
\* a roster.
LEMMA PeersCases ==
  ASSUME PeersNext
  PROVE  \/ NoNews
         \/ \E p \in Ports, r \in Remotes :
              \/ \E slots \in SlotChoices : CreateGathering(p, r, slots)
              \/ \E gid \in Gids : \/ JoinGathering(p, r, gid)
                                   \/ LeaveGathering(p, r, gid)
                                   \/ DestroyGathering(p, r, gid)
              \/ Disconnect(p, r)
         \/ Reap
<1>1. Quiet => NoNews
  BY DEF Quiet, NoNews
<1>2. ASSUME NEW p, NEW r, NEW c, RequestProbeInitiation(p, r, c)
      PROVE  NoNews
  BY <1>2 DEF RequestProbeInitiation, Probe, NoNews
<1>3. ASSUME NEW p, NEW r,
             \/ Syn(p, r) \/ DataOnly(p, r) \/ RegisterEx(p, r) \/ SilentFor(p, r)
             \/ \E pid \in UserPids : Connect(p, r, pid)
      PROVE  Quiet
  BY <1>3 DEF Syn, DataOnly, RegisterEx, SilentFor, Connect
<1> QED
  BY <1>1, <1>2, <1>3 DEF PeersNext, Call

\* Seen by module Lobby, every step but a request for probes is a step of Next.
LEMMA PeersLobbySteps ==
  ASSUME PeersNext
  PROVE  Next \/ \E p \in Ports, r \in Remotes, c \in Conns : RequestProbeInitiation(p, r, c)
<1>1. Gids \subseteq Gids \cup {0}
  OBVIOUS
<1>2. ASSUME NEW p \in Ports, NEW r \in Remotes, Call(p, r)
      PROVE  PacketFrom(p, r) \/ \E c \in Conns : RequestProbeInitiation(p, r, c)
  BY <1>1, <1>2 DEF Call, PacketFrom
<1> QED
  BY <1>2 DEF PeersNext, Next

\* A request for probes keeps the types: the probes name the connections they
\* are about, and are only pushed while there is a gathering.
LEMMA ProbeTypes ==
  ASSUME TypeOK, NEW p \in Ports, NEW r \in Remotes, NEW c \in Conns,
         RequestProbeInitiation(p, r, c)
  PROVE  TypeOK'
<1>1. PrudpTypeOK /\ HandleData(p, r)
  BY DEF TypeOK, RequestProbeInitiation
<1>2. PrudpTypeOK' /\ connections[p][r] \in Conns
  BY <1>1, TransportTypes, CallerType
<1>3. FirstGid \in Gids
  <2>1. \E g \in DOMAIN by_id : TRUE
    BY DEF RequestProbeInitiation, FindConn
  <2>2. PICK g : g \in FirstGid .. (FirstGid + MaxGatherings - 1)
    BY <2>1 DEF TypeOK, Gids
  <2> QED
    BY <2>2, GatheringsAssumption DEF Gids, FirstGid
<1>4. ASSUME NEW to \in Conns, NEW d \in Conns
      PROVE  Probe(to, d) \subseteq Push
  <2>1. heap[d].user_pid \in UserPids
    BY <1>1 DEF PrudpTypeOK, Connection
  <2>2. [kind |-> "probe", to |-> to, pid |-> heap[d].user_pid, gid |-> FirstGid,
         txn |-> 0, cash |-> 0] \in Push
    BY <1>3, <2>1, LobbyAssumption DEF Push
  <2> QED
    BY <2>2 DEF Probe
<1>5. out' \subseteq Push
  BY <1>2, <1>4 DEF RequestProbeInitiation
<1> QED
  BY <1>2, <1>5 DEF RequestProbeInitiation, TypeOK

\* So the server's own invariant holds throughout.
LEMMA RosterInvStep ==
  ASSUME RosterInv, PeersNext
  PROVE  RosterInv'
<1>1. CASE Next
  <2>1. TypeOK'
    BY <1>1, TypeInductive DEF RosterInv
  <2> QED
    BY <1>1, <2>1, RosterInvInductive
<1>2. ASSUME NEW p \in Ports, NEW r \in Remotes, NEW c \in Conns,
             RequestProbeInitiation(p, r, c)
      PROVE  RosterInv'
  <2>1. TypeOK'
    BY <1>2, ProbeTypes DEF RosterInv
  <2>2. UNCHANGED <<connections, by_id, owner_pid_to_id, next_gathering_id>>
    BY <1>2 DEF RequestProbeInitiation, HandleData
  <2> QED
    BY <2>1, <2>2 DEF RosterInv, FiniteRosters, FreshIds, UniquePids, LobbyCapacity,
                      OwnerIndexExact, NoOrphans, Connected
<1> QED
  BY <1>1, <1>2, PeersLobbySteps

-----------------------------------------------------------------------------
\* The tables and the objects.

\* An entry that is there after a step was there before, but for the one a SYN
\* fills with an object nobody has seen; and no object becomes unused again, or
\* changes its account once it has logged in.
EntriesKept ==
  \A p \in Ports, r \in Remotes :
    connections'[p][r] # NoConn =>
      \/ connections'[p][r] = connections[p][r]
      \/ heap[connections'[p][r]].state = "INITIAL"

StatesKept ==
  \A c \in Conns :
    /\ heap[c].state # "INITIAL" => heap'[c].state # "INITIAL"
    /\ LoggedIn(c) => LoggedIn(c)' /\ heap'[c].user_pid = heap[c].user_pid

\* What the tables may be after a step.
Tables ==
  /\ EntriesKept
  /\ StatesKept
  /\ \A p \in Ports, r \in Remotes :
       connections'[p][r] # NoConn => heap'[connections'[p][r]].state # "INITIAL"
  /\ \A p, q \in Ports, r, s \in Remotes :
       connections'[p][r] # NoConn /\ connections'[p][r] = connections'[q][s] => p = q /\ r = s

\* A SYN takes an unused object.
LEMMA SynTables ==
  ASSUME PrudpTypeOK, EntriesMade, EntriesDistinct, NEW p \in Ports, NEW r \in Remotes,
         HandleSyn(p, r)
  PROVE  Tables
<1>1. PICK c \in Conns :
        /\ heap[c].state = "INITIAL"
        /\ heap' = [heap EXCEPT ![c] = NewConnection("SYN_RECV")]
        /\ connections' = [connections EXCEPT ![p][r] = c]
  BY DEF HandleSyn
<1>2. \A q \in Ports, s \in Remotes :
        connections'[q][s] = IF q = p /\ s = r THEN c ELSE connections[q][s]
  BY <1>1 DEF PrudpTypeOK
<1>3. /\ heap'[c].state = "SYN_RECV"
      /\ \A d \in Conns : d # c => heap'[d] = heap[d]
  BY <1>1 DEF PrudpTypeOK, NewConnection
<1>4. \A q \in Ports, s \in Remotes : connections[q][s] # NoConn =>
        /\ connections[q][s] \in Conns /\ connections[q][s] # c
        /\ heap[connections[q][s]].state # "INITIAL"
  BY <1>1 DEF PrudpTypeOK, EntriesMade, Made, Connected
<1>5. EntriesKept /\ StatesKept
  <2>1. EntriesKept
    BY <1>1, <1>2 DEF EntriesKept
  <2>2. \A d \in Conns : heap[d].state # "INITIAL" => heap'[d] = heap[d]
    BY <1>1, <1>3
  <2>3. StatesKept
    BY <2>2 DEF StatesKept, LoggedIn
  <2> QED
    BY <2>1, <2>3
<1>6. ASSUME NEW q \in Ports, NEW s \in Remotes, connections'[q][s] # NoConn
      PROVE  heap'[connections'[q][s]].state # "INITIAL"
  <2>1. CASE q = p /\ s = r
    <3>1. connections'[q][s] = c
      BY <1>2, <2>1
    <3> QED
      BY <1>3, <3>1
  <2>2. CASE ~(q = p /\ s = r)
    <3>1. connections'[q][s] = connections[q][s]
      BY <1>2, <2>2
    <3>2. /\ connections[q][s] \in Conns /\ connections[q][s] # c
          /\ heap[connections[q][s]].state # "INITIAL"
      BY <1>4, <1>6, <3>1
    <3>3. heap'[connections[q][s]] = heap[connections[q][s]]
      BY <1>3, <3>2
    <3> QED
      BY <3>1, <3>2, <3>3, Zenon
  <2> QED
    BY <2>1, <2>2
<1>7. ASSUME NEW q \in Ports, NEW s \in Remotes, NEW t \in Ports, NEW u \in Remotes,
             connections'[q][s] # NoConn, connections'[q][s] = connections'[t][u]
      PROVE  q = t /\ s = u
  BY <1>2, <1>4, <1>7, PrudpAssumption DEF EntriesDistinct, Connected
<1> QED
  BY <1>5, <1>6, <1>7 DEF Tables

\* A step that fills no entry keeps the tables in order.
LEMMA KeptTables ==
  ASSUME PrudpTypeOK, EntriesMade, EntriesDistinct, StatesKept,
         \A p \in Ports, r \in Remotes : connections'[p][r] \in {connections[p][r], NoConn}
  PROVE  Tables
BY DEF Tables, EntriesKept, StatesKept, EntriesMade, EntriesDistinct, Made, Connected,
       PrudpTypeOK

\* So does every step of PeersNext.
LEMMA TablesStep ==
  ASSUME PrudpTypeOK, EntriesMade, EntriesDistinct, PeersNext
  PROVE  Tables
<1>1. ASSUME NEW p \in Ports, NEW r \in Remotes, Established(p, r),
             heap' = Touched(connections[p][r])
      PROVE  StatesKept
  BY <1>1 DEF StatesKept, LoggedIn, Touched, Established, Connected, PrudpTypeOK, Connection
<1>2. ASSUME NEW p \in Ports, NEW r \in Remotes, HandleData(p, r)
      PROVE  Tables
  BY <1>1, <1>2, KeptTables DEF HandleData
<1>3. ASSUME NEW p \in Ports, NEW r \in Remotes, NEW pid, HandleConnect(p, r, pid)
      PROVE  Tables
  <2>1. StatesKept
    BY <1>3 DEF StatesKept, LoggedIn, HandleConnect, PrudpTypeOK, Connection
  <2> QED
    BY <1>3, <2>1, KeptTables DEF HandleConnect
<1>4. ASSUME NEW p \in Ports, NEW r \in Remotes, RegisterEx(p, r)
      PROVE  Tables
  <2>1. StatesKept
    BY <1>4 DEF StatesKept, LoggedIn, RegisterEx, PrudpTypeOK, Connection
  <2> QED
    BY <1>4, <2>1, KeptTables DEF RegisterEx
<1>5. ASSUME NEW p \in Ports, NEW r \in Remotes, Elapse(p, r)
      PROVE  Tables
  <2>1. StatesKept
    BY <1>5 DEF StatesKept, LoggedIn, Elapse, PrudpTypeOK, Connection
  <2> QED
    BY <1>5, <2>1, KeptTables DEF Elapse
<1>6. ASSUME NEW p \in Ports, NEW r \in Remotes, HandleDisconnect(p, r)
      PROVE  Tables
  <2>1. StatesKept
    BY <1>6 DEF StatesKept, LoggedIn, HandleDisconnect, PrudpTypeOK, Connection
  <2>2. \A q \in Ports, s \in Remotes : connections'[q][s] \in {connections[q][s], NoConn}
    BY <1>6 DEF HandleDisconnect, PrudpTypeOK
  <2> QED
    BY <2>1, <2>2, KeptTables
<1>7. CASE Reap
  <2>1. StatesKept
    BY <1>7 DEF StatesKept, LoggedIn, Reap, ReapIdle
  <2>2. \A q \in Ports, s \in Remotes : connections'[q][s] \in {connections[q][s], NoConn}
    BY <1>7 DEF Reap, ReapIdle
  <2> QED
    BY <2>1, <2>2, KeptTables
<1> QED
  BY <1>2, <1>3, <1>4, <1>5, <1>6, <1>7, SynTables
     DEF PeersNext, Call, Syn, Connect, DataOnly, Disconnect, SilentFor, CreateGathering,
         JoinGathering, LeaveGathering, DestroyGathering, RequestProbeInitiation

\* A connection's remote is recorded when it enters a table, and stays.
LEMMA MadeStep ==
  ASSUME PeersTypeOK, EntriesMade, Placed, Tables, PrudpTypeOK'
  PROVE  /\ EntriesMade' /\ EntriesDistinct'
         /\ \A c \in Conns : \A r : Made(c, r) => Made(c, r)'
<1>1. ASSUME NEW p \in Ports, NEW r \in Remotes, connections'[p][r] # NoConn
      PROVE  /\ connections'[p][r] \in Conns
             /\ Places(connections'[p][r]) = {r}
             /\ remote'[connections'[p][r]] = r
  <2>1. connections'[p][r] \in Conns
    BY <1>1 DEF PrudpTypeOK
  <2>2. Places(connections'[p][r]) = {r}
    BY <1>1 DEF Places, Tables
  <2> QED
    BY <2>1, <2>2 DEF Placed
<1>2. EntriesMade'
  BY <1>1 DEF EntriesMade, Made, Connected, Tables
<1>3. EntriesDistinct'
  BY DEF EntriesDistinct, Connected, Tables
<1>4. ASSUME NEW c \in Conns, NEW r, Made(c, r)
      PROVE  Made(c, r)'
  <2>1. heap'[c].state # "INITIAL"
    BY <1>4 DEF Made, Tables, StatesKept
  <2>2. CASE Places(c) = {}
    BY <1>4, <2>1, <2>2 DEF Placed, Made
  <2>3. CASE Places(c) # {}
    <3>1. PICK p \in Ports, s \in Remotes : connections'[p][s] = c
      BY <2>3 DEF Places
    <3>2. c # NoConn
      BY PrudpAssumption
    <3>3. connections[p][s] = c
      BY <1>4, <3>1, <3>2 DEF Tables, EntriesKept, Made
    <3>4. remote[c] = s /\ remote'[c] = s
      BY <1>1, <3>1, <3>2, <3>3 DEF EntriesMade, Made, Connected
    <3> QED
      BY <1>4, <2>1, <3>4 DEF Made
  <2> QED
    BY <2>2, <2>3
<1> QED
  BY <1>2, <1>3, <1>4

-----------------------------------------------------------------------------
\* The registry, step by step.

\* The effect of a join on the gathering it names: the member of the caller
\* has the calling connection, the others stay as they were.
LEMMA JoinEffect ==
  ASSUME TypeOK, NEW p \in Ports, NEW r \in Remotes, NEW gid, JoinGathering(p, r, gid)
  PROVE  /\ gid \in DOMAIN by_id /\ DOMAIN by_id' = DOMAIN by_id
         /\ connections[p][r] \in Conns /\ UNCHANGED connections
         /\ \A g \in DOMAIN by_id : g # gid => by_id'[g] = by_id[g]
         /\ by_id'[gid].host_conn = by_id[gid].host_conn
         /\ by_id'[gid].owner_remote = by_id[gid].owner_remote
         /\ by_id'[gid].owner_pid = by_id[gid].owner_pid
         /\ \A q \in by_id'[gid].participants :
              IF q.pid = Caller(p, r) THEN q.conn = connections[p][r]
                                      ELSE q \in by_id[gid].participants
         /\ PidsOf(by_id[gid]) \cup {Caller(p, r)} \subseteq PidsOf(by_id'[gid])
<1> DEFINE pid == Caller(p, r)
           c   == connections[p][r]
           g   == by_id[gid]
           h   == add_participant(g, pid, r, c)
<1>1. gid \in DOMAIN by_id /\ by_id' = [by_id EXCEPT ![gid] = h]
        /\ c \in Conns /\ UNCHANGED connections /\ g \in Gathering
  BY CallerType, LiveGathering DEF JoinGathering, HandleData, TypeOK
<1>2. /\ h.host_conn = g.host_conn /\ h.owner_remote = g.owner_remote /\ h.owner_pid = g.owner_pid
      /\ \A q \in h.participants : IF q.pid = pid THEN q.conn = c ELSE q \in g.participants
      /\ PidsOf(g) \cup {pid} \subseteq PidsOf(h)
  <2> HIDE DEF pid, c, g
  <2>1. g \in Gathering /\ g.participants \subseteq ParticipantType
    BY <1>1 DEF Gathering
  <2>2. CASE pid \in PidsOf(g)
    <3> DEFINE S == {IF q.pid = pid THEN [q EXCEPT !.conn = c] ELSE q : q \in g.participants}
    <3>1. /\ h.host_conn = g.host_conn /\ h.owner_remote = g.owner_remote /\ h.owner_pid = g.owner_pid
          /\ h.participants = S
      BY <2>1, <2>2 DEF add_participant, Gathering
    <3>2. \A q \in g.participants : /\ [q EXCEPT !.conn = c].pid = q.pid
                                    /\ [q EXCEPT !.conn = c].conn = c
      BY <2>1 DEF ParticipantType
    <3>3. \A q \in S : IF q.pid = pid THEN q.conn = c ELSE q \in g.participants
      BY <3>2
    <3>4. \A q \in g.participants : \E x \in S : x.pid = q.pid
      BY <3>2
    <3> HIDE DEF h, S
    <3>5. PidsOf(g) \subseteq PidsOf(h)
      BY <3>1, <3>4 DEF PidsOf
    <3> QED
      BY <2>2, <3>1, <3>3, <3>5
  <2>3. CASE pid \notin PidsOf(g)
    <3>1. /\ h.host_conn = g.host_conn /\ h.owner_remote = g.owner_remote /\ h.owner_pid = g.owner_pid
          /\ h.participants = g.participants \cup {Participant(pid, r, c)}
      BY <2>1, <2>3 DEF add_participant, Gathering
    <3>2. \A q \in g.participants : q.pid # pid
      BY <2>3 DEF PidsOf
    <3> HIDE DEF h
    <3>3. Participant(pid, r, c).pid = pid /\ Participant(pid, r, c).conn = c
      BY DEF Participant
    <3>4. PidsOf(g) \cup {pid} \subseteq PidsOf(h)
      BY <3>1, <3>3 DEF PidsOf
    <3> QED
      BY <3>1, <3>2, <3>3, <3>4
  <2> QED
    BY <2>2, <2>3
<1>3. by_id'[gid] = h /\ DOMAIN by_id' = DOMAIN by_id
        /\ \A x \in DOMAIN by_id : x # gid => by_id'[x] = by_id[x]
  <2> HIDE DEF h
  <2> QED BY <1>1 DEF TypeOK
<1> HIDE DEF h
<1> QED
  BY <1>1, <1>2, <1>3

\* The effect of a leave: the caller's account is gone, the others stay.
LEMMA LeaveEffect ==
  ASSUME TypeOK, NEW p \in Ports, NEW r \in Remotes, NEW gid, LeaveGathering(p, r, gid)
  PROVE  /\ gid \in DOMAIN by_id /\ DOMAIN by_id' = DOMAIN by_id /\ UNCHANGED connections
         /\ \A g \in DOMAIN by_id : g # gid => by_id'[g] = by_id[g]
         /\ by_id'[gid].host_conn = by_id[gid].host_conn
         /\ by_id'[gid].owner_remote = by_id[gid].owner_remote
         /\ by_id'[gid].owner_pid = by_id[gid].owner_pid
         /\ by_id'[gid].participants =
              {q \in by_id[gid].participants : q.pid # Caller(p, r)}
<1>1. gid \in DOMAIN by_id /\ UNCHANGED connections /\ by_id[gid] \in Gathering
        /\ by_id' = [by_id EXCEPT ![gid] = remove_participant(by_id[gid], Caller(p, r))]
  BY LiveGathering DEF LeaveGathering, HandleData
<1> QED
  BY <1>1 DEF remove_participant, Gathering, TypeOK

\* Whatever the step: a gathering that was there keeps its host, and its members
\* are old ones, but for the caller of a join; a new gathering belongs to the
\* connection that asks for it.
HostKept(g) ==
  /\ g \in DOMAIN by_id
  /\ by_id'[g].host_conn = by_id[g].host_conn
  /\ by_id'[g].owner_remote = by_id[g].owner_remote
  /\ by_id'[g].owner_pid = by_id[g].owner_pid

SeatedBy(p, r, g) ==
  /\ connections[p][r] \in Conns /\ UNCHANGED connections /\ Established(p, r)
  /\ \/ HostKept(g)
     \/ /\ by_id'[g].host_conn = connections[p][r] /\ by_id'[g].owner_remote = r
        /\ by_id'[g].owner_pid = Caller(p, r)
  /\ \A q \in by_id'[g].participants :
       \/ g \in DOMAIN by_id /\ q \in by_id[g].participants
       \/ q.conn = connections[p][r] /\ q.pid = Caller(p, r)

Seats(g) == \E p \in Ports, r \in Remotes : SeatedBy(p, r, g)

Trimmed(g) == HostKept(g) /\ by_id'[g].participants \subseteq by_id[g].participants

LEMMA SeatsStep ==
  ASSUME TypeOK, FreshIds, PeersNext, NEW g \in DOMAIN by_id'
  PROVE  Trimmed(g) \/ Seats(g)
<1>1. CASE NoNews
  BY <1>1 DEF NoNews, Trimmed, HostKept
<1>2. ASSUME NEW p \in Ports, NEW r \in Remotes, NEW slots \in SlotChoices,
             CreateGathering(p, r, slots)
      PROVE  Trimmed(g) \/ Seats(g)
  <2> DEFINE gone == Superseded(owner_pid_to_id, by_id, Caller(p, r))
  <2>1. /\ DOMAIN by_id' = (DOMAIN by_id \ gone) \cup {next_gathering_id}
        /\ by_id'[next_gathering_id] =
             NewGathering(Caller(p, r), r, connections[p][r], slots)
        /\ \A h \in DOMAIN by_id \ gone : by_id'[h] = by_id[h]
    BY <1>2, CreateEffect, Zenon
  <2>2. connections[p][r] \in Conns /\ UNCHANGED connections /\ Established(p, r)
    BY <1>2, CallerType DEF CreateGathering, HandleData, TypeOK
  <2>3. CASE g = next_gathering_id
    BY <2>1, <2>2, <2>3 DEF Seats, SeatedBy, NewGathering, Participant
  <2>4. CASE g \in DOMAIN by_id \ gone
    BY <2>1, <2>4 DEF Trimmed, HostKept
  <2> HIDE DEF gone
  <2> QED
    BY <2>1, <2>3, <2>4
<1>3. ASSUME NEW p \in Ports, NEW r \in Remotes, NEW gid, JoinGathering(p, r, gid)
      PROVE  Trimmed(g) \/ Seats(g)
  <2>1. Established(p, r) /\ UNCHANGED connections
    BY <1>3 DEF JoinGathering, HandleData
  <2>2. CASE g = gid
    BY <1>3, <2>1, <2>2, JoinEffect DEF Seats, SeatedBy, HostKept
  <2>3. CASE g # gid
    BY <1>3, <2>3, JoinEffect DEF Trimmed, HostKept
  <2> QED
    BY <2>2, <2>3
<1>4. ASSUME NEW p \in Ports, NEW r \in Remotes, NEW gid, LeaveGathering(p, r, gid)
      PROVE  Trimmed(g)
  BY <1>4, LeaveEffect DEF Trimmed, HostKept
<1>5. ASSUME NEW p \in Ports, NEW r \in Remotes, NEW gid, DestroyGathering(p, r, gid)
      PROVE  Trimmed(g)
  BY <1>5 DEF DestroyGathering, Without, Trimmed, HostKept
<1>6. ASSUME Reap \/ \E p \in Ports, r \in Remotes : Disconnect(p, r)
      PROVE  Trimmed(g)
  <2>1. PICK R : CloseHooks(R)
    BY <1>6, CloseSteps
  <2>2. /\ g \in DOMAIN by_id
        /\ by_id'[g] = remove_participant_by_remote(by_id[g], R)
    BY <2>1 DEF CloseHooks, Without
  <2>3. by_id[g] \in Gathering
    BY <2>2, LiveGathering
  <2> QED
    BY <2>2, <2>3 DEF remove_participant_by_remote, Trimmed, HostKept, Gathering
<1> QED
  BY <1>1, <1>2, <1>3, <1>4, <1>5, <1>6, PeersCases

\* Tables, objects and references stay in order.
LEMMA PlacementStep ==
  ASSUME RosterInv, RosterInv', PeersTypeOK, Placement, PeersNext
  PROVE  Placement' /\ Tables
<1>0. PrudpTypeOK /\ PrudpTypeOK' /\ TypeOK /\ FreshIds
  BY DEF RosterInv, TypeOK
<1>1. Tables
  BY <1>0, TablesStep DEF Placement
<1>2. /\ EntriesMade' /\ EntriesDistinct'
      /\ \A c \in Conns : \A r : Made(c, r) => Made(c, r)'
  BY <1>0, <1>1, MadeStep DEF Placement, PeersNext
<1>3. ASSUME NEW c \in Conns, NEW pid, Authenticated(c, pid)
      PROVE  AuthenticatedAfter(c, pid)
  BY <1>1, <1>3 DEF Tables, StatesKept, Authenticated, AuthenticatedAfter, LoggedIn
<1>4. ASSUME NEW g \in DOMAIN by_id'
      PROVE  /\ HostMade(g)'
             /\ \A q \in by_id'[g].participants : AuthenticatedAfter(q.conn, q.pid)
  <2>1. ASSUME HostKept(g)
        PROVE  HostMade(g)'
    <3>1. by_id[g].host_conn \in Conns
      BY <2>1, <1>0, LiveGathering DEF HostKept, Gathering
    <3>2. /\ Made(by_id[g].host_conn, by_id[g].owner_remote)
          /\ Authenticated(by_id[g].host_conn, by_id[g].owner_pid)
      BY <2>1 DEF Placement, MembersMade, HostMade, HostKept
    <3>4. heap'[by_id[g].host_conn].state # "INITIAL" /\ remote'[by_id[g].host_conn] = by_id[g].owner_remote
      BY <1>2, <3>1, <3>2 DEF Made
    <3>5. /\ heap'[by_id[g].host_conn].state \notin {"INITIAL", "SYN_RECV"}
          /\ heap'[by_id[g].host_conn].user_pid = by_id[g].owner_pid
      BY <1>3, <3>1, <3>2 DEF Authenticated, AuthenticatedAfter, LoggedIn
    <3> QED
      BY <2>1, <3>4, <3>5 DEF HostKept, HostMade, Made, Authenticated, AuthenticatedAfter, LoggedIn
  <2>2. ASSUME g \in DOMAIN by_id, NEW q \in by_id[g].participants
        PROVE  AuthenticatedAfter(q.conn, q.pid)
    <3>1. q.conn \in Conns /\ Authenticated(q.conn, q.pid)
      BY <2>2, <1>0, LiveGathering DEF Gathering, ParticipantType, Placement, MembersMade
    <3> QED
      BY <1>3, <3>1
  <2>3. CASE Trimmed(g)
    BY <2>1, <2>2, <2>3 DEF Trimmed, HostKept
  <2>4. CASE Seats(g)
    <3>1. PICK p \in Ports, r \in Remotes : SeatedBy(p, r, g)
      BY <2>4 DEF Seats
    <3> DEFINE c == connections[p][r]
    <3>2. c \in Conns /\ UNCHANGED connections /\ Authenticated(c, Caller(p, r))
      BY <3>1 DEF SeatedBy, Established, Authenticated, AuthenticatedAfter, LoggedIn, Caller
    <3>3. Connected(p, r)' /\ connections'[p][r] = c
      BY <3>2, PrudpAssumption DEF Connected
    <3>4. heap'[c].state # "INITIAL" /\ remote'[c] = r
      BY <1>2, <3>3 DEF EntriesMade, Made, Connected
    <3>5. \A pid : pid = Caller(p, r) => AuthenticatedAfter(c, pid)
      BY <1>3, <3>2
    <3>6. ASSUME NEW q \in by_id'[g].participants
          PROVE  AuthenticatedAfter(q.conn, q.pid)
      <4>1. CASE g \in DOMAIN by_id /\ q \in by_id[g].participants
        BY <2>2, <4>1
      <4>2. CASE q.conn = c /\ q.pid = Caller(p, r)
        BY <3>5, <4>2 DEF Authenticated, AuthenticatedAfter, LoggedIn
      <4>3. \/ g \in DOMAIN by_id /\ q \in by_id[g].participants
            \/ q.conn = c /\ q.pid = Caller(p, r)
        BY <3>1, <3>6, Zenon DEF SeatedBy
      <4> QED
        BY <4>1, <4>2, <4>3
    <3>7. ASSUME by_id'[g].host_conn = c, by_id'[g].owner_remote = r,
                 by_id'[g].owner_pid = Caller(p, r)
          PROVE  HostMade(g)'
      BY <3>4, <3>5, <3>7 DEF HostMade, Made, Authenticated, AuthenticatedAfter, LoggedIn
    <3> QED
      BY <2>1, <3>1, <3>6, <3>7 DEF SeatedBy
  <2> QED
    BY <1>0, <2>3, <2>4, SeatsStep
<1> QED
  BY <1>1, <1>2, <1>4 DEF Placement, MembersMade, Authenticated, AuthenticatedAfter, LoggedIn

-----------------------------------------------------------------------------
\* The events of a step.

\* A join tells every reachable member of its gathering about the caller, and
\* every entry of the caller about all members; no other event goes out.
LEMMA JoinEvents ==
  ASSUME TypeOK, NEW p \in Ports, NEW r \in Remotes, NEW gid, JoinGathering(p, r, gid)
  PROVE  /\ \A m \in out' : m.kind # "probe" =>
              m.kind = "join" /\ m.gid = gid /\ m.pid \in PidsOf(by_id'[gid])
         /\ \A m \in out' : m.kind = "probe" => m.to = by_id'[gid].host_conn
         /\ \A x, y \in by_id'[gid].participants :
              Connected(p, y.remote) /\ Caller(p, r) \in {x.pid, y.pid} =>
                \E m \in out' : /\ m.to = connections[p][y.remote] /\ m.kind = "join"
                                /\ m.gid = gid /\ m.pid = x.pid
<1> DEFINE pid   == Caller(p, r)
           c     == connections[p][r]
           h     == add_participant(by_id[gid], pid, r, c)
           parts == h.participants
<1>1. by_id'[gid] = h /\ pid \in PidsOf(by_id'[gid])
  <2>1. gid \in DOMAIN by_id /\ by_id' = [by_id EXCEPT ![gid] = h]
    BY DEF JoinGathering
  <2>2. pid \in PidsOf(by_id'[gid])
    BY JoinEffect, Zenon
  <2> HIDE DEF h, pid
  <2> QED BY <2>1, <2>2 DEF TypeOK
<1>2. out' = {Event("probe", h.host_conn, pid, gid) :
                x \in IF heap[c].station_urls THEN {c} ELSE {}}
             \cup Broadcast(p, "join", parts, pid, gid)
             \cup push_participants_to_joiner(p, parts, pid, gid)
  BY DEF JoinGathering
<1> HIDE DEF h, pid
<1>3. ASSUME NEW m \in out'
      PROVE  /\ m.kind # "probe" =>
                  m.kind = "join" /\ m.gid = gid /\ m.pid \in PidsOf(by_id'[gid])
             /\ m.kind = "probe" => m.to = by_id'[gid].host_conn
  <2>1. CASE m \in {Event("probe", h.host_conn, pid, gid) :
                      x \in IF heap[c].station_urls THEN {c} ELSE {}}
    BY <1>1, <2>1 DEF Event
  <2>2. CASE m \in Broadcast(p, "join", parts, pid, gid)
    BY <1>1, <2>2 DEF Event, Broadcast
  <2>3. CASE m \in push_participants_to_joiner(p, parts, pid, gid)
    BY <1>1, <2>3 DEF Event, push_participants_to_joiner, PidsOf
  <2> QED
    BY <1>2, <2>1, <2>2, <2>3
<1>4. ASSUME NEW x \in parts, NEW y \in parts, Connected(p, y.remote), pid \in {x.pid, y.pid}
      PROVE  Event("join", connections[p][y.remote], x.pid, gid) \in out'
  <2>1. y \in Reachable(p, parts)
    BY <1>4 DEF Reachable
  <2>2. CASE y.pid = pid
    BY <1>2, <2>1, <2>2 DEF push_participants_to_joiner
  <2>3. CASE y.pid # pid
    <3>1. x.pid = pid
      BY <1>4, <2>3
    <3>2. Event("join", connections[p][y.remote], pid, gid)
            \in Broadcast(p, "join", parts, pid, gid)
      BY <2>1, <2>3 DEF Broadcast
    <3> QED
      BY <1>2, <3>1, <3>2
  <2> QED
    BY <2>2, <2>3
<1> QED
  BY <1>1, <1>3, <1>4 DEF Event, pid

\* The broadcast of a leave says that the subject left, to every reachable
\* member but the subject.
LEMMA LeaveEvents ==
  ASSUME NEW p, NEW parts, NEW pid, NEW gid
  PROVE  /\ \A m \in Broadcast(p, "leave", parts, pid, gid) :
              m.kind = "leave" /\ m.gid = gid /\ m.pid = pid
         /\ \A y \in parts : Connected(p, y.remote) /\ y.pid # pid =>
              \E m \in Broadcast(p, "leave", parts, pid, gid) : m.to = connections[p][y.remote]
<1>1. ASSUME NEW m \in Broadcast(p, "leave", parts, pid, gid)
      PROVE  m.kind = "leave" /\ m.gid = gid /\ m.pid = pid
  BY <1>1 DEF Broadcast, Event
<1>2. ASSUME NEW y \in parts, Connected(p, y.remote), y.pid # pid
      PROVE  /\ Event("leave", connections[p][y.remote], pid, gid)
                   \in Broadcast(p, "leave", parts, pid, gid)
             /\ Event("leave", connections[p][y.remote], pid, gid).to = connections[p][y.remote]
  <2>1. y \in {x \in Reachable(p, parts) : x.pid # pid}
    BY <1>2 DEF Reachable
  <2> QED
    BY <2>1 DEF Broadcast, Event
<1> QED
  BY <1>1, <1>2

\* A join event is about a member of the gathering it names.
LEMMA JoinEventSubject ==
  ASSUME TypeOK, PeersNext, NEW m \in out', m.kind = "join"
  PROVE  m.gid \in DOMAIN by_id' /\ m.pid \in PidsOf(by_id'[m.gid])
<1>1. \E p \in Ports, r \in Remotes : \E gid : JoinGathering(p, r, gid)
  <2>1. ASSUME NEW p \in Ports, NEW r \in Remotes, NEW gid,
               LeaveGathering(p, r, gid) \/ DestroyGathering(p, r, gid)
        PROVE  FALSE
    BY <2>1, LeaveEvents DEF LeaveGathering, DestroyGathering
  <2> QED
    BY <2>1, PeersCases
       DEF NoNews, CreateGathering, Disconnect, Reap, CloseHooks
<1> QED
  BY <1>1, JoinEvents, JoinEffect

-----------------------------------------------------------------------------
\* The rosters.

\* An entry that is not erased stays while its console is connected.
LEMMA StillListed ==
  ASSUME Informed, NEW c \in Conns, Places(c) # {}, NEW g \in DOMAIN by_id', NEW pid,
         Listed(c, g, pid), <<g, pid>> \notin Erased(c)
  PROVE  Listed(c, g, pid)'
<1>1. PICK e \in roster[c] : e.gid = g /\ e.pid = pid
  BY DEF Listed
<1>2. e \in roster'[c]
  BY <1>1 DEF Informed
<1> QED
  BY <1>1, <1>2 DEF Listed

\* After a join event its subject is listed, whether it was or not.
LEMMA Told ==
  ASSUME Informed, NEW c \in Conns, Places(c) # {}, NEW g \in DOMAIN by_id', NEW pid,
         <<g, pid>> \notin Erased(c),
         NEW m \in out', m.to = c, m.kind = "join", m.gid = g, m.pid = pid
  PROVE  Listed(c, g, pid)'
<1>1. CASE Listed(c, g, pid)
  BY <1>1, StillListed
<1>2. CASE ~Listed(c, g, pid)
  <2> DEFINE e == [gid |-> m.gid, pid |-> m.pid, url |-> SubjectUrl(by_id'[m.gid], m.pid)]
  <2>1. e \in Inserted(c)
    BY <1>2 DEF Inserted
  <2>2. e.gid = g /\ e.pid = pid
    OBVIOUS
  <2>3. e \in roster'[c]
    <3> HIDE DEF e
    <3> QED BY <2>1 DEF Informed
  <2> HIDE DEF e
  <2> QED
    BY <2>2, <2>3 DEF Listed
<1> QED
  BY <1>1, <1>2

\* A member that no event erases stays listed, while both consoles keep the
\* connections of the lobby.
LEMMA Remembered ==
  ASSUME RosterInv, Placement, RostersComplete, Tables, Informed,
         NEW g \in DOMAIN by_id, g \in DOMAIN by_id', NEW p \in Ports,
         NEW x \in by_id[g].participants, NEW y \in by_id[g].participants,
         LiveOn(p, x)', LiveOn(p, y)', <<g, x.pid>> \notin Erased(y.conn)
  PROVE  Listed(y.conn, g, x.pid)'
<1>1. ASSUME NEW q \in by_id[g].participants, LiveOn(p, q)'
      PROVE  LiveOn(p, q) /\ q.conn \in Conns /\ Places(q.conn) # {}
  <2>1. q.conn \in Conns /\ q.remote \in Remotes /\ heap[q.conn].state # "INITIAL"
    BY LiveGathering DEF RosterInv, Gathering, ParticipantType, Placement, MembersMade,
                         Authenticated, AuthenticatedAfter, LoggedIn
  <2>2. connections'[p][q.remote] = q.conn /\ q.conn # NoConn
    BY <1>1, <2>1, PrudpAssumption DEF LiveOn
  <2> QED
    BY <2>1, <2>2 DEF Tables, EntriesKept, LiveOn, Places
<1>2. Listed(y.conn, g, x.pid)
  BY <1>1 DEF RostersComplete
<1> QED
  BY <1>1, <1>2, StillListed

\* What Remembered and Told need of a state and a step.
PeersStep ==
  /\ PeersInv /\ RosterInv' /\ Placement' /\ Tables
  /\ PeersNext

\* A step that keeps gathering g, or takes members from it, and whose events do
\* not erase anybody who stays, keeps its rosters complete.
LEMMA TrimmedRosters ==
  ASSUME PeersStep, NEW g \in DOMAIN by_id', Trimmed(g), NEW p \in Ports,
         \A m \in out' : m.kind = "leave" /\ m.gid = g => m.pid \notin PidsOf(by_id'[g]),
         NEW x \in by_id'[g].participants, NEW y \in by_id'[g].participants,
         LiveOn(p, x)', LiveOn(p, y)'
  PROVE  Listed(y.conn, g, x.pid)'
<1>1. g \in DOMAIN by_id /\ x \in by_id[g].participants /\ y \in by_id[g].participants
  BY DEF Trimmed, HostKept
<1>2. <<g, x.pid>> \notin Erased(y.conn)
  BY DEF Erased, PidsOf
<1> QED
  BY <1>1, <1>2, Remembered DEF PeersStep, PeersInv, PeersNext

\* A join: it erases nobody, and whoever its events are about is listed.
LEMMA JoinRosters ==
  ASSUME PeersStep, NEW p0 \in Ports, NEW r0 \in Remotes, NEW gid, JoinGathering(p0, r0, gid),
         NEW p \in Ports,
         NEW x \in by_id'[gid].participants, NEW y \in by_id'[gid].participants,
         LiveOn(p, x)', LiveOn(p, y)'
  PROVE  Listed(y.conn, gid, x.pid)'
<1> DEFINE pid == Caller(p0, r0)
           c   == connections[p0][r0]
<1>0. TypeOK /\ Informed /\ EntriesDistinct /\ RosterInv /\ Placement
        /\ RostersComplete /\ Tables
  BY DEF PeersStep, PeersInv, RosterInv, PeersNext, Placement
<1>1. /\ gid \in DOMAIN by_id /\ gid \in DOMAIN by_id' /\ c \in Conns /\ connections' = connections
      /\ \A q \in by_id'[gid].participants :
           IF q.pid = pid THEN q.conn = c ELSE q \in by_id[gid].participants
  BY <1>0, JoinEffect
<1>2. \A q \in by_id'[gid].participants : q.conn \in Conns /\ q.remote \in Remotes
  BY <1>1, LiveGathering DEF PeersStep, RosterInv, TypeOK, Gathering, ParticipantType
<1>3. /\ connections[p][x.remote] = x.conn /\ connections[p][y.remote] = y.conn
      /\ Places(y.conn) # {} /\ y.conn # NoConn
  BY <1>1, <1>2, PrudpAssumption DEF LiveOn, Places
<1>4. <<gid, x.pid>> \notin Erased(y.conn)
  <2>1. \A m \in out' : m.kind # "leave"
    BY <1>0, JoinEvents
  <2> QED
    BY <2>1 DEF Erased
<1>5. CASE pid \in {x.pid, y.pid}
  <2>1. p = p0
    <3>1. PICK q \in {x, y} : q.conn = c /\ connections[p][q.remote] = c /\ q.remote \in Remotes
      BY <1>1, <1>2, <1>3, <1>5
    <3>2. Connected(p0, r0)
      BY <1>1, PrudpAssumption DEF Connected
    <3> QED
      BY <1>0, <3>1, <3>2 DEF EntriesDistinct
  <2>2. Connected(p0, y.remote) /\ connections[p0][y.remote] = y.conn
    BY <1>3, <2>1 DEF Connected
  <2>3. \E m \in out' : m.to = y.conn /\ m.kind = "join" /\ m.gid = gid /\ m.pid = x.pid
    BY <1>0, <1>5, <2>2, JoinEvents
  <2> QED
    BY <1>0, <1>1, <1>2, <1>3, <1>4, <2>3, Told
<1>6. CASE pid \notin {x.pid, y.pid}
  <2>1. x \in by_id[gid].participants /\ y \in by_id[gid].participants
    BY <1>1, <1>6
  <2> QED
    BY <1>0, <1>1, <1>4, <2>1, Remembered
<1> QED
  BY <1>5, <1>6

\* A new lobby: its host entered itself.
LEMMA CreateRosters ==
  ASSUME PeersStep, NEW p0 \in Ports, NEW r0 \in Remotes, NEW slots,
         CreateGathering(p0, r0, slots), NEW p \in Ports, NEW g \in DOMAIN by_id' \ DOMAIN by_id,
         NEW x \in by_id'[g].participants, NEW y \in by_id'[g].participants,
         LiveOn(p, x)', LiveOn(p, y)'
  PROVE  Listed(y.conn, g, x.pid)'
<1> DEFINE pid == Caller(p0, r0)
           c   == connections[p0][r0]
<1>0. TypeOK /\ FreshIds /\ Informed
  BY DEF PeersStep, PeersInv, RosterInv, PeersNext
<1>1. by_id'[g] = NewGathering(pid, r0, c, slots)
  <2> DEFINE gone == Superseded(owner_pid_to_id, by_id, pid)
  <2>1. /\ DOMAIN by_id' = (DOMAIN by_id \ gone) \cup {next_gathering_id}
        /\ by_id'[next_gathering_id] = NewGathering(pid, r0, c, slots)
    BY <1>0, CreateEffect, Zenon
  <2>2. g = next_gathering_id
    BY <2>1
  <2> QED
    BY <2>1, <2>2
<1>2. /\ x.pid = pid /\ x.conn = c /\ y.conn = c /\ y.remote = r0
      /\ by_id'[g].owner_pid = pid /\ by_id'[g].host_conn = c
  BY <1>1 DEF NewGathering, Participant
<1>3. c \in Conns /\ Places(c) # {}
  <2>1. c \in Conns
    BY <1>0, CallerType DEF CreateGathering, TypeOK
  <2> QED
    BY <1>2, <2>1 DEF LiveOn, Places
<1> DEFINE e == [gid |-> g, pid |-> by_id'[g].owner_pid, url |-> UrlOf(c)]
<1>4. e \in Hosted(c)
  BY <1>2 DEF Hosted
<1>5. e.gid = g /\ e.pid = pid
  BY <1>2
<1>6. e \in roster'[c]
  <2> HIDE DEF e, c
  <2> QED BY <1>0, <1>3, <1>4 DEF Informed
<1> HIDE DEF e, c, pid
<1> QED
  BY <1>2, <1>5, <1>6 DEF Listed

\* Every step keeps the rosters complete.
LEMMA RostersStep ==
  ASSUME PeersStep
  PROVE  RostersComplete'
<1>0. TypeOK /\ FreshIds /\ PeersNext
  BY DEF PeersStep, PeersInv, RosterInv
<1>1. SUFFICES ASSUME NEW g \in DOMAIN by_id', NEW p \in Ports,
                      NEW x \in by_id'[g].participants, NEW y \in by_id'[g].participants,
                      LiveOn(p, x)', LiveOn(p, y)'
               PROVE  Listed(y.conn, g, x.pid)'
  BY DEF RostersComplete
<1>2. ASSUME Trimmed(g),
             \A m \in out' : m.kind = "leave" /\ m.gid = g => m.pid \notin PidsOf(by_id'[g])
      PROVE  Listed(y.conn, g, x.pid)'
  BY <1>1, <1>2, TrimmedRosters
<1>3. CASE NoNews
  <2>1. Trimmed(g) /\ \A m \in out' : m.kind # "leave"
    BY <1>3 DEF NoNews, Trimmed, HostKept
  <2> QED
    BY <1>2, <2>1
<1>4. ASSUME NEW p0 \in Ports, NEW r0 \in Remotes, NEW slots \in SlotChoices,
             CreateGathering(p0, r0, slots)
      PROVE  Listed(y.conn, g, x.pid)'
  <2>1. CASE g \in DOMAIN by_id
    <3> DEFINE gone == Superseded(owner_pid_to_id, by_id, Caller(p0, r0))
    <3>1. /\ next_gathering_id \notin DOMAIN by_id
          /\ DOMAIN by_id' = (DOMAIN by_id \ gone) \cup {next_gathering_id}
          /\ \A h \in DOMAIN by_id \ gone : by_id'[h] = by_id[h]
      BY <1>0, <1>4, CreateEffect, Zenon
    <3>2. by_id'[g] = by_id[g]
      BY <2>1, <3>1
    <3>3. out' = {}
      BY <1>4 DEF CreateGathering
    <3> QED
      BY <1>2, <2>1, <3>2, <3>3 DEF Trimmed, HostKept
  <2>2. CASE g \notin DOMAIN by_id
    BY <1>1, <1>4, <2>2, CreateRosters
  <2> QED
    BY <2>1, <2>2
<1>5. ASSUME NEW p0 \in Ports, NEW r0 \in Remotes, NEW gid, JoinGathering(p0, r0, gid)
      PROVE  Listed(y.conn, g, x.pid)'
  <2>1. CASE g = gid
    BY <1>1, <1>5, <2>1, JoinRosters
  <2>2. CASE g # gid
    <3>1. Trimmed(g)
      BY <1>0, <1>5, <2>2, JoinEffect DEF Trimmed, HostKept
    <3>2. \A m \in out' : m.kind # "leave"
      BY <1>0, <1>5, JoinEvents
    <3> QED
      BY <1>2, <2>2, <3>1, <3>2
  <2> QED
    BY <2>1, <2>2
<1>6. ASSUME NEW p0 \in Ports, NEW r0 \in Remotes, NEW gid, LeaveGathering(p0, r0, gid)
      PROVE  Listed(y.conn, g, x.pid)'
  <2>1. Trimmed(g)
    BY <1>0, <1>6, LeaveEffect DEF Trimmed, HostKept
  <2>2. \A m \in out' : m.gid = gid /\ m.pid = Caller(p0, r0)
    BY <1>6, LeaveEvents DEF LeaveGathering
  <2>3. Caller(p0, r0) \notin PidsOf(by_id'[gid])
    BY <1>0, <1>6, LeaveEffect DEF PidsOf
  <2> QED
    BY <1>2, <2>1, <2>2, <2>3
<1>7. ASSUME NEW p0 \in Ports, NEW r0 \in Remotes, NEW gid, DestroyGathering(p0, r0, gid)
      PROVE  Listed(y.conn, g, x.pid)'
  <2>1. Trimmed(g) /\ g # gid
    BY <1>7 DEF DestroyGathering, Without, Trimmed, HostKept
  <2>2. \A m \in out' : m.gid = gid
    BY <1>7, LeaveEvents DEF DestroyGathering
  <2> QED
    BY <1>2, <2>1, <2>2
<1>8. ASSUME Reap \/ \E q \in Ports, r \in Remotes : Disconnect(q, r)
      PROVE  Listed(y.conn, g, x.pid)'
  <2>1. PICK R : CloseHooks(R)
    BY <1>0, <1>8, CloseSteps
  <2>2. /\ g \in DOMAIN by_id /\ by_id[g] \in Gathering
        /\ by_id'[g] = remove_participant_by_remote(by_id[g], R)
    BY <1>0, <2>1, LiveGathering DEF CloseHooks, Without
  <2>3. Trimmed(g)
    BY <2>2 DEF remove_participant_by_remote, Trimmed, HostKept, Gathering
  <2> QED
    BY <1>2, <2>1, <2>3 DEF CloseHooks
<1> QED
  BY <1>0, <1>3, <1>4, <1>5, <1>6, <1>7, <1>8, PeersCases

\* What a step writes into a roster: URLs of a connection that the gathering
\* holds for the very account of the entry.
LEMMA OwnedStep ==
  ASSUME PeersStep
  PROVE  EntriesOwned'
<1>0. /\ TypeOK /\ TypeOK' /\ PeersTypeOK /\ PeersNext /\ Informed /\ MembersMade' /\ Tables
      /\ EntriesOwned
  BY DEF PeersStep, PeersInv, RosterInv, PeersNext, Placement
<1>1. ASSUME NEW c \in Conns, NEW e \in roster[c]
      PROVE  e.url = NoUrl \/ AuthenticatedAfter(e.url, e.pid)
  <2>1. e.url \in Conns \cup {NoUrl}
    BY <1>0 DEF PeersTypeOK, Entry
  <2>2. e.url = NoUrl \/ Authenticated(e.url, e.pid)
    BY <1>0 DEF EntriesOwned
  <2> QED
    BY <1>0, <2>1, <2>2 DEF Tables, StatesKept, Authenticated, AuthenticatedAfter, LoggedIn
<1>2. ASSUME NEW c \in Conns, NEW e \in Inserted(c)
      PROVE  e.url = NoUrl \/ AuthenticatedAfter(e.url, e.pid)
  <2>1. PICK m \in out' :
          /\ m.kind = "join"
          /\ e = [gid |-> m.gid, pid |-> m.pid, url |-> SubjectUrl(by_id'[m.gid], m.pid)]
    BY DEF Inserted
  <2>2. m.gid \in DOMAIN by_id' /\ m.pid \in PidsOf(by_id'[m.gid])
    BY <1>0, <2>1, JoinEventSubject
  <2> DEFINE q == CHOOSE q \in by_id'[m.gid].participants : q.pid = m.pid
  <2>3. q \in by_id'[m.gid].participants /\ q.pid = m.pid
    BY <2>2 DEF PidsOf
  <2>4. e.pid = m.pid /\ e.url = UrlOf(q.conn)
    BY <2>1 DEF SubjectUrl
  <2> HIDE DEF q
  <2>5. AuthenticatedAfter(q.conn, q.pid)
    BY <1>0, <2>2, <2>3 DEF MembersMade, Authenticated, AuthenticatedAfter, LoggedIn
  <2> QED
    BY <2>3, <2>4, <2>5 DEF UrlOf, Authenticated, AuthenticatedAfter, LoggedIn
<1>3. ASSUME NEW c \in Conns, NEW e \in Hosted(c)
      PROVE  e.url = NoUrl \/ AuthenticatedAfter(e.url, e.pid)
  <2>1. PICK g \in DOMAIN by_id' :
          by_id'[g].host_conn = c /\ e = [gid |-> g, pid |-> by_id'[g].owner_pid, url |-> UrlOf(c)]
    BY DEF Hosted
  <2>2. AuthenticatedAfter(c, by_id'[g].owner_pid)
    BY <1>0, <2>1 DEF MembersMade, HostMade, Authenticated, AuthenticatedAfter, LoggedIn
  <2> QED
    BY <2>1, <2>2 DEF UrlOf, Authenticated, AuthenticatedAfter, LoggedIn
<1>4. ASSUME NEW c \in Conns, NEW e \in roster'[c]
      PROVE  e \in roster[c] \/ e \in Inserted(c) \/ e \in Hosted(c)
  BY <1>0, <1>4 DEF Informed
<1> QED
  BY <1>1, <1>2, <1>3, <1>4 DEF EntriesOwned, Authenticated, AuthenticatedAfter, LoggedIn

-----------------------------------------------------------------------------
\* Types.

\* Roster entries are about lobbies, accounts and connections: the subject of a
\* join event is a member, so the lookup of its address finds one.
LEMMA RosterTypes ==
  ASSUME TypeOK, TypeOK', PeersTypeOK, PeersNext
  PROVE  PeersTypeOK'
<1>0. /\ by_id' \in [DOMAIN by_id' -> Gathering] /\ DOMAIN by_id' \subseteq Gids
      /\ Placed /\ Informed
  BY DEF TypeOK, PeersNext
<1>1. remote' \in [Conns -> Remotes \cup {NoRemote}]
  BY <1>0 DEF PeersTypeOK, Placed, Places
<1>2. \A c \in Conns : UrlOf(c) \in Conns \cup {NoUrl}
  BY DEF UrlOf
<1>3. ASSUME NEW c \in Conns
      PROVE  Inserted(c) \subseteq Entry
  <2>1. ASSUME NEW m \in out', m.kind = "join"
        PROVE  [gid |-> m.gid, pid |-> m.pid, url |-> SubjectUrl(by_id'[m.gid], m.pid)] \in Entry
    <3>1. m.gid \in DOMAIN by_id' /\ m.pid \in PidsOf(by_id'[m.gid])
      BY <2>1, JoinEventSubject
    <3>2. by_id'[m.gid].participants \subseteq ParticipantType
      BY <1>0, <3>1 DEF Gathering
    <3> DEFINE P(q) == q \in by_id'[m.gid].participants /\ q.pid = m.pid
               q0 == CHOOSE q \in by_id'[m.gid].participants : q.pid = m.pid
    <3>3. q0 \in by_id'[m.gid].participants /\ q0.pid = m.pid
      BY <3>1 DEF PidsOf
    <3>4. q0.conn \in Conns /\ m.pid \in UserPids
      BY <3>2, <3>3 DEF ParticipantType
    <3>5. SubjectUrl(by_id'[m.gid], m.pid) = UrlOf(q0.conn)
      BY DEF SubjectUrl
    <3> HIDE DEF q0
    <3> QED
      BY <1>0, <1>2, <3>1, <3>4, <3>5 DEF Entry
  <2> QED
    BY <2>1 DEF Inserted
<1>4. ASSUME NEW c \in Conns
      PROVE  Hosted(c) \subseteq Entry
  BY <1>0, <1>2 DEF Hosted, Entry, Gathering
<1>5. roster' \in [Conns -> SUBSET Entry]
  <2>1. \A c \in Conns : roster[c] \subseteq Entry
    BY DEF PeersTypeOK
  <2>2. \A c \in Conns :
          {e \in roster[c] : e.gid \in DOMAIN by_id' /\ <<e.gid, e.pid>> \notin Erased(c)}
             \cup Inserted(c) \cup Hosted(c) \subseteq Entry
    BY <1>3, <1>4, <2>1
  <2> QED
    BY <1>0, <2>2 DEF Informed
<1> QED
  BY <1>1, <1>5 DEF PeersTypeOK

-----------------------------------------------------------------------------
\* Probes.

\* The host's connection, the caller's and a member's all have an entry at the
\* address they were made for, unless the member moved.
LEMMA ProbesStep ==
  ASSUME PeersStep
  PROVE  ProbesHaveListener'
<1>0. TypeOK /\ NoOrphans' /\ EntriesMade' /\ MembersMade' /\ PeersNext
  BY DEF PeersStep, PeersInv, RosterInv, Placement
<1>1. SUFFICES ASSUME NEW m \in out', m.kind = "probe"
               PROVE  \/ \E p \in Ports : connections'[p][remote'[m.to]] # NoConn
                      \/ \E g \in DOMAIN by_id' : \E q \in by_id'[g].participants :
                           q.conn = m.to /\ q.remote # remote'[m.to]
  BY DEF ProbesHaveListener, Connected
<1> DEFINE Heard == \E p \in Ports : connections'[p][remote'[m.to]] # NoConn
<1>2. ASSUME NEW p \in Ports, NEW r \in Remotes, NEW gid, JoinGathering(p, r, gid)
      PROVE  Heard
  <2>1. m.to = by_id'[gid].host_conn /\ gid \in DOMAIN by_id'
    BY <1>0, <1>1, <1>2, JoinEvents, JoinEffect
  <2>2. remote'[m.to] = by_id'[gid].owner_remote
    BY <1>0, <2>1 DEF MembersMade, HostMade, Made
  <2> QED
    BY <1>0, <2>1, <2>2 DEF NoOrphans, Connected
<1>3. ASSUME NEW p \in Ports, NEW r \in Remotes, NEW c \in Conns,
             RequestProbeInitiation(p, r, c)
      PROVE  Heard \/ \E g \in DOMAIN by_id' : \E q \in by_id'[g].participants :
                        q.conn = m.to /\ q.remote # remote'[m.to]
  <2>0. by_id' = by_id /\ connections' = connections /\ Connected(p, r)
          /\ c \in FindConn(c) /\ out' = Probe(c, connections[p][r]) \cup Probe(connections[p][r], c)
    BY <1>3 DEF RequestProbeInitiation, HandleData, Established
  <2>1. m.to \in {c, connections[p][r]}
    BY <1>1, <2>0 DEF Probe
  <2>2. CASE m.to = connections[p][r]
    <3>1. remote'[m.to] = r
      BY <1>0, <2>0, <2>2 DEF EntriesMade, Made, Connected
    <3> QED
      BY <2>0, <3>1 DEF Connected
  <2>3. CASE m.to = c
    <3>1. PICK g \in DOMAIN by_id : \E q \in by_id[g].participants : q.conn = c
      BY <2>0 DEF FindConn
    <3>4. PICK q \in by_id[g].participants : q.conn = c
      BY <3>1
    <3>2. CASE q.remote # remote'[m.to]
      BY <2>0, <2>3, <3>4, <3>2
    <3>3. CASE q.remote = remote'[m.to]
      BY <1>0, <2>0, <3>4, <3>3 DEF NoOrphans, Connected
    <3> QED
      BY <3>2, <3>3
  <2> QED
    BY <2>1, <2>2, <2>3
<1>4. ASSUME NEW p \in Ports, NEW r \in Remotes, NEW gid,
             LeaveGathering(p, r, gid) \/ DestroyGathering(p, r, gid)
      PROVE  FALSE
  BY <1>1, <1>4, LeaveEvents DEF LeaveGathering, DestroyGathering
<1>5. ASSUME out' = {} PROVE FALSE
  BY <1>1, <1>5
<1>6. Quiet => out' = {}
  BY DEF Quiet
<1> HIDE DEF Heard
<1>7. ASSUME NEW p \in Ports, NEW r \in Remotes, Call(p, r) \/ SilentFor(p, r)
      PROVE  \/ \E c \in Conns : RequestProbeInitiation(p, r, c)
             \/ \E gid : JoinGathering(p, r, gid)
  BY <1>4, <1>5, <1>7
     DEF Call, Quiet, Syn, Connect, DataOnly, RegisterEx, SilentFor, Disconnect, CloseHooks,
         CreateGathering
<1>8. ~Reap
  BY <1>5 DEF Reap, CloseHooks
<1> QED
  BY <1>0, <1>2, <1>3, <1>7, <1>8 DEF PeersNext, Heard

-----------------------------------------------------------------------------
\* The invariant.

\* PeersInv holds at the start, and every step keeps it.
LEMMA PeersInvInductive ==
  /\ PeersInit => PeersInv
  /\ PeersInv /\ [PeersNext]_peersVars => PeersInv'
<1>1. ASSUME PeersInit PROVE PeersInv
  <2>1. RosterInv
    BY <1>1, RosterInvInductive DEF PeersInit
  <2>2. /\ \A p \in Ports, r \in Remotes : ~Connected(p, r)
        /\ DOMAIN by_id = {} /\ out = {}
    BY <1>1 DEF PeersInit, Init, PrudpInit, Connected
  <2>4. EntriesOwned
    BY <1>1 DEF PeersInit, EntriesOwned
  <2>3. PeersTypeOK
    BY <1>1, <2>1 DEF PeersInit, PeersTypeOK, RosterInv
  <2> QED
    BY <2>1, <2>2, <2>3, <2>4 DEF PeersInv, Placement, EntriesMade, EntriesDistinct, MembersMade,
                            RostersComplete, ProbesHaveListener
<1>2. ASSUME PeersInv, PeersNext PROVE PeersInv'
  <2>1. RosterInv' /\ TypeOK /\ TypeOK'
    BY <1>2, RosterInvStep DEF PeersInv, RosterInv
  <2>2. PeersTypeOK'
    BY <1>2, <2>1, RosterTypes DEF PeersInv
  <2>3. Placement' /\ Tables
    BY <1>2, <2>1, PlacementStep DEF PeersInv
  <2>4. PeersStep
    BY <1>2, <2>1, <2>3 DEF PeersStep
  <2> QED
    BY <2>1, <2>2, <2>3, <2>4, RostersStep, OwnedStep, ProbesStep DEF PeersInv
<1>3. ASSUME PeersInv, UNCHANGED peersVars PROVE PeersInv'
  <2>1. RosterInv'
    <3>1. UNCHANGED vars
      BY <1>3 DEF peersVars
    <3>2. TypeOK'
      BY <1>3, <3>1, TypeInductive DEF PeersInv, RosterInv
    <3> QED
      BY <1>3, <3>1, <3>2, RosterInvInductive DEF PeersInv
  <2>2. PeersTypeOK'
    BY <1>3, <2>1 DEF PeersInv, PeersTypeOK, RosterInv, peersVars
  <2>3. UNCHANGED <<connections, heap, by_id, out, remote, roster>>
    BY <1>3 DEF peersVars, vars
  <2>4. Placement'
    BY <1>3, <2>3 DEF PeersInv, Placement, EntriesMade, EntriesDistinct, MembersMade, HostMade,
                      Made, Authenticated, AuthenticatedAfter, LoggedIn, Connected
  <2>5. RostersComplete' /\ EntriesOwned' /\ ProbesHaveListener'
    BY <1>3, <2>3 DEF PeersInv, RostersComplete, Listed, EntriesOwned, Authenticated, AuthenticatedAfter, LoggedIn,
                      LiveOn, ProbesHaveListener, Connected
  <2> QED
    BY <2>1, <2>2, <2>4, <2>5 DEF PeersInv
<1> QED
  BY <1>1, <1>2, <1>3

\* The invariant of the server together with what its consoles know: every
\* connection object sits at the one address it was made for, and gatherings
\* and rosters refer only to connections of the very accounts they list.
THEOREM PeersCorrect == PeersSpec => []PeersInv
BY PeersInvInductive, PTL DEF PeersSpec

\* Rosters and addresses stay well-formed.
THEOREM PeersTypesCorrect == PeersSpec => []PeersTypeOK
BY PeersCorrect, PTL DEF PeersInv

\* Joins, re-joins, leaves and reconnects in any order, with join events that
\* act only if absent, leave no member of a lobby out of another's roster.
THEOREM RostersCompleteHolds == PeersSpec => []RostersComplete
BY PeersCorrect, PTL DEF PeersInv

\* However stale an entry is, its address was registered by its own account.
THEOREM AddressesOwnedHolds == PeersSpec => []AddressesOwned
<1>1. PeersInv => AddressesOwned
  BY DEF PeersInv, EntriesOwned, AddressesOwned, Authenticated
<1> QED
  BY <1>1, PeersCorrect, PTL

\* A probe goes to an address that still has a connection, unless its target
\* had joined again from another one.
THEOREM ProbesHaveListenerHolds == PeersSpec => []ProbesHaveListener
BY PeersCorrect, PTL DEF PeersInv

-----------------------------------------------------------------------------
\* Silent departures.

\* What a step may do to member x of lobby g.
Dropped(g, x) ==
  /\ g \in DOMAIN by_id /\ g \in DOMAIN by_id' /\ x \in by_id[g].participants
  /\ x.pid \notin PidsOf(by_id'[g])

ErasedOnPort(g, x) ==
  \E p \in Ports : \A y \in by_id'[g].participants :
    connections'[p][y.remote] = y.conn => \A e \in roster'[y.conn] : e.gid = g => e.pid # x.pid

\* A member that calls to leave is erased from the rosters of everybody that
\* its port can reach: nothing enters it again in the same step.
LEMMA LeaveErases ==
  ASSUME PeersStep, NEW p \in Ports, NEW r \in Remotes, NEW gid, LeaveGathering(p, r, gid),
         NEW g, NEW x, Dropped(g, x)
  PROVE  ErasedOnPort(g, x)
<1> DEFINE pid == Caller(p, r)
<1>0. TypeOK /\ TypeOK' /\ Informed
  BY DEF PeersStep, PeersInv, RosterInv, PeersNext
<1>1. /\ gid \in DOMAIN by_id /\ DOMAIN by_id' = DOMAIN by_id /\ connections' = connections
      /\ \A h \in DOMAIN by_id : h # gid => by_id'[h] = by_id[h]
      /\ by_id'[gid].participants = {q \in by_id[gid].participants : q.pid # pid}
  <2>1. /\ gid \in DOMAIN by_id /\ DOMAIN by_id' = DOMAIN by_id /\ UNCHANGED connections
        /\ \A h \in DOMAIN by_id : h # gid => by_id'[h] = by_id[h]
    BY <1>0, LeaveEffect
  <2>2. by_id'[gid].participants = {q \in by_id[gid].participants : q.pid # pid}
    BY <1>0, LeaveEffect
  <2> HIDE DEF pid
  <2> QED
    BY <2>1, <2>2
<1>2. out' = Broadcast(p, "leave", by_id'[gid].participants, pid, gid)
  <2> DEFINE h == remove_participant(by_id[gid], pid)
  <2>1. /\ by_id' = [by_id EXCEPT ![gid] = h]
        /\ out' = Broadcast(p, "leave", h.participants, pid, gid)
    BY DEF LeaveGathering
  <2> HIDE DEF h, pid
  <2> QED
    BY <1>0, <1>1, <2>1 DEF TypeOK
<1> HIDE DEF pid
<1>3. g = gid /\ x.pid = pid
  BY <1>1 DEF Dropped, PidsOf
<1>4. ASSUME NEW y \in by_id'[gid].participants, connections[p][y.remote] = y.conn,
             NEW e \in roster'[y.conn], e.gid = gid, e.pid = pid
      PROVE  FALSE
  <2>1. y.conn \in Conns /\ y.remote \in Remotes /\ y.pid # pid
    BY <1>0, <1>1, LiveGathering DEF Gathering, ParticipantType
  <2>2. Connected(p, y.remote) /\ Places(y.conn) # {}
    BY <1>1, <1>4, <2>1, PrudpAssumption DEF Connected, Places
  <2>3. PICK m \in out' : m.to = y.conn /\ m.kind = "leave" /\ m.gid = gid /\ m.pid = pid
    BY <1>2, <1>4, <2>1, <2>2, LeaveEvents
  <2>4. <<gid, pid>> \in Erased(y.conn)
    BY <2>3 DEF Erased
  <2>5. Inserted(y.conn) = {}
    BY <1>2, LeaveEvents DEF Inserted
  <2>6. Hosted(y.conn) = {}
    BY <1>1 DEF Hosted
  <2>7. roster'[y.conn] =
          {d \in roster[y.conn] : d.gid \in DOMAIN by_id' /\ <<d.gid, d.pid>> \notin Erased(y.conn)}
            \cup Inserted(y.conn) \cup Hosted(y.conn)
    BY <1>0, <2>1, <2>2 DEF Informed
  <2> QED
    BY <1>4, <2>4, <2>5, <2>6, <2>7
<1> QED
  BY <1>1, <1>3, <1>4 DEF ErasedOnPort

\* A member that the close hooks drop was at an address that closed.
LEMMA CloseIsAClose ==
  ASSUME TypeOK, PeersNext, Reap \/ \E p \in Ports, r \in Remotes : Disconnect(p, r),
         NEW g, NEW x, Dropped(g, x)
  PROVE  Closed(x.remote)
<1>1. ASSUME NEW R, CloseHooks(R)
      PROVE  x.remote \in R
  <2>1. by_id'[g].participants =
          {q \in by_id[g].participants : q.remote \notin R \ {by_id[g].owner_remote}}
    <3>1. \A h \in DOMAIN by_id' : by_id'[h].participants =
            {q \in by_id[h].participants : q.remote \notin R \ {by_id[h].owner_remote}}
      BY <1>1, CloseHooksEffect, Zenon
    <3>2. g \in DOMAIN by_id'
      BY DEF Dropped
    <3> QED
      BY <3>1, <3>2, Zenon
  <2> QED
    BY <2>1 DEF Dropped, PidsOf
<1>2. CASE Reap
  <2>1. PICK p \in Ports : x.remote \in Stale(p)
    BY <1>1, <1>2 DEF Reap
  <2>2. Connected(p, x.remote) /\ connections'[p][x.remote] = NoConn
    BY <1>2, <2>1 DEF Reap, ReapIdle, Stale
  <2> QED
    BY <2>2 DEF Closed
<1>3. ASSUME NEW p \in Ports, NEW r \in Remotes, Disconnect(p, r)
      PROVE  Closed(x.remote)
  <2>1. x.remote = r
    BY <1>1, <1>3 DEF Disconnect
  <2> QED
    BY <1>3, <2>1 DEF Closed
<1> QED
  BY <1>2, <1>3

\* No other step takes a member out of a lobby that stays.
LEMMA DropStep ==
  ASSUME PeersStep, NEW g, NEW x, Dropped(g, x), ~Closed(x.remote)
  PROVE  ErasedOnPort(g, x)
<1>0. TypeOK /\ FreshIds /\ PeersNext
  BY DEF PeersStep, PeersInv, RosterInv
<1>1. ASSUME PidsOf(by_id[g]) \subseteq PidsOf(by_id'[g]) PROVE FALSE
  BY <1>1 DEF Dropped, PidsOf
<1>2. ~NoNews
  BY <1>1 DEF NoNews
<1>3. ASSUME NEW p \in Ports, NEW r \in Remotes, NEW slots, CreateGathering(p, r, slots)
      PROVE  FALSE
  <2> DEFINE gone == Superseded(owner_pid_to_id, by_id, Caller(p, r))
  <2>1. /\ next_gathering_id \notin DOMAIN by_id
        /\ DOMAIN by_id' = (DOMAIN by_id \ gone) \cup {next_gathering_id}
        /\ \A h \in DOMAIN by_id \ gone : by_id'[h] = by_id[h]
    BY <1>0, <1>3, CreateEffect, Zenon
  <2>2. by_id'[g] = by_id[g]
    BY <2>1 DEF Dropped
  <2> QED
    BY <1>1, <2>2
<1>4. ASSUME NEW p \in Ports, NEW r \in Remotes, NEW gid, JoinGathering(p, r, gid)
      PROVE  FALSE
  <2>1. /\ g # gid => by_id'[g] = by_id[g]
        /\ PidsOf(by_id[gid]) \subseteq PidsOf(by_id'[gid])
    BY <1>0, <1>4, JoinEffect DEF Dropped
  <2> QED
    BY <1>1, <2>1
<1>5. ASSUME NEW p \in Ports, NEW r \in Remotes, NEW gid, DestroyGathering(p, r, gid)
      PROVE  FALSE
  <2>1. by_id'[g] = by_id[g]
    BY <1>5 DEF DestroyGathering, Without, Dropped
  <2> QED
    BY <1>1, <2>1
<1>6. ~(Reap \/ \E p \in Ports, r \in Remotes : Disconnect(p, r))
  BY <1>0, CloseIsAClose
<1> QED
  BY <1>0, <1>2, <1>3, <1>4, <1>5, <1>6, LeaveErases, PeersCases

\* Only a close is silent: a member that is dropped from a lobby that stays is
\* erased from the rosters of the members on the port it called, unless its
\* address was closed.
THEOREM NoSilentLeaveHolds == PeersSpec => NoSilentLeave
<1> DEFINE Step == \A g \in DOMAIN by_id \cap DOMAIN by_id' : \A x \in by_id[g].participants :
       x.pid \notin PidsOf(by_id'[g]) /\ ~Closed(x.remote) =>
         \E p \in Ports : \A y \in by_id'[g].participants :
           LiveOn(p, y)' => \A e \in roster'[y.conn] : e.gid = g => e.pid # x.pid
<1>1. ASSUME PeersInv, PeersNext PROVE Step
  <2>1. RosterInv'
    BY <1>1, RosterInvStep DEF PeersInv
  <2>2. PeersStep
    BY <1>1, <2>1, PlacementStep DEF PeersInv, PeersStep
  <2>3. \A g, x : Dropped(g, x) /\ ~Closed(x.remote) => ErasedOnPort(g, x)
    BY <2>2, DropStep
  <2> QED
    BY <2>3 DEF Dropped, ErasedOnPort, LiveOn
<1>2. PeersInv /\ [PeersNext]_peersVars => [Step]_peersVars
  BY <1>1
<1> QED
  BY <1>2, PeersCorrect, PTL DEF PeersSpec, NoSilentLeave

=============================================================================

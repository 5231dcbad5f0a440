------------------------------- MODULE Peers -------------------------------
(***************************************************************************)
(* What the consoles learn about each other: every step of module Lobby    *)
(* with the lobby roster that each console keeps (external; it follows the *)
(* join and leave events of protocols/notification.py), and the NAT probes *)
(* that a console asks for (protocols/nat.py).                             *)
(*                                                                         *)
(* The station URLs that RegisterEx makes carry the RVCID of their         *)
(* connection, so a connection object stands for its URLs.  Which of them  *)
(* a peer gets (LAN or WAN) follows from the two addresses and is left     *)
(* out, and so is the loss of a push.                                      *)
(***************************************************************************)
EXTENDS Lobby

VARIABLES
  remote, \* Connection.remote, for the connections that were ever made
  roster  \* connection -> the entries of its console's roster

peersVars == <<vars, remote, roster>>

NoUrl == NoConn
NoRemote == NoConn

\* A roster entry: the lobby, the member, and the URL to reach it at.
Entry == [gid : Gids, pid : UserPids, url : Conns \cup {NoUrl}]

PeersTypeOK ==
  /\ TypeOK
  /\ remote \in [Conns -> Remotes \cup {NoRemote}]
  /\ roster \in [Conns -> SUBSET Entry]

PeersInit ==
  /\ Init
  /\ remote = [c \in Conns |-> NoRemote]
  /\ roster = [c \in Conns |-> {}]

UrlOf(c) == IF heap[c].station_urls THEN c ELSE NoUrl

-----------------------------------------------------------------------------
\* Notifications become roster entries.

SubjectUrl_Host(g, pid) == UrlOf(g.host_conn)

\* _reachable_url_for: from the subject's participant entry in the gathering.
SubjectUrl(g, pid) == UrlOf((CHOOSE q \in g.participants : q.pid = pid).conn)

Listed(c, gid, pid) == \E e \in roster[c] : e.gid = gid /\ e.pid = pid

\* The events of a step that are for connection c.  A join event (900002) acts
\* only if its subject is absent: a member that is listed keeps its node, and
\* the URL in it, when it joins again.  A leave event (900000) erases.
Inserted(c) ==
  {[gid |-> m.gid, pid |-> m.pid, url |-> SubjectUrl(by_id'[m.gid], m.pid)] :
     m \in {x \in out' : x.to = c /\ x.kind = "join" /\ ~Listed(c, x.gid, x.pid)}}

Erased(c) == {<<m.gid, m.pid>> : m \in {x \in out' : x.to = c /\ x.kind = "leave"}}

\* CreateGathering makes its caller insert itself.
Hosted(c) ==
  {[gid |-> g, pid |-> by_id'[g].owner_pid, url |-> UrlOf(c)] :
     g \in {x \in DOMAIN by_id' \ DOMAIN by_id : by_id'[x].host_conn = c}}

\* Where connection c is in the tables after the step.
Places(c) == {r \in Remotes : \E p \in Ports : connections'[p][r] = c}

\* A console whose connection is gone starts over with an empty roster; what it
\* keeps of a lobby that is gone matters to nobody.  Rosters are kept per lobby
\* because the console ignores events about any but its active one, and one
\* that leaves a lobby and comes back finds its old entries.
Informed ==
  roster' = [c \in Conns |->
    IF Places(c) # {}
      THEN {e \in roster[c] : e.gid \in DOMAIN by_id' /\ <<e.gid, e.pid>> \notin Erased(c)}
             \cup Inserted(c) \cup Hosted(c)
      ELSE {}]

Placed ==
  remote' = [c \in Conns |-> IF Places(c) # {} THEN CHOOSE r \in Places(c) : TRUE ELSE remote[c]]

-----------------------------------------------------------------------------
\* NAT probes.

\* _find_conn_by_urls, for the URLs of c: some participant's connection object,
\* in the table or not.
FindConn(c) ==
  {q.conn : q \in {x \in UNION {by_id[g].participants : g \in DOMAIN by_id} : UrlOf(x.conn) = c}}

Probe(to, c) ==
  {[kind |-> "probe", to |-> to, pid |-> heap[c].user_pid, gid |-> FirstGid, txn |-> 0, cash |-> 0] :
     x \in {d \in {c} : UrlOf(d) # NoUrl}}

\* RequestProbeInitiation names the URLs of c: both sides are told to ping the
\* other.  Without a match it is a DataOnly step.
RequestProbeInitiation(p, r, c) ==
  /\ HandleData(p, r)
  /\ c \in FindConn(c)
  /\ out' = Probe(c, connections[p][r]) \cup Probe(connections[p][r], c)
  /\ UNCHANGED <<by_id, owner_pid_to_id, next_gathering_id, timers, txn, career>>

\* The handlers of the match lifecycle (lock, reports, EndGame) push neither
\* rosters nor probes and change nobody's seat; they stay in module Lobby.
Call(p, r) ==
  \/ Syn(p, r)
  \/ \E pid \in UserPids : Connect(p, r, pid)
  \/ DataOnly(p, r)
  \/ Disconnect(p, r)
  \/ RegisterEx(p, r)
  \/ \E slots \in SlotChoices : CreateGathering(p, r, slots)
  \/ \E gid \in Gids :
       \/ JoinGathering(p, r, gid)
       \/ LeaveGathering(p, r, gid)
       \/ DestroyGathering(p, r, gid)
  \/ \E c \in Conns : RequestProbeInitiation(p, r, c)

PeersNext ==
  /\ \/ \E p \in Ports, r \in Remotes : Call(p, r) \/ SilentFor(p, r)
     \/ Reap
  /\ Placed
  /\ Informed

PeersSpec == PeersInit /\ [][PeersNext]_peersVars

-----------------------------------------------------------------------------
\* A participant whose entry names the connection that port p has at its
\* address: its console has not reconnected since it joined.
LiveOn(p, q) == connections[p][q.remote] = q.conn

\* Every console in a lobby lists every other member that uses its port:
\* members that join, re-join, leave and reconnect in any order are missing
\* from nobody's roster, although a join is announced once and only leaves and
\* not closes are announced.
RostersComplete ==
  \A g \in DOMAIN by_id, p \in Ports : \A x, y \in by_id[g].participants :
    LiveOn(p, x) /\ LiveOn(p, y) => Listed(y.conn, g, x.pid)

\* Whatever is stale in a roster, its addresses never lead to a stranger: the
\* URL of an entry is one that a connection of that very account registered.
AddressesOwned ==
  \A c \in Conns : \A e \in roster[c] :
    e.url = NoUrl \/ heap[e.url].user_pid = e.pid

\* An entry of address r was evicted, or a DISCONNECT came from r.
Closed(r) ==
  \E p \in Ports : (Connected(p, r) /\ connections'[p][r] = NoConn) \/ Disconnect(p, r)

\* Only a close is silent: a member that the registry drops while others stay
\* is erased from the rosters of those on one port (the one it called to
\* leave), unless its address was closed.
NoSilentLeave ==
  [][\A g \in DOMAIN by_id \cap DOMAIN by_id' : \A x \in by_id[g].participants :
       x.pid \notin PidsOf(by_id'[g]) /\ ~Closed(x.remote) =>
         \E p \in Ports : \A y \in by_id'[g].participants :
           LiveOn(p, y)' => \A e \in roster'[y.conn] : e.gid = g => e.pid # x.pid]_peersVars

\* A probe is never pushed to an address that has no connection left, unless
\* its target had joined again from another address.
ProbesHaveListener ==
  \A m \in out : m.kind = "probe" =>
    \/ \E p \in Ports : Connected(p, remote[m.to])
    \/ \E g \in DOMAIN by_id : \E q \in by_id[g].participants :
         q.conn = m.to /\ q.remote # remote[m.to]

=============================================================================

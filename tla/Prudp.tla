------------------------------- MODULE Prudp -------------------------------
(***************************************************************************)
(* The PRUDP connection tables of the two UDP servers (prudp/server.py and *)
(* prudp/connection.py), as far as the layers above can tell them apart.   *)
(*                                                                         *)
(* A Connection is a Python object that outlives its entry in the table:   *)
(* gatherings keep references to it (host_conn, Participant.conn).  So the *)
(* objects live in heap, a function on the identities Conns, and a table   *)
(* maps a remote address to the identity that currently serves it.         *)
(*                                                                         *)
(* The real clock is abstracted to one bit per connection: idle says that  *)
(* more than IDLE_TIMEOUT_SECONDS passed since the last touch().           *)
(***************************************************************************)
EXTENDS Naturals

CONSTANTS
  Ports,       \* the listening UDP ports, each with a PRUDPServer
  SecurePort,  \* the one whose CONNECT runs the mutual-auth handler
  Remotes,     \* client addresses (ip, udp port)
  Conns,       \* identities of Connection objects; bounds the SYNs handled
  NoConn,      \* no entry in the table
  Pids,        \* the account ids a ticket may carry
  NoPid        \* user_pid 0: not authenticated

ASSUME PrudpAssumption ==
  /\ SecurePort \in Ports
  /\ NoConn \notin Conns
  /\ NoPid \notin Pids

VARIABLES
  connections, \* connections[p][r]: PRUDPServer.connections of port p
  heap         \* heap[c]: the fields of Connection object c

prudpVars == <<connections, heap>>

UserPids == Pids \cup {NoPid}

\* "INITIAL" is an object that has not been allocated yet: _handle_syn moves
\* the new object to SYN_RECV before anything can see it.
ConnState == {"INITIAL", "SYN_RECV", "ESTABLISHED", "CLOSED"}

\* station_urls is the fact that RegisterEx stored URLs, not their text.  The
\* fields remote and local_port are the entry's position in connections.
Connection == [state : ConnState, user_pid : UserPids,
               station_urls : BOOLEAN, idle : BOOLEAN]

PrudpTypeOK ==
  /\ connections \in [Ports -> [Remotes -> Conns \cup {NoConn}]]
  /\ heap \in [Conns -> Connection]

NewConnection(state) ==
  [state |-> state, user_pid |-> NoPid, station_urls |-> FALSE, idle |-> FALSE]

PrudpInit ==
  /\ connections = [p \in Ports |-> [r \in Remotes |-> NoConn]]
  /\ heap = [c \in Conns |-> NewConnection("INITIAL")]

Connected(p, r) == connections[p][r] # NoConn

\* The guard of _handle_data.
Established(p, r) ==
  /\ Connected(p, r)
  /\ heap[connections[p][r]].state = "ESTABLISHED"

\* conn.touch()
Touched(c) == [heap EXCEPT ![c].idle = FALSE]

-----------------------------------------------------------------------------
\* One action per packet type, for a packet that arrives on port p from r.
\* A packet no guard accepts is logged and dropped: a stuttering step.

\* SYN always makes a new object and overwrites the entry, whatever it held.
HandleSyn(p, r) ==
  \E c \in Conns :
    /\ heap[c].state = "INITIAL"
    /\ heap' = [heap EXCEPT ![c] = NewConnection("SYN_RECV")]
    /\ connections' = [connections EXCEPT ![p][r] = c]

\* The state changes before the mutual-auth handler runs.  When the handler
\* raises, or the port has none, user_pid stays 0 and the connection stays
\* ESTABLISHED.
HandleConnect(p, r, pid) ==
  /\ Connected(p, r)
  /\ heap[connections[p][r]].state = "SYN_RECV"
  /\ pid # NoPid => p = SecurePort
  /\ heap' = [heap EXCEPT ![connections[p][r]] =
                [@ EXCEPT !.state = "ESTABLISHED", !.idle = FALSE, !.user_pid = pid]]
  /\ UNCHANGED connections

\* What every DATA packet does before its payload reaches a handler.
HandleData(p, r) ==
  /\ Established(p, r)
  /\ heap' = Touched(connections[p][r])
  /\ UNCHANGED connections

HandlePing(p, r) ==
  /\ Connected(p, r)
  /\ heap' = Touched(connections[p][r])
  /\ UNCHANGED connections

\* The on_close hooks run even for a remote without an entry; their effect is
\* in module Lobby.
HandleDisconnect(p, r) ==
  /\ heap' = IF Connected(p, r)
               THEN [heap EXCEPT ![connections[p][r]].state = "CLOSED"]
               ELSE heap
  /\ connections' = [connections EXCEPT ![p][r] = NoConn]

Stale_Never(p) == {}

\* The remotes reap_idle evicts on port p.
Stale(p) == {r \in Remotes : Connected(p, r) /\ heap[connections[p][r]].idle}

\* One round of the reaper task: both servers in turn, without an await in
\* between.  Evicted objects are not marked CLOSED.
ReapIdle ==
  /\ \E p \in Ports : Stale(p) # {}
  /\ connections' = [p \in Ports |-> [r \in Remotes |->
                       IF r \in Stale(p) THEN NoConn ELSE connections[p][r]]]
  /\ UNCHANGED heap

\* The clock: the connection of r on p has been silent for the whole timeout.
Elapse(p, r) ==
  /\ Connected(p, r)
  /\ ~heap[connections[p][r]].idle
  /\ heap' = [heap EXCEPT ![connections[p][r]].idle = TRUE]
  /\ UNCHANGED connections

=============================================================================

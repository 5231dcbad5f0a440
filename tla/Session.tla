------------------------------ MODULE Session ------------------------------
(***************************************************************************)
(* One console and one PRUDPServer over UDP: handshake, reliable DATA with *)
(* acknowledgements and fragments, and the RMC layer on top of it          *)
(* (prudp/server.py, prudp/connection.py, rmc/dispatcher.py, rmc/codec.py).*)
(*                                                                         *)
(* The server never sends anything twice and compares no packet ids.  The  *)
(* console (external) sends one packet at a time, repeats it while the     *)
(* acknowledgement is missing, and starts over with a SYN when that does   *)
(* not help.  The network (external) keeps the order of the datagrams, but *)
(* loses and repeats some.                                                 *)
(***************************************************************************)
EXTENDS Naturals, Sequences

CONSTANTS
  FragmentsOf, \* request -> packets it takes; requests are numbered from 1
  Sigs,        \* connection signatures
  NoSig,
  MaxTries,    \* repetitions before the console gives the connection up
  MaxFaults    \* bound: datagrams lost or repeated by the network

Requests == DOMAIN FragmentsOf

ASSUME SessionAssumption ==
  /\ FragmentsOf \in Seq(Nat \ {0}) /\ FragmentsOf # <<>>
  /\ NoSig \notin Sigs
  /\ MaxTries \in Nat /\ MaxFaults \in Nat

VARIABLES
  entry,    \* the Connection that the table holds for the console's address
  phase,    \* console: "closed", "syn", "connect", "open", "disconnect", "done"
  sig,      \* console: the server_conn_sig it was told
  request, fragment, pid, \* console: the DATA packet it sends, and its packet_id
  tries,    \* console: repetitions of the packet that waits
  up, down, \* datagrams on their way to the server and to the console
  ran,      \* history: the bodies handed to an RMC handler, in order
  repeated, \* history: some packet was sent or delivered twice
  faults    \* faults of the network so far

console == <<phase, sig, request, fragment, pid, tries>>
vars == <<entry, console, up, down, ran, repeated, faults>>

\* A body is the sequence of fragments it was put together from.
Fragment == {f \in Requests \X Nat : f[2] \in 1 .. FragmentsOf[f[1]]}
Whole(r) == [k \in 1 .. FragmentsOf[r] |-> <<r, k>>]

NoEntry == [state |-> "none", server_conn_sig |-> NoSig, fragment_buffer |-> <<>>,
            last_client_pid |-> 0, outgoing_reliable_seq |-> 1]

Packet == [type : {"SYN", "CONNECT", "DATA", "DISCONNECT", "SYN+ACK", "CONNECT+ACK",
                   "DATA+ACK", "DISCONNECT+ACK", "REPLY"},
           sig : Sigs \cup {NoSig}, id : Nat, body : Fragment \cup {<<>>}]

TypeOK ==
  /\ entry \in [state : {"none", "SYN_RECV", "ESTABLISHED"},
                server_conn_sig : Sigs \cup {NoSig}, fragment_buffer : Seq(Fragment),
                last_client_pid : Nat, outgoing_reliable_seq : Nat \ {0}]
  /\ phase \in {"closed", "syn", "connect", "open", "disconnect", "done"}
  /\ sig \in Sigs \cup {NoSig}
  /\ request \in Requests /\ fragment \in 1 .. FragmentsOf[request] /\ pid \in Nat
  /\ tries \in 0 .. MaxTries
  /\ up \in Seq(Packet) /\ down \in Seq(Packet)
  /\ ran \in Seq(Seq(Fragment))
  /\ repeated \in BOOLEAN
  /\ faults \in 0 .. MaxFaults

Init ==
  /\ entry = NoEntry
  /\ phase = "closed" /\ sig = NoSig
  /\ request = 1 /\ fragment = 1 /\ pid = 0 /\ tries = 0
  /\ up = <<>> /\ down = <<>>
  /\ ran = <<>>
  /\ repeated = FALSE /\ faults = 0

-----------------------------------------------------------------------------
\* The server: one action per packet type.  Replies go out in the same step.

Plain(type, s, id) == [type |-> type, sig |-> s, id |-> id, body |-> <<>>]

Arrives(type) == up # <<>> /\ Head(up).type = type /\ up' = Tail(up)

Replies(packets) == down' = down \o packets

\* os.urandom(4): no signature that is still around.
Fresh(s) ==
  /\ s # sig /\ s # entry.server_conn_sig
  /\ \A k \in DOMAIN down : down[k].sig # s
  /\ \A k \in DOMAIN up : up[k].sig # s

Connection(s) == [NoEntry EXCEPT !.state = "SYN_RECV", !.server_conn_sig = s]

Superseded_Reused(c, s) == IF c.state = "none" THEN Connection(s) ELSE c

\* A SYN replaces whatever connection there was.
Superseded(c, s) == Connection(s)

HandleSyn ==
  /\ Arrives("SYN")
  /\ \E s \in Sigs :
       /\ Fresh(s)
       /\ entry' = Superseded(entry, s)
       /\ Replies(<<Plain("SYN+ACK", entry'.server_conn_sig, 0)>>)
  /\ UNCHANGED <<console, ran, repeated, faults>>

\* A repeated CONNECT finds the state ESTABLISHED and is not answered again.
HandleConnect ==
  /\ Arrives("CONNECT")
  /\ IF entry.state = "SYN_RECV" /\ Head(up).sig = entry.server_conn_sig
       THEN /\ entry' = [entry EXCEPT !.state = "ESTABLISHED"]
            /\ Replies(<<Plain("CONNECT+ACK", NoSig, Head(up).id)>>)
       ELSE UNCHANGED <<entry, down>>
  /\ UNCHANGED <<console, ran, repeated, faults>>

Flushed_Kept(c) == c

Flushed(c) == [c EXCEPT !.fragment_buffer = <<>>]

Decodes_Unsized(body) == body[1][2] = 1

\* rmc_codec.decode: the first fragment declares the size of the body.
Decodes(body) == body[1][2] = 1 /\ Len(body) = FragmentsOf[body[1][1]]

\* fragment_id is 0 at the last (or only) fragment of a request.
Last(f) == f[2] = FragmentsOf[f[1]]

\* send_reliable_data: a packet that takes the next sequence number of c.
Reply(c) == Plain("REPLY", NoSig, c.outgoing_reliable_seq)

\* A body that decodes gets one reply, also when its method is unknown or its
\* handler raises; one that does not is dropped.
on_payload(c, ack, body) ==
  \/ /\ ~Decodes(body)
     /\ entry' = c
     /\ Replies(<<ack>>)
     /\ UNCHANGED ran
  \/ /\ Decodes(body)
     /\ entry' = [c EXCEPT !.outgoing_reliable_seq = @ + 1]
     /\ Replies(<<ack, Reply(c)>>)
     /\ ran' = Append(ran, body)

\* Every reliable packet is acknowledged, and its payload taken, as often as
\* it comes.
HandleData ==
  /\ Arrives("DATA")
  /\ IF entry.state # "ESTABLISHED"
       THEN UNCHANGED <<entry, down, ran>>
       ELSE LET p     == Head(up)
                acked == [entry EXCEPT !.last_client_pid = IF p.id > @ THEN p.id ELSE @]
                ack   == Plain("DATA+ACK", NoSig, p.id)
                body  == Append(entry.fragment_buffer, p.body)
            IN \/ /\ ~Last(p.body)
                  /\ entry' = [acked EXCEPT !.fragment_buffer = body]
                  /\ Replies(<<ack>>)
                  /\ UNCHANGED ran
               \/ Last(p.body) /\ on_payload(Flushed(acked), ack, body)
  /\ UNCHANGED <<console, repeated, faults>>

\* Without an entry the close hooks run, but nothing is acknowledged.
HandleDisconnect ==
  /\ Arrives("DISCONNECT")
  /\ entry' = NoEntry
  /\ IF entry.state # "none"
       THEN Replies(<<Plain("DISCONNECT+ACK", NoSig, Head(up).id)>>)
       ELSE UNCHANGED down
  /\ UNCHANGED <<console, ran, repeated, faults>>

Server == HandleSyn \/ HandleConnect \/ HandleData \/ HandleDisconnect

-----------------------------------------------------------------------------
\* The console.

\* The packet whose acknowledgement it waits for, by phase.
Waiting(ph, s, r, k, id) ==
  CASE ph = "syn" -> Plain("SYN", NoSig, 0)
    [] ph = "connect" -> Plain("CONNECT", s, 1)
    [] ph = "open" -> [type |-> "DATA", sig |-> NoSig, id |-> id, body |-> <<r, k>>]
    [] ph = "disconnect" -> Plain("DISCONNECT", NoSig, id)

Sends(ph, s, r, k, id) ==
  /\ phase' = ph /\ sig' = s /\ request' = r /\ fragment' = k /\ pid' = id
  /\ tries' = 0
  /\ up' = Append(up, Waiting(ph, s, r, k, id))

Connects ==
  /\ phase = "closed"
  /\ Sends("syn", NoSig, request, 1, 0)
  /\ UNCHANGED <<entry, down, ran, repeated, faults>>

Answers(type) == down # <<>> /\ Head(down).type = type

\* The next packet: the rest of the request, the next request, or goodbye.
Proceeds ==
  IF fragment < FragmentsOf[request]
    THEN Sends("open", sig, request, fragment + 1, pid + 1)
    ELSE IF request + 1 \in Requests
      THEN Sends("open", sig, request + 1, 1, pid + 1)
      ELSE Sends("disconnect", sig, request, fragment, pid + 1)

\* The acknowledgement it waits for; REPLY packets are consumed below.
Acknowledged ==
  /\ \/ /\ phase = "syn" /\ Answers("SYN+ACK")
        /\ Sends("connect", Head(down).sig, request, fragment, 1)
     \/ /\ phase = "connect" /\ Answers("CONNECT+ACK")
        /\ Sends("open", sig, request, fragment, 2)
     \/ /\ phase = "open" /\ Answers("DATA+ACK") /\ Head(down).id = pid
        /\ Proceeds
     \/ /\ phase = "disconnect" /\ Answers("DISCONNECT+ACK")
        /\ phase' = "done"
        /\ UNCHANGED <<sig, request, fragment, pid, tries, up>>
  /\ down' = Tail(down)
  /\ UNCHANGED <<entry, ran, repeated, faults>>

\* A reply, whose pure ACK the server only takes as a sign of life, or an
\* acknowledgement that comes too late or twice.
Ignored ==
  /\ down # <<>>
  /\ \/ Answers("REPLY")
     \/ Answers("SYN+ACK") /\ phase # "syn"
     \/ Answers("CONNECT+ACK") /\ phase # "connect"
     \/ Answers("DATA+ACK") /\ (phase # "open" \/ Head(down).id # pid)
     \/ Answers("DISCONNECT+ACK") /\ phase # "disconnect"
  /\ down' = Tail(down)
  /\ UNCHANGED <<entry, console, up, ran, repeated, faults>>

\* Nothing is under way any more: it repeats the packet, or gives up and later
\* sends the whole request again in a new connection.
TimesOut ==
  /\ phase \notin {"closed", "done"}
  /\ up = <<>> /\ down = <<>>
  /\ repeated' = TRUE
  /\ IF tries < MaxTries
       THEN /\ tries' = tries + 1
            /\ up' = <<Waiting(phase, sig, request, fragment, pid)>>
            /\ UNCHANGED <<phase, sig, request, fragment, pid>>
       ELSE /\ phase' = IF phase = "disconnect" THEN "done" ELSE "closed"
            /\ UNCHANGED <<sig, request, fragment, pid, tries, up>>
  /\ UNCHANGED <<entry, down, ran, faults>>

Console == Connects \/ Acknowledged \/ Ignored \/ TimesOut

-----------------------------------------------------------------------------
\* The network.

Loses ==
  /\ faults < MaxFaults
  /\ faults' = faults + 1
  /\ \/ up # <<>> /\ up' = Tail(up) /\ UNCHANGED down
     \/ down # <<>> /\ down' = Tail(down) /\ UNCHANGED up
  /\ UNCHANGED <<entry, console, ran, repeated>>

Repeats ==
  /\ faults < MaxFaults
  /\ faults' = faults + 1
  /\ \/ up # <<>> /\ up' = <<Head(up)>> \o up /\ UNCHANGED down
     \/ down # <<>> /\ down' = <<Head(down)>> \o down /\ UNCHANGED up
  /\ repeated' = TRUE
  /\ UNCHANGED <<entry, console, ran>>

Next == Server \/ Console \/ Loses \/ Repeats

Spec == Init /\ [][Next]_vars

\* Both ends keep running and the network does not keep losing packets.
FairSpec == Spec /\ WF_vars(Server) /\ WF_vars(Console)

-----------------------------------------------------------------------------
\* A handler never sees a body that the console did not send: not one with a
\* fragment missing or doubled, nor one spliced from two requests.
BodiesAsSent == \A k \in DOMAIN ran : \E r \in Requests : ran[k] = Whole(r)

\* The requests whose packets have all been acknowledged.
AckedRequests ==
  IF phase \in {"disconnect", "done"} THEN Requests ELSE 1 .. (request - 1)

\* While nothing has been sent or delivered twice, the requests run in their
\* order, once each, and not later than their acknowledgement.
ExactlyOnceUnlessRepeated ==
  ~repeated =>
    /\ \A k \in DOMAIN ran : ran[k] = Whole(k)
    /\ AckedRequests \subseteq DOMAIN ran

\* However the faults fall, the console gets all of its requests acknowledged.
SessionCompletes == <>(phase = "done")

\* "Reliable DATA is ACKed and reassembled from fragments" (ARCHITECTURE.md): a
\* request whose packets are all acknowledged has reached its handler.
AckedIsRun == \A r \in AckedRequests : \E k \in DOMAIN ran : ran[k] = Whole(r)

=============================================================================

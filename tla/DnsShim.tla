------------------------------ MODULE DnsShim ------------------------------
(***************************************************************************)
(* The DNS shim (dns_shim.py): it answers A queries for the game's         *)
(* back-end itself and forwards every other query to an upstream resolver, *)
(* whose answers it matches by the 16-bit transaction id that the client   *)
(* chose.                                                                  *)
(*                                                                         *)
(* One asyncio task handles one query.  It runs without a pause up to the  *)
(* await of its future and, once the future is settled, from there to its  *)
(* end; in between come other queries, upstream datagrams and timers.      *)
(* Upstream datagrams may be lost, late or repeated.                       *)
(***************************************************************************)
EXTENDS Naturals

CONSTANTS
  MaxQueries,     \* bound: queries received in a run
  Txids,          \* transaction ids that clients use
  Hosts,          \* the host names asked for
  HijackHosts,    \* those that match DNS_HIJACK_DOMAINS
  DNS_HIJACK_ALL  \* config: every A query is hijacked

ASSUME DnsAssumption ==
  /\ MaxQueries \in Nat
  /\ Txids \subseteq Nat
  /\ HijackHosts \subseteq Hosts
  /\ DNS_HIJACK_ALL \in BOOLEAN

\* Queries are numbered in the order in which they arrive; 0 is none.
Queries == 1 .. MaxQueries
NoQuery == 0

Request == [txid : Txids, qtype : {"A", "other"}, host : Hosts]

VARIABLES
  request, \* the queries received so far
  future,  \* the future that the task of a forwarded query awaits
  answer,  \* the query whose upstream answer settled it
  pending, \* _UpstreamProtocol._pending: the query whose future is in a slot
  reply    \* what the client was sent

vars == <<request, future, answer, pending, reply>>

Received == DOMAIN request

\* "none" is a query that was not forwarded.
FutureState == {"none", "pending", "answered", "cancelled"}

DnsTypeOK ==
  /\ Received \subseteq Queries
  /\ request \in [Received -> Request]
  /\ future \in [Queries -> FutureState]
  /\ answer \in [Queries -> Queries \cup {NoQuery}]
  /\ pending \in [Txids -> Queries \cup {NoQuery}]
  /\ reply \in [Queries -> {"none", "PUBLIC_HOST", "upstream", "SERVFAIL"}]

Init ==
  /\ request = [q \in {} |-> {}]
  /\ future = [q \in Queries |-> "none"]
  /\ answer = [q \in Queries |-> NoQuery]
  /\ pending = [t \in Txids |-> NoQuery]
  /\ reply = [q \in Queries |-> "none"]

Forwarded == {q \in Received : future[q] # "none"}

Waiting(q) == future[q] # "none" /\ reply[q] = "none"

\* The DNS record type matters: only IPv4 lookups are hijacked.
should_hijack(req) == req.qtype = "A" /\ (DNS_HIJACK_ALL \/ req.host \in HijackHosts)

Slot_LowByte(txid) == txid % 256

\* The key of a query or of an upstream datagram in _pending.
Slot(txid) == txid

-----------------------------------------------------------------------------
Arrives(q, req) ==
  /\ q \notin Received
  /\ \A earlier \in 1 .. (q - 1) : earlier \in Received
  /\ request' = [x \in Received \cup {q} |-> IF x = q THEN req ELSE request[x]]

Hijack(q, req) ==
  /\ Arrives(q, req)
  /\ should_hijack(req)
  /\ reply' = [reply EXCEPT ![q] = "PUBLIC_HOST"]
  /\ UNCHANGED <<future, answer, pending>>

Occupied_Kept(slot, q) == IF slot = NoQuery THEN q ELSE slot

\* The newcomer takes the slot, whoever was in it.
Occupied(slot, q) == q

\* query(): makes the future, takes the slot, sends the raw query upstream.
Forward(q, req) ==
  /\ Arrives(q, req)
  /\ ~should_hijack(req)
  /\ future' = [future EXCEPT ![q] = "pending"]
  /\ pending' = [pending EXCEPT ![Slot(req.txid)] = Occupied(@, q)]
  /\ UNCHANGED <<answer, reply>>

\* _UpstreamProtocol.datagram_received: an answer to the forwarded query a,
\* possibly not the first and possibly late, settles the future in the slot
\* of its transaction id unless the timeout has cancelled it already.
UpstreamDatagram(a) ==
  LET t == Slot(request[a].txid)
      q == pending[t]
  IN /\ a \in Forwarded
     /\ q # NoQuery
     /\ pending' = [pending EXCEPT ![t] = NoQuery]
     /\ \/ /\ future[q] = "pending"
           /\ future' = [future EXCEPT ![q] = "answered"]
           /\ answer' = [answer EXCEPT ![q] = a]
        \/ /\ future[q] # "pending"
           /\ UNCHANGED <<future, answer>>
     /\ UNCHANGED <<request, reply>>

MayExpire_SlotOnly(q) == future[q] = "pending" /\ pending[Slot(request[q].txid)] = q

\* A timer that is due in the loop iteration that settled the future may still
\* win: asyncio.timeout then raises although the answer is there.
MayExpire(q) == future[q] \in {"pending", "answered"}

\* wait_for cancels the future after 4 s; the slot is cleared by Resume.
Expire(q) ==
  /\ Waiting(q)
  /\ MayExpire(q)
  /\ future' = [future EXCEPT ![q] = "cancelled"]
  /\ UNCHANGED <<request, answer, pending, reply>>

Vacated_Kept(slot) == slot

\* pop(txid, None): whoever is in the slot by now.
Vacated(slot) == NoQuery

\* The task goes on after its await, with the answer or with the timeout.
Resume(q) ==
  /\ Waiting(q)
  /\ \/ /\ future[q] = "answered"
        /\ reply' = [reply EXCEPT ![q] = "upstream"]
        /\ UNCHANGED pending
     \/ /\ future[q] = "cancelled"
        /\ reply' = [reply EXCEPT ![q] = "SERVFAIL"]
        /\ pending' = [pending EXCEPT ![Slot(request[q].txid)] = Vacated(@)]
  /\ UNCHANGED <<request, future, answer>>

\* A datagram that does not parse, or that answers no pending id, is dropped.
Next ==
  \E q \in Queries :
    \/ \E req \in Request : Hijack(q, req) \/ Forward(q, req)
    \/ UpstreamDatagram(q)
    \/ Expire(q)
    \/ Resume(q)

Spec == Init /\ [][Next]_vars

\* The event loop runs timers that are due and tasks that are ready.
Fairness == \A q \in Queries : WF_vars(Expire(q)) /\ WF_vars(Resume(q))

FairSpec == Spec /\ Fairness

-----------------------------------------------------------------------------
\* A slot always holds a query that has not been replied to and that its id
\* belongs to: neither answers, nor timeouts, nor ids used again leave an entry
\* behind, so the table cannot grow without bound.  A query whose wait is
\* cancelled keeps its slot until its task goes on.
SlotsLive ==
  \A t \in Txids : pending[t] # NoQuery =>
    /\ pending[t] \in Forwarded
    /\ request[pending[t]].txid = t
    /\ Waiting(pending[t])
    /\ future[pending[t]] # "answered"

\* Among queries with one transaction id the slot is never an older one's: a
\* client's retry, not the attempt it gave up, gets the next answer.
NewestHasSlot ==
  \A t \in Txids : \A q \in Forwarded :
    pending[t] # NoQuery /\ request[q].txid = t => q <= pending[t]

\* A query that shares its id with no other one keeps its slot until it is
\* answered or cancelled, whatever happens to the others: its answer finds it,
\* and it can only be answered by the answer to itself.
LoneQueryKeepsSlot ==
  \A q \in Forwarded :
    (\A other \in Forwarded \ {q} : request[other].txid # request[q].txid) =>
      /\ future[q] = "pending" => pending[request[q].txid] = q
      /\ future[q] = "answered" => answer[q] = q

\* Every forwarded query is replied to: by the answer, or by SERVFAIL once its
\* timeout is over, even when another query has taken its slot.
EveryQueryReplied == \A q \in Queries : Waiting(q) ~> ~Waiting(q)

=============================================================================

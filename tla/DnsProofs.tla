----------------------------- MODULE DnsProofs -----------------------------
(***************************************************************************)
(* The safety properties of DnsShim, proved for any number of queries and  *)
(* any transaction ids.                                                    *)
(***************************************************************************)
EXTENDS DnsShim, TLAPS

\* A query with a future or a reply was received; queries are received in order; a query
\* whose task has ended has a settled future.
History ==
  /\ \A q \in Queries : future[q] # "none" \/ reply[q] # "none" => q \in Received
  /\ \A q \in Received : \A earlier \in 1 .. (q - 1) : earlier \in Received
  /\ \A q \in Queries : future[q] = "pending" => reply[q] = "none"

IInv == DnsTypeOK /\ History /\ SlotsLive /\ NewestHasSlot /\ LoneQueryKeepsSlot

LEMMA NoQueryFresh == NoQuery \notin Queries /\ Queries \subseteq Nat
BY DnsAssumption DEF NoQuery, Queries

LEMMA InitIInv == Init => IInv
BY NoQueryFresh
DEF Init, IInv, DnsTypeOK, History, SlotsLive, NewestHasSlot, LoneQueryKeepsSlot,
    Received, Forwarded, FutureState

LEMMA HijackIInv ==
  ASSUME IInv, NEW q \in Queries, NEW req \in Request, Hijack(q, req)
  PROVE  IInv'
<1> USE NoQueryFresh
<1>1. /\ q \notin Received
      /\ Received' = Received \cup {q}
      /\ request'[q] = req
      /\ \A x \in Received : request'[x] = request[x]
  BY DEF Hijack, Arrives, Received
<1>2. future[q] = "none"
  BY <1>1 DEF IInv, History, DnsTypeOK
<1>3. Forwarded' = Forwarded
  BY <1>1, <1>2 DEF Hijack, Forwarded
<1>4. \A x \in Forwarded : request'[x] = request[x] /\ Waiting(x)' = Waiting(x)
  BY <1>1, <1>2 DEF Hijack, Forwarded, Waiting, IInv, DnsTypeOK
<1>5. DnsTypeOK'
  <2>1. request' \in [Received' -> Request]
    BY <1>1 DEF Hijack, Arrives, IInv, DnsTypeOK, Received
  <2> QED
    BY <1>1, <2>1 DEF Hijack, IInv, DnsTypeOK
<1>6. History'
  BY <1>1, <1>2 DEF Hijack, Arrives, History, IInv, DnsTypeOK, Queries
<1>7. SlotsLive'
  BY <1>3, <1>4 DEF Hijack, SlotsLive, IInv
<1>8. NewestHasSlot'
  BY <1>3, <1>4 DEF Hijack, NewestHasSlot, IInv
<1>9. LoneQueryKeepsSlot'
  BY <1>3, <1>4 DEF Hijack, LoneQueryKeepsSlot, IInv
<1> QED
  BY <1>5, <1>6, <1>7, <1>8, <1>9 DEF IInv

LEMMA ForwardIInv ==
  ASSUME IInv, NEW q \in Queries, NEW req \in Request, Forward(q, req)
  PROVE  IInv'
<1> USE NoQueryFresh
<1> DEFINE t == req.txid
<1>1. /\ q \notin Received
      /\ Received' = Received \cup {q}
      /\ request'[q] = req
      /\ \A x \in Received : request'[x] = request[x]
      /\ t \in Txids
  BY DEF Forward, Arrives, Received, Request
<1>2. future[q] = "none" /\ reply[q] = "none"
  BY <1>1 DEF IInv, History, DnsTypeOK
<1>3. /\ future' \in [Queries -> FutureState]
      /\ future'[q] = "pending"
      /\ \A x \in Queries \ {q} : future'[x] = future[x]
  BY DEF Forward, IInv, DnsTypeOK, FutureState
<1>4. /\ pending' \in [Txids -> Queries \cup {NoQuery}]
      /\ pending'[t] = q
      /\ \A u \in Txids \ {t} : pending'[u] = pending[u]
  BY <1>1 DEF Forward, IInv, DnsTypeOK, Slot, Occupied
<1>5. Forwarded' = Forwarded \cup {q} /\ Forwarded \subseteq Received /\ Received \subseteq Queries
  BY <1>1, <1>2, <1>3 DEF Forwarded, IInv, DnsTypeOK
<1>6. reply' = reply /\ answer' = answer
  BY DEF Forward
<1>7. \A x \in Forwarded : x # q /\ request'[x] = request[x] /\ future'[x] = future[x]
  BY <1>1, <1>3, <1>5
<1> HIDE DEF t
<1>8. DnsTypeOK'
  <2>1. request' \in [Received' -> Request]
    BY <1>1 DEF Forward, Arrives, IInv, DnsTypeOK, Received
  <2> QED
    BY <1>1, <1>3, <1>4, <1>6, <2>1 DEF IInv, DnsTypeOK
<1>9. History'
  BY <1>1, <1>2, <1>3, <1>6 DEF Forward, Arrives, History, IInv, DnsTypeOK, Queries
<1>10. SlotsLive'
  <2> SUFFICES ASSUME NEW u \in Txids, pending'[u] # NoQuery
               PROVE  /\ pending'[u] \in Forwarded'
                      /\ request'[pending'[u]].txid = u
                      /\ Waiting(pending[u])'
                      /\ future'[pending'[u]] # "answered"
    BY DEF SlotsLive
  <2>1. CASE u = t
    BY <2>1, <1>1, <1>2, <1>3, <1>4, <1>5, <1>6 DEF Waiting, t
  <2>2. CASE u # t
    BY <2>2, <1>4, <1>5, <1>6, <1>7 DEF Waiting, SlotsLive, IInv
  <2> QED
    BY <2>1, <2>2
<1>11. \A x \in Forwarded : x < q
  BY <1>1, <1>5 DEF Forward, Arrives, History, IInv, Queries
<1>12. NewestHasSlot'
  <2> SUFFICES ASSUME NEW u \in Txids, NEW x \in Forwarded',
                      pending'[u] # NoQuery, request'[x].txid = u
               PROVE  x <= pending'[u]
    BY DEF NewestHasSlot
  <2>1. CASE u = t
    BY <2>1, <1>4, <1>5, <1>11
  <2>2. CASE u # t
    BY <2>2, <1>1, <1>4, <1>5, <1>7 DEF NewestHasSlot, IInv, t
  <2> QED
    BY <2>1, <2>2
<1>13. LoneQueryKeepsSlot'
  <2> SUFFICES ASSUME NEW x \in Forwarded',
                      \A other \in Forwarded' \ {x} : request'[other].txid # request'[x].txid
               PROVE  /\ future'[x] = "pending" => pending'[request'[x].txid] = x
                      /\ future'[x] = "answered" => answer'[x] = x
    BY DEF LoneQueryKeepsSlot
  <2>1. CASE x = q
    BY <2>1, <1>1, <1>3, <1>4 DEF t
  <2>2. CASE x # q
    <3>1. x \in Forwarded /\ \A other \in Forwarded \ {x} : request[other].txid # request[x].txid
      BY <2>2, <1>5, <1>7
    <3>2. request[x].txid # t /\ request[x].txid \in Txids
      BY <2>2, <3>1, <1>1, <1>5, <1>7 DEF t, IInv, DnsTypeOK, Request
    <3> QED
      BY <2>2, <3>1, <3>2, <1>4, <1>6, <1>7 DEF LoneQueryKeepsSlot, IInv
  <2> QED
    BY <2>1, <2>2
<1> QED
  BY <1>8, <1>9, <1>10, <1>12, <1>13 DEF IInv

LEMMA UpstreamIInv ==
  ASSUME IInv, NEW a \in Queries, UpstreamDatagram(a)
  PROVE  IInv'
<1> USE NoQueryFresh
<1> DEFINE t == request[a].txid
           q == pending[t]
<1>1. /\ a \in Forwarded /\ t \in Txids /\ q # NoQuery
      /\ pending' = [pending EXCEPT ![t] = NoQuery]
      /\ request' = request /\ reply' = reply
      /\ \/ /\ future[q] = "pending"
            /\ future' = [future EXCEPT ![q] = "answered"]
            /\ answer' = [answer EXCEPT ![q] = a]
         \/ future' = future /\ answer' = answer
  BY DEF UpstreamDatagram, Slot, IInv, DnsTypeOK, Request, Forwarded
<1>2. /\ q \in Forwarded /\ q \in Queries /\ request[q].txid = t
      /\ Forwarded \subseteq Received /\ Received \subseteq Queries
  BY <1>1 DEF IInv, SlotsLive, Forwarded, DnsTypeOK
<1>3. /\ pending' \in [Txids -> Queries \cup {NoQuery}]
      /\ pending'[t] = NoQuery
      /\ \A u \in Txids \ {t} : pending'[u] = pending[u]
  BY <1>1 DEF IInv, DnsTypeOK
<1>4. /\ future' \in [Queries -> FutureState]
      /\ answer' \in [Queries -> Queries \cup {NoQuery}]
      /\ \A x \in Queries \ {q} : future'[x] = future[x] /\ answer'[x] = answer[x]
      /\ \/ future'[q] = future[q] /\ answer'[q] = answer[q]
         \/ future[q] = "pending" /\ future'[q] = "answered" /\ answer'[q] = a
  BY <1>1, <1>2 DEF IInv, DnsTypeOK, FutureState
<1> HIDE DEF t, q
<1>5. Forwarded' = Forwarded
  BY <1>1, <1>4 DEF Forwarded, Received, IInv, DnsTypeOK
<1>6. DnsTypeOK'
  BY <1>1, <1>3, <1>4 DEF IInv, DnsTypeOK, Received
<1>7. History'
  BY <1>1, <1>2, <1>4 DEF IInv, History, Received, Forwarded
<1>8. SlotsLive'
  <2> SUFFICES ASSUME NEW u \in Txids, pending'[u] # NoQuery
               PROVE  /\ pending'[u] \in Forwarded'
                      /\ request'[pending'[u]].txid = u
                      /\ Waiting(pending[u])'
                      /\ future'[pending'[u]] # "answered"
    BY DEF SlotsLive
  <2>1. u # t /\ pending'[u] = pending[u]
    BY <1>3
  <2>2. pending[u] \in Forwarded /\ request[pending[u]].txid = u /\ Waiting(pending[u])
          /\ future[pending[u]] # "answered"
    BY <2>1 DEF SlotsLive, IInv
  <2>3. pending[u] # q /\ pending[u] \in Queries
    BY <1>2, <2>1, <2>2
  <2> QED
    BY <1>1, <1>4, <1>5, <2>1, <2>2, <2>3 DEF Waiting
<1>9. NewestHasSlot'
  BY <1>1, <1>3, <1>5 DEF NewestHasSlot, IInv
<1>10. LoneQueryKeepsSlot'
  <2> SUFFICES ASSUME NEW x \in Forwarded,
                      \A other \in Forwarded \ {x} : request[other].txid # request[x].txid
               PROVE  /\ future'[x] = "pending" => pending'[request[x].txid] = x
                      /\ future'[x] = "answered" => answer'[x] = x
    BY <1>1, <1>5 DEF LoneQueryKeepsSlot
  <2>1. CASE x = q
    <3>1. a = q
      BY <2>1, <1>1, <1>2 DEF t
    <3>2. future[q] = "pending" => future'[q] = "answered" /\ answer'[q] = a
      <4>1. future[q] = "pending" =>
              ~(future' = future /\ answer' = answer) \/ future[q] # "pending"
              \/ future' = [future EXCEPT ![q] = "answered"]
        BY DEF UpstreamDatagram, Slot, t, q
      <4> QED
        BY <1>1, <1>2, <4>1 DEF UpstreamDatagram, Slot, t, q, IInv, DnsTypeOK
    <3> QED
      BY <2>1, <3>1, <3>2, <1>4 DEF LoneQueryKeepsSlot, IInv
  <2>2. CASE x # q
    <3>1. request[x].txid # t /\ request[x].txid \in Txids
      BY <2>2, <1>2 DEF IInv, DnsTypeOK, Request
    <3> QED
      BY <2>2, <3>1, <1>2, <1>3, <1>4 DEF LoneQueryKeepsSlot, IInv
  <2> QED
    BY <2>1, <2>2
<1> QED
  BY <1>6, <1>7, <1>8, <1>9, <1>10 DEF IInv

LEMMA ExpireIInv ==
  ASSUME IInv, NEW q \in Queries, Expire(q)
  PROVE  IInv'
<1> USE NoQueryFresh
<1>1. /\ future' = [future EXCEPT ![q] = "cancelled"]
      /\ UNCHANGED <<request, answer, pending, reply>>
      /\ Waiting(q) /\ future[q] # "none"
  BY DEF Expire, Waiting
<1>2. /\ future' \in [Queries -> FutureState]
      /\ future'[q] = "cancelled"
      /\ \A x \in Queries \ {q} : future'[x] = future[x]
  BY <1>1 DEF IInv, DnsTypeOK, FutureState
<1>3. Forwarded' = Forwarded /\ \A x \in Queries : Waiting(x)' = Waiting(x)
  BY <1>1, <1>2 DEF Forwarded, Received, Waiting, IInv, DnsTypeOK
<1>4. Forwarded \subseteq Queries
  BY DEF Forwarded, IInv, DnsTypeOK
<1>5. DnsTypeOK'
  BY <1>1, <1>2 DEF IInv, DnsTypeOK, Received
<1>6. History'
  BY <1>1, <1>2 DEF IInv, History, Received
<1>7. SlotsLive'
  BY <1>1, <1>2, <1>3, <1>4 DEF IInv, SlotsLive
<1>8. NewestHasSlot'
  BY <1>1, <1>3 DEF IInv, NewestHasSlot
<1>9. LoneQueryKeepsSlot'
  BY <1>1, <1>2, <1>3, <1>4 DEF IInv, LoneQueryKeepsSlot
<1> QED
  BY <1>5, <1>6, <1>7, <1>8, <1>9 DEF IInv

LEMMA ResumeIInv ==
  ASSUME IInv, NEW q \in Queries, Resume(q)
  PROVE  IInv'
<1> USE NoQueryFresh
<1> DEFINE t == request[q].txid
<1>1. /\ Waiting(q) /\ future[q] \in {"answered", "cancelled"} /\ q \in Forwarded
      /\ UNCHANGED <<request, future, answer>>
      /\ reply' \in [Queries -> {"none", "PUBLIC_HOST", "upstream", "SERVFAIL"}]
      /\ reply'[q] # "none"
      /\ \A x \in Queries \ {q} : reply'[x] = reply[x]
      /\ t \in Txids
  BY DEF Resume, Waiting, IInv, DnsTypeOK, History, Forwarded, Request
<1>2. \/ future[q] = "answered" /\ pending' = pending
      \/ future[q] = "cancelled" /\ pending' = [pending EXCEPT ![t] = NoQuery]
  BY DEF Resume, Slot, Vacated
<1>3. /\ pending' \in [Txids -> Queries \cup {NoQuery}]
      /\ \A u \in Txids : pending'[u] \in {pending[u], NoQuery}
      /\ \A u \in Txids \ {t} : pending'[u] = pending[u]
      /\ future[q] = "cancelled" => pending'[t] = NoQuery
  BY <1>1, <1>2 DEF IInv, DnsTypeOK
<1> HIDE DEF t
<1>4. Forwarded' = Forwarded /\ Forwarded \subseteq Received /\ Received \subseteq Queries
  BY <1>1 DEF Forwarded, Received, IInv, DnsTypeOK
<1>5. DnsTypeOK'
  BY <1>1, <1>3 DEF IInv, DnsTypeOK, Received
<1>6. History'
  BY <1>1, <1>4 DEF IInv, History, Received
<1>7. SlotsLive'
  <2> SUFFICES ASSUME NEW u \in Txids, pending'[u] # NoQuery
               PROVE  /\ pending'[u] \in Forwarded
                      /\ request[pending'[u]].txid = u
                      /\ Waiting(pending[u])'
                      /\ future[pending'[u]] # "answered"
    BY <1>1, <1>4 DEF SlotsLive
  <2>1. pending'[u] = pending[u]
    BY <1>3
  <2>2. pending[u] # q
    BY <1>1, <1>3, <2>1 DEF SlotsLive, IInv, t
  <2>3. /\ pending[u] \in Forwarded /\ pending[u] \in Queries
        /\ request[pending[u]].txid = u
        /\ Waiting(pending[u]) /\ future[pending[u]] # "answered"
    BY <1>4, <2>1 DEF SlotsLive, IInv
  <2> QED
    BY <1>1, <2>1, <2>2, <2>3 DEF Waiting
<1>8. NewestHasSlot'
  BY <1>1, <1>3, <1>4 DEF NewestHasSlot, IInv
<1>9. LoneQueryKeepsSlot'
  <2> SUFFICES ASSUME NEW x \in Forwarded,
                      \A other \in Forwarded \ {x} : request[other].txid # request[x].txid
               PROVE  /\ future[x] = "pending" => pending'[request[x].txid] = x
                      /\ future[x] = "answered" => answer[x] = x
    BY <1>1, <1>4 DEF LoneQueryKeepsSlot
  <2>1. CASE x = q
    BY <2>1, <1>1 DEF LoneQueryKeepsSlot, IInv
  <2>2. CASE x # q
    BY <2>2, <1>1, <1>3, <1>4 DEF LoneQueryKeepsSlot, IInv, DnsTypeOK, Request, t
  <2> QED
    BY <2>1, <2>2
<1> QED
  BY <1>5, <1>6, <1>7, <1>8, <1>9 DEF IInv

LEMMA NextIInv == IInv /\ [Next]_vars => IInv'
<1> SUFFICES ASSUME IInv, [Next]_vars
             PROVE  IInv'
  OBVIOUS
<1>1. CASE Next
  <2>1. PICK q \in Queries :
          \/ \E req \in Request : Hijack(q, req) \/ Forward(q, req)
          \/ UpstreamDatagram(q)
          \/ Expire(q)
          \/ Resume(q)
    BY <1>1 DEF Next
  <2>2. CASE \E req \in Request : Hijack(q, req) \/ Forward(q, req)
    BY <2>2, HijackIInv, ForwardIInv
  <2> QED
    BY <2>1, <2>2, UpstreamIInv, ExpireIInv, ResumeIInv
<1>2. CASE UNCHANGED vars
  BY <1>2 DEF vars, IInv, DnsTypeOK, History, SlotsLive, NewestHasSlot,
              LoneQueryKeepsSlot, Received, Forwarded, Waiting
<1> QED
  BY <1>1, <1>2

THEOREM Inductive == Spec => []IInv
BY InitIInv, NextIInv, PTL DEF Spec

\* The pending table holds live queries only, each under its own id.
THEOREM SlotsLiveHolds == Spec => []SlotsLive
<1>1. IInv => SlotsLive
  BY DEF IInv
<1> QED
  BY Inductive, <1>1, PTL

\* A slot that is used again belongs to the newest query with its id.
THEOREM NewestHasSlotHolds == Spec => []NewestHasSlot
<1>1. IInv => NewestHasSlot
  BY DEF IInv
<1> QED
  BY Inductive, <1>1, PTL

\* A query whose id no other one uses cannot lose its slot, nor be answered
\* with the answer to another query.
THEOREM LoneQueryKeepsSlotHolds == Spec => []LoneQueryKeepsSlot
<1>1. IInv => LoneQueryKeepsSlot
  BY DEF IInv
<1> QED
  BY Inductive, <1>1, PTL

=============================================================================

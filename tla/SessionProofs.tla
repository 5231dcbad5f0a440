--------------------------- MODULE SessionProofs ---------------------------
(***************************************************************************)
(* Proofs about module Session: types, that RMC handlers only ever see     *)
(* bodies that the console sent, and that they see each exactly once, in   *)
(* order, as long as nothing is repeated.                                  *)
(*                                                                         *)
(* The argument: the console has one DATA packet under way, number DataId. *)
(* Whatever waits in the network is that one or repeats the one before it, *)
(* and the server's buffer ends with one of the two.  So a buffer advances *)
(* by at most one fragment per packet, and one that has the right length   *)
(* when it reaches the last fragment has not repeated any.                 *)
(***************************************************************************)
EXTENDS Session, TLAPS

b == entry.fragment_buffer
L == entry.last_client_pid

\* The packet_id of the console's latest DATA packet, once it is past CONNECT.
DataId == IF phase = "open" THEN pid ELSE pid - 1

\* What may be under way in each phase of the console.
UpTypes ==
  CASE phase = "closed" -> {}
    [] phase = "syn" -> {"SYN"}
    [] phase = "connect" -> {"SYN", "CONNECT"}
    [] phase = "open" -> {"CONNECT", "DATA"}
    [] OTHER -> {"CONNECT", "DATA", "DISCONNECT"}

DownTypes ==
  CASE phase = "closed" -> {}
    [] phase = "syn" -> {"SYN+ACK"}
    [] phase = "connect" -> {"SYN+ACK", "CONNECT+ACK"}
    [] OTHER -> {"SYN+ACK", "CONNECT+ACK", "DATA+ACK", "REPLY", "DISCONNECT+ACK"}

\* A DATA packet under way: the console's latest, or the one before it.
DataOK(x) ==
  /\ x.id >= 2 /\ x.id >= L
  /\ \/ x.id = DataId /\ x.body = <<request, fragment>>
     \/ x.id = DataId - 1 /\ fragment > 1 /\ x.body = <<request, fragment - 1>>
     \/ x.id = DataId - 1 /\ fragment = 1 /\ Last(x.body)

UpItem(x) ==
  /\ x.type \in UpTypes
  /\ x.type = "DATA" => x.body \in Fragment /\ DataOK(x)

InOrder(x, y) ==
  /\ x.type = "CONNECT" => y.type # "SYN"
  /\ x.type = "DATA" /\ y.type = "DATA" => x.id <= y.id

UpOK ==
  /\ \A i \in 1 .. Len(up) : UpItem(up[i])
  /\ \A i, j \in 1 .. Len(up) : i < j => InOrder(up[i], up[j])

NoSyn == \A i \in 1 .. Len(up) : up[i].type # "SYN"

DownItem(x) ==
  /\ x.type \in DownTypes
  /\ x.type = "SYN+ACK" /\ phase = "syn" =>
       entry.state = "SYN_RECV" /\ b = <<>> /\ L = 0
  /\ x.type = "CONNECT+ACK" /\ phase = "connect" =>
       entry.state = "ESTABLISHED" /\ NoSyn
  /\ x.type = "DATA+ACK" => entry.state = "none" \/ x.id <= L

DownOK == \A i \in 1 .. Len(down) : DownItem(down[i])

\* Fragments of request r, of which each takes f one further at most.
Paced(f, r) ==
  /\ \A i \in 1 .. Len(f) : f[i][1] = r
  /\ \A i, j \in 1 .. Len(f) : i <= j => f[j][2] - f[i][2] <= j - i

\* The buffer ends with the console's packet or the one before it.
BufferOK ==
  /\ Paced(b, request)
  /\ b # <<>> =>
       \/ L = pid /\ fragment < FragmentsOf[request] /\ b[Len(b)] = <<request, fragment>>
       \/ L = pid - 1 /\ fragment > 1 /\ b[Len(b)] = <<request, fragment - 1>>

EntryOK ==
  /\ phase = "closed" => up = <<>> /\ down = <<>>
  /\ phase \in {"syn", "connect"} => fragment = 1
  /\ phase = "connect" =>
       entry.state \in {"SYN_RECV", "ESTABLISHED"} /\ b = <<>> /\ L = 0
  /\ phase = "open" =>
       /\ entry.state = "ESTABLISHED"
       /\ pid >= 2 /\ L <= pid /\ ((pid = 2 /\ fragment = 1) \/ L >= pid - 1)
       /\ BufferOK
  /\ phase \in {"disconnect", "done"} =>
       /\ fragment = FragmentsOf[request]
       /\ entry.state = "none" \/ (entry.state = "ESTABLISHED" /\ L = pid - 1 /\ b = <<>>)

SessionInv == TypeOK /\ UpOK /\ DownOK /\ EntryOK /\ BodiesAsSent

Under(q, x) == \E i \in 1 .. Len(q) : q[i] = x

-----------------------------------------------------------------------------
\* Sequences.

LEMMA TailFacts ==
  ASSUME NEW S, NEW s \in Seq(S), s # <<>>
  PROVE  /\ Head(s) = s[1] /\ Head(s) \in S
         /\ Len(s) \in Nat \ {0}
         /\ Tail(s) \in Seq(S)
         /\ Len(Tail(s)) = Len(s) - 1
         /\ \A i \in 1 .. (Len(s) - 1) : Tail(s)[i] = s[i + 1]
  OBVIOUS

LEMMA AppendFacts ==
  ASSUME NEW S, NEW s \in Seq(S), NEW e \in S
  PROVE  /\ Append(s, e) \in Seq(S) /\ Append(s, e) # <<>>
         /\ Len(s) \in Nat
         /\ Len(Append(s, e)) = Len(s) + 1
         /\ \A i \in 1 .. Len(s) : Append(s, e)[i] = s[i]
         /\ Append(s, e)[Len(s) + 1] = e
  OBVIOUS

LEMMA ConcatFacts ==
  ASSUME NEW S, NEW s \in Seq(S), NEW t \in Seq(S)
  PROVE  /\ s \o t \in Seq(S)
         /\ \A i \in 1 .. Len(s \o t) :
              \/ i \in 1 .. Len(s) /\ (s \o t)[i] = s[i]
              \/ \E j \in 1 .. Len(t) : (s \o t)[i] = t[j]
<1>1. /\ Len(s) \in Nat /\ Len(t) \in Nat /\ Len(s \o t) = Len(s) + Len(t)
      /\ \A i \in 1 .. Len(s) : (s \o t)[i] = s[i]
      /\ \A i \in (Len(s) + 1) .. (Len(s) + Len(t)) : (s \o t)[i] = t[i - Len(s)]
  OBVIOUS
<1>2. s \o t \in Seq(S)
  OBVIOUS
<1>3. ASSUME NEW i \in 1 .. Len(s \o t), i \notin 1 .. Len(s)
      PROVE  \E j \in 1 .. Len(t) : (s \o t)[i] = t[j]
  <2>1. i - Len(s) \in 1 .. Len(t) /\ i \in (Len(s) + 1) .. (Len(s) + Len(t))
    BY <1>1, <1>3
  <2> QED
    BY <1>1, <2>1
<1> QED
  BY <1>1, <1>2, <1>3

\* What the types say of the fields the proofs look at.
LEMMA Types ==
  ASSUME TypeOK
  PROVE  /\ up \in Seq(Packet) /\ down \in Seq(Packet)
         /\ b \in Seq(Fragment) /\ L \in Nat /\ Len(b) \in Nat
         /\ request \in Requests /\ fragment \in 1 .. FragmentsOf[request] /\ pid \in Nat
         /\ FragmentsOf[request] \in Nat \ {0}
         /\ Requests = 1 .. Len(FragmentsOf) /\ Len(FragmentsOf) \in Nat
         /\ \A r \in Requests : FragmentsOf[r] \in Nat \ {0}
         /\ ran \in Seq(Seq(Fragment))
<1>1. /\ Requests = 1 .. Len(FragmentsOf) /\ Len(FragmentsOf) \in Nat
      /\ \A r \in Requests : FragmentsOf[r] \in Nat \ {0}
  BY SessionAssumption DEF Requests
<1>2. b \in Seq(Fragment) /\ L \in Nat /\ Len(b) \in Nat
  BY DEF TypeOK, b, L
<1> QED
  BY <1>1, <1>2 DEF TypeOK

LEMMA FragmentFacts ==
  ASSUME NEW f \in Fragment
  PROVE  f[1] \in Requests /\ f[2] \in 1 .. FragmentsOf[f[1]] /\ f = <<f[1], f[2]>>
BY DEF Fragment

LEMMA PairIsFragment ==
  ASSUME NEW r \in Requests, NEW k \in 1 .. FragmentsOf[r], FragmentsOf[r] \in Nat
  PROVE  /\ <<r, k>> \in Fragment
         /\ <<r, k>>[1] = r /\ <<r, k>>[2] = k
BY DEF Fragment

LEMMA PlainFacts ==
  ASSUME NEW t \in {"SYN", "CONNECT", "DATA", "DISCONNECT", "SYN+ACK", "CONNECT+ACK",
                    "DATA+ACK", "DISCONNECT+ACK", "REPLY"},
         NEW s \in Sigs \cup {NoSig}, NEW n \in Nat
  PROVE  Plain(t, s, n) \in Packet /\ Plain(t, s, n).type = t /\ Plain(t, s, n).id = n
BY DEF Plain, Packet

\* A buffer that decodes at the last fragment is the whole request.
LEMMA Assembled ==
  ASSUME NEW r \in Requests, NEW f \in Seq(Fragment), FragmentsOf[r] \in Nat \ {0},
         Len(f) = FragmentsOf[r], f[1][2] = 1, f[Len(f)] = <<r, FragmentsOf[r]>>,
         Paced(f, r)
  PROVE  f = Whole(r)
<1> DEFINE n == FragmentsOf[r]
<1>1. ASSUME NEW k \in 1 .. n PROVE f[k] = <<r, k>>
  <2>1. k \in 1 .. Len(f) /\ 1 \in 1 .. Len(f) /\ n \in 1 .. Len(f) /\ f[k] \in Fragment
    OBVIOUS
  <2>2. f[k][2] - 1 <= k - 1 /\ n - f[k][2] <= n - k
    <3>1. f[n][2] = n
      OBVIOUS
    <3>2. f[k][2] - f[1][2] <= k - 1 /\ f[n][2] - f[k][2] <= n - k
      BY <2>1 DEF Paced
    <3> QED
      BY <3>1, <3>2
  <2>3. f[k][2] \in Nat /\ f[k] = <<f[k][1], f[k][2]>>
    <3>1. /\ f[k][1] \in Requests /\ f[k][2] \in 1 .. FragmentsOf[f[k][1]]
          /\ f[k] = <<f[k][1], f[k][2]>>
      BY <2>1, FragmentFacts
    <3>2. f[k][1] = r
      BY <2>1 DEF Paced
    <3> QED
      BY <3>1, <3>2
  <2>4. f[k][2] = k
    BY <2>2, <2>3
  <2>5. f[k][1] = r
    BY <2>1 DEF Paced
  <2> QED
    BY <2>3, <2>4, <2>5
<1>2. f = [k \in 1 .. Len(f) |-> f[k]]
  OBVIOUS
<1> QED
  BY <1>1, <1>2 DEF Whole

-----------------------------------------------------------------------------
\* The two queues.

\* Taking the first packet from up, when what is left may still be in flight.
LEMMA UpTail ==
  ASSUME TypeOK, UpOK, up # <<>>, up' = Tail(up),
         UNCHANGED <<phase, request, fragment, pid>>,
         \A i \in 2 .. Len(up) : up[i].type = "DATA" => up[i].id >= L'
  PROVE  UpOK' /\ up' \in Seq(Packet) /\ (NoSyn => NoSyn')
<1>1. /\ up \in Seq(Packet) /\ Len(up) \in Nat \ {0} /\ Len(up') = Len(up) - 1
      /\ up' \in Seq(Packet)
      /\ \A i \in 1 .. (Len(up) - 1) : up'[i] = up[i + 1]
  BY Types, TailFacts
<1>2. \A x \in Packet :
        UpItem(x) /\ (x.type = "DATA" => x.id >= L') => UpItem(x)'
  BY DEF UpItem, DataOK, UpTypes, DataId
<1>3. ASSUME NEW i \in 1 .. Len(up')
      PROVE  /\ i + 1 \in 2 .. Len(up) /\ i + 1 \in 1 .. Len(up)
             /\ up'[i] = up[i + 1] /\ up'[i] \in Packet /\ UpItem(up[i])'
  <2>1. /\ i + 1 \in 2 .. Len(up) /\ i + 1 \in 1 .. Len(up)
        /\ up'[i] = up[i + 1] /\ up[i + 1] \in Packet
    BY <1>1
  <2>2. UpItem(up[i + 1]) /\ (up[i + 1].type = "DATA" => up[i + 1].id >= L')
    BY <2>1 DEF UpOK
  <2> QED
    BY <2>1, <2>2, <1>2
<1>4. ASSUME NEW i \in 1 .. Len(up'), NEW j \in 1 .. Len(up'), i < j
      PROVE  InOrder(up'[i], up'[j])
  <2>1. i + 1 < j + 1 /\ i + 1 \in 1 .. Len(up) /\ j + 1 \in 1 .. Len(up)
    BY <1>1, <1>4
  <2> QED
    BY <1>3, <2>1 DEF UpOK
<1> QED
  BY <1>1, <1>3, <1>4 DEF UpOK, NoSyn, InOrder

LEMMA UpSend ==
  ASSUME TypeOK, UpOK, NEW x \in Packet, up' = Append(up, x), UpItem(x)',
         \A y \in Packet : Under(up, y) => UpItem(y)' /\ InOrder(y, x)
  PROVE  UpOK' /\ up' \in Seq(Packet)
<1>1. /\ up \in Seq(Packet) /\ Len(up) \in Nat /\ up' \in Seq(Packet)
      /\ Len(up') = Len(up) + 1 /\ up'[Len(up) + 1] = x
      /\ \A i \in 1 .. Len(up) : up'[i] = up[i]
  BY Types, AppendFacts
<1>2. ASSUME NEW i \in 1 .. Len(up') PROVE UpItem(up[i])'
  <2>1. CASE i = Len(up) + 1
    BY <1>1, <2>1
  <2>2. CASE i \in 1 .. Len(up)
    <3>1. up'[i] = up[i] /\ up[i] \in Packet /\ Under(up, up[i])
      BY <1>1, <2>2 DEF Under
    <3> QED
      BY <3>1
  <2> QED
    BY <1>1, <2>1, <2>2
<1>3. ASSUME NEW i \in 1 .. Len(up'), NEW j \in 1 .. Len(up'), i < j
      PROVE  InOrder(up'[i], up'[j])
  <2>1. i \in 1 .. Len(up) /\ up'[i] = up[i] /\ up[i] \in Packet /\ Under(up, up[i])
    BY <1>1, <1>3 DEF Under
  <2>2. CASE j = Len(up) + 1
    BY <1>1, <2>1, <2>2
  <2>3. CASE j \in 1 .. Len(up)
    BY <1>1, <1>3, <2>1, <2>3 DEF UpOK
  <2> QED
    BY <1>1, <2>2, <2>3
<1> QED
  BY <1>1, <1>2, <1>3 DEF UpOK, InOrder

LEMMA DownTail ==
  ASSUME TypeOK, DownOK, down # <<>>, down' = Tail(down),
         \A y \in Packet : DownItem(y) => DownItem(y)'
  PROVE  DownOK' /\ down' \in Seq(Packet)
<1>1. /\ down \in Seq(Packet) /\ Len(down) \in Nat \ {0} /\ Len(down') = Len(down) - 1
      /\ down' \in Seq(Packet)
      /\ \A i \in 1 .. (Len(down) - 1) : down'[i] = down[i + 1]
  BY Types, TailFacts
<1>2. ASSUME NEW i \in 1 .. Len(down') PROVE DownItem(down[i])'
  <2>1. i + 1 \in 1 .. Len(down) /\ down'[i] = down[i + 1] /\ down[i + 1] \in Packet
    BY <1>1
  <2> QED
    BY <2>1 DEF DownOK
<1> QED
  BY <1>1, <1>2 DEF DownOK

LEMMA DownReplies ==
  ASSUME TypeOK, DownOK, NEW t \in Seq(Packet), Replies(t),
         \A y \in Packet : DownItem(y) => DownItem(y)',
         \A y \in Packet : Under(t, y) => DownItem(y)'
  PROVE  DownOK' /\ down' \in Seq(Packet)
<1>1. /\ down \in Seq(Packet) /\ down' \in Seq(Packet)
      /\ \A i \in 1 .. Len(down') :
           \/ i \in 1 .. Len(down) /\ down'[i] = down[i]
           \/ \E j \in 1 .. Len(t) : down'[i] = t[j]
  BY Types, ConcatFacts DEF Replies
<1>2. ASSUME NEW i \in 1 .. Len(down') PROVE DownItem(down[i])'
  <2>1. CASE i \in 1 .. Len(down) /\ down'[i] = down[i]
    <3>1. down[i] \in Packet /\ DownItem(down[i])
      BY <1>1, <2>1 DEF DownOK
    <3> QED
      BY <3>1, <2>1
  <2>2. CASE \E j \in 1 .. Len(t) : down'[i] = t[j]
    <3>1. PICK j \in 1 .. Len(t) : down'[i] = t[j]
      BY <2>2
    <3>2. t[j] \in Packet /\ Under(t, t[j])
      BY DEF Under
    <3> QED
      BY <3>1, <3>2
  <2> QED
    BY <1>1, <2>1, <2>2
<1> QED
  BY <1>1, <1>2 DEF DownOK

LEMMA DownKept ==
  ASSUME TypeOK, DownOK, UNCHANGED down,
         \A y \in Packet : DownItem(y) => DownItem(y)'
  PROVE  DownOK' /\ down' \in Seq(Packet)
<1>1. down \in Seq(Packet) /\ \A i \in 1 .. Len(down) : down[i] \in Packet
  BY Types
<1>2. ASSUME NEW i \in 1 .. Len(down') PROVE DownItem(down[i])'
  <2>1. down'[i] = down[i] /\ down[i] \in Packet /\ DownItem(down[i])
    BY <1>1 DEF DownOK
  <2> QED
    BY <2>1
<1> QED
  BY <1>1, <1>2 DEF DownOK

-----------------------------------------------------------------------------
\* The server's actions.

LEMMA SynStep ==
  ASSUME SessionInv, HandleSyn
  PROVE  SessionInv'
<1>1. /\ TypeOK /\ UpOK /\ DownOK /\ EntryOK /\ BodiesAsSent
      /\ up # <<>> /\ up' = Tail(up) /\ Head(up).type = "SYN"
      /\ UNCHANGED <<phase, sig, request, fragment, pid, tries, ran, repeated, faults>>
  BY DEF SessionInv, HandleSyn, Arrives, console
<1>2. PICK s \in Sigs : entry' = Connection(s) /\ Replies(<<Plain("SYN+ACK", s, 0)>>)
  <2>1. PICK s \in Sigs : /\ entry' = Connection(s)
                          /\ Replies(<<Plain("SYN+ACK", entry'.server_conn_sig, 0)>>)
    BY DEF HandleSyn, Superseded
  <2>2. entry'.server_conn_sig = s
    BY <2>1 DEF Connection, NoEntry
  <2> QED
    BY <2>1, <2>2
<1>3. /\ entry'.state = "SYN_RECV" /\ b' = <<>> /\ L' = 0
      /\ entry' \in [state : {"none", "SYN_RECV", "ESTABLISHED"},
                     server_conn_sig : Sigs \cup {NoSig}, fragment_buffer : Seq(Fragment),
                     last_client_pid : Nat, outgoing_reliable_seq : Nat \ {0}]
  <2>1. entry' = [state |-> "SYN_RECV", server_conn_sig |-> s, fragment_buffer |-> <<>>,
                  last_client_pid |-> 0, outgoing_reliable_seq |-> 1]
    BY <1>2 DEF Connection, NoEntry
  <2> QED
    BY <2>1 DEF b, L
<1>4. 1 \in 1 .. Len(up) /\ up[1].type = "SYN" /\ up \in Seq(Packet) /\ Len(up) \in Nat
  BY <1>1, Types, TailFacts
<1>5. phase \in {"syn", "connect"} /\ ~NoSyn
  BY <1>1, <1>4 DEF UpOK, UpItem, UpTypes, NoSyn, TypeOK
<1>6. UpOK' /\ up' \in Seq(Packet)
  <2>1. \A i \in 2 .. Len(up) : up[i].type # "DATA"
    BY <1>1, <1>4, <1>5 DEF UpOK, UpItem, UpTypes
  <2> QED
    BY <1>1, <2>1, UpTail
<1>7. DownOK' /\ down' \in Seq(Packet)
  <2> DEFINE t == <<Plain("SYN+ACK", s, 0)>>
  <2>1. t \in Seq(Packet) /\ Len(t) = 1 /\ t[1].type = "SYN+ACK"
    BY PlainFacts
  <2>2. \A y \in Packet : DownItem(y) => DownItem(y)'
    BY <1>1, <1>3, <1>5 DEF DownItem, DownTypes
  <2>3. \A y \in Packet : Under(t, y) => DownItem(y)'
    BY <1>1, <1>3, <1>5, <2>1 DEF Under, DownItem, DownTypes
  <2> HIDE DEF t
  <2>4. Replies(t)
    BY <1>2 DEF t
  <2> QED
    BY <1>1, <2>1, <2>2, <2>3, <2>4, DownReplies
<1>8. EntryOK'
  BY <1>1, <1>3, <1>5 DEF EntryOK
<1>9. TypeOK' /\ BodiesAsSent'
  BY <1>1, <1>3, <1>6, <1>7 DEF TypeOK, BodiesAsSent
<1> QED
  BY <1>6, <1>7, <1>8, <1>9 DEF SessionInv

LEMMA ConnectStep ==
  ASSUME SessionInv, HandleConnect
  PROVE  SessionInv'
<1>1. /\ TypeOK /\ UpOK /\ DownOK /\ EntryOK /\ BodiesAsSent
      /\ up # <<>> /\ up' = Tail(up) /\ Head(up).type = "CONNECT"
      /\ UNCHANGED <<phase, sig, request, fragment, pid, tries, ran, repeated, faults>>
  BY DEF SessionInv, HandleConnect, Arrives, console
<1>2. /\ 1 \in 1 .. Len(up) /\ up[1].type = "CONNECT" /\ up \in Seq(Packet)
      /\ Len(up) \in Nat /\ Head(up) \in Packet
  BY <1>1, Types, TailFacts
<1>3. phase \in {"connect", "open", "disconnect", "done"}
  BY <1>1, <1>2 DEF UpOK, UpItem, UpTypes, TypeOK
<1>4. b' = b /\ L' = L /\ entry'.state \in {entry.state, "ESTABLISHED"}
  <2>1. CASE UNCHANGED entry
    BY <2>1 DEF b, L
  <2>2. CASE entry' = [entry EXCEPT !.state = "ESTABLISHED"]
    BY <1>1, <2>2 DEF b, L, TypeOK
  <2> QED
    BY <2>1, <2>2 DEF HandleConnect
<1>5. UpOK' /\ up' \in Seq(Packet) /\ (NoSyn => NoSyn')
  <2>1. \A i \in 2 .. Len(up) : up[i].type = "DATA" => up[i].id >= L'
    BY <1>1, <1>2, <1>4 DEF UpOK, UpItem, DataOK
  <2> QED
    BY <1>1, <2>1, UpTail
<1>6. CASE UNCHANGED <<entry, down>>
  <2>1. \A y \in Packet : DownItem(y) => DownItem(y)'
    BY <1>1, <1>4, <1>5, <1>6 DEF DownItem, DownTypes
  <2>2. DownOK' /\ down' \in Seq(Packet)
    BY <1>1, <1>6, <2>1, DownKept
  <2>3. EntryOK'
    BY <1>1, <1>3, <1>4, <1>6 DEF EntryOK, BufferOK
  <2>4. TypeOK' /\ BodiesAsSent'
    BY <1>1, <1>5, <1>6 DEF TypeOK, BodiesAsSent
  <2> QED
    BY <1>5, <2>2, <2>3, <2>4 DEF SessionInv
<1>7. CASE /\ entry.state = "SYN_RECV"
           /\ entry' = [entry EXCEPT !.state = "ESTABLISHED"]
           /\ Replies(<<Plain("CONNECT+ACK", NoSig, Head(up).id)>>)
  <2>1. phase = "connect" /\ entry'.state = "ESTABLISHED"
    BY <1>1, <1>3, <1>7 DEF EntryOK, TypeOK
  <2>2. NoSyn'
    <3>1. \A i \in 2 .. Len(up) : up[i].type # "SYN"
      BY <1>1, <1>2 DEF UpOK, InOrder
    <3>2. Len(up') = Len(up) - 1 /\ \A i \in 1 .. (Len(up) - 1) : up'[i] = up[i + 1]
      BY <1>1, <1>2, TailFacts
    <3>3. ASSUME NEW i \in 1 .. Len(up') PROVE up'[i].type # "SYN"
      <4>1. i + 1 \in 2 .. Len(up) /\ up'[i] = up[i + 1]
        BY <1>2, <3>2
      <4> QED
        BY <3>1, <4>1
    <3> QED
      BY <3>3 DEF NoSyn
  <2> DEFINE t == <<Plain("CONNECT+ACK", NoSig, Head(up).id)>>
  <2>3. t \in Seq(Packet) /\ Len(t) = 1 /\ t[1].type = "CONNECT+ACK"
    <3>1. Head(up).id \in Nat
      BY <1>2 DEF Packet
    <3> QED
      BY <3>1, PlainFacts
  <2>4. \A y \in Packet : DownItem(y) => DownItem(y)'
    BY <1>1, <1>4, <2>1, <2>2 DEF DownItem, DownTypes
  <2>5. \A y \in Packet : Under(t, y) => DownItem(y)'
    BY <1>1, <2>1, <2>2, <2>3 DEF Under, DownItem, DownTypes
  <2> HIDE DEF t
  <2>6. Replies(t)
    BY <1>7 DEF t
  <2>7. DownOK' /\ down' \in Seq(Packet)
    BY <1>1, <2>3, <2>4, <2>5, <2>6, DownReplies
  <2>8. EntryOK'
    BY <1>1, <1>4, <2>1 DEF EntryOK
  <2>9. TypeOK' /\ BodiesAsSent'
    BY <1>1, <1>5, <1>7, <2>7 DEF TypeOK, BodiesAsSent
  <2> QED
    BY <1>5, <2>7, <2>8, <2>9 DEF SessionInv
<1> QED
  BY <1>6, <1>7 DEF HandleConnect

LEMMA DisconnectStep ==
  ASSUME SessionInv, HandleDisconnect
  PROVE  SessionInv'
<1>1. /\ TypeOK /\ UpOK /\ DownOK /\ EntryOK /\ BodiesAsSent
      /\ up # <<>> /\ up' = Tail(up) /\ Head(up).type = "DISCONNECT"
      /\ UNCHANGED <<phase, sig, request, fragment, pid, tries, ran, repeated, faults>>
  BY DEF SessionInv, HandleDisconnect, Arrives, console
<1>2. /\ 1 \in 1 .. Len(up) /\ up[1].type = "DISCONNECT" /\ up \in Seq(Packet)
      /\ Len(up) \in Nat /\ Head(up) \in Packet
  BY <1>1, Types, TailFacts
<1>3. phase \in {"disconnect", "done"}
  BY <1>1, <1>2 DEF UpOK, UpItem, UpTypes, TypeOK
<1>4. /\ entry'.state = "none" /\ b' = <<>> /\ L' = 0
      /\ entry' \in [state : {"none", "SYN_RECV", "ESTABLISHED"},
                     server_conn_sig : Sigs \cup {NoSig}, fragment_buffer : Seq(Fragment),
                     last_client_pid : Nat, outgoing_reliable_seq : Nat \ {0}]
  BY DEF HandleDisconnect, NoEntry, b, L
<1>5. UpOK' /\ up' \in Seq(Packet)
  <2>1. \A i \in 2 .. Len(up) : up[i].type = "DATA" => up[i].id >= L'
    <3>1. ASSUME NEW i \in 2 .. Len(up) PROVE up[i].id \in Nat
      <4>1. up[i] \in Packet
        BY <1>2
      <4> QED
        BY <4>1 DEF Packet
    <3> QED
      BY <1>4, <3>1
  <2> QED
    BY <1>1, <2>1, UpTail
<1>6. \A y \in Packet : DownItem(y) => DownItem(y)'
  BY <1>1, <1>3, <1>4 DEF DownItem, DownTypes
<1>7. DownOK' /\ down' \in Seq(Packet)
  <2> DEFINE t == <<Plain("DISCONNECT+ACK", NoSig, Head(up).id)>>
  <2>1. t \in Seq(Packet) /\ Len(t) = 1 /\ t[1].type = "DISCONNECT+ACK"
    <3>1. Head(up).id \in Nat
      BY <1>2 DEF Packet
    <3> QED
      BY <3>1, PlainFacts
  <2>2. \A y \in Packet : Under(t, y) => DownItem(y)'
    BY <1>1, <1>3, <2>1 DEF Under, DownItem, DownTypes
  <2> HIDE DEF t
  <2>3. CASE Replies(t)
    BY <1>1, <1>6, <2>1, <2>2, <2>3, DownReplies
  <2>4. CASE UNCHANGED down
    BY <1>1, <1>6, <2>4, DownKept
  <2> QED
    BY <2>3, <2>4 DEF HandleDisconnect, t
<1>8. EntryOK'
  BY <1>1, <1>3, <1>4 DEF EntryOK
<1>9. TypeOK' /\ BodiesAsSent'
  BY <1>1, <1>4, <1>5, <1>7 DEF TypeOK, BodiesAsSent
<1> QED
  BY <1>5, <1>7, <1>8, <1>9 DEF SessionInv

-----------------------------------------------------------------------------
\* The server takes a DATA packet.

\* What a DATA packet can be when the connection is established.
LEMMA DataCases ==
  ASSUME SessionInv, NEW p \in Packet, p.type = "DATA", UpItem(p),
         entry.state = "ESTABLISHED"
  PROVE  /\ p.body \in Fragment /\ p.id \in Nat /\ p.id >= 2 /\ p.id >= L
         /\ \/ /\ phase = "open" /\ p.id = pid /\ L <= pid
               /\ p.body = <<request, fragment>>
            \/ /\ phase = "open" /\ p.id = pid - 1 /\ L = pid - 1
               /\ fragment > 1 /\ p.body = <<request, fragment - 1>>
            \/ /\ phase = "open" /\ p.id = pid - 1 /\ L = pid - 1
               /\ Last(p.body) /\ b = <<>>
            \/ /\ phase \in {"disconnect", "done"} /\ p.id = L
               /\ Last(p.body) /\ b = <<>>
<1>1. TypeOK /\ EntryOK
  BY DEF SessionInv
<1>2. /\ p.body \in Fragment /\ p.id \in Nat /\ DataOK(p)
      /\ phase \in {"open", "disconnect", "done"}
  BY <1>1 DEF UpItem, UpTypes, Packet, TypeOK
<1>3. /\ L \in Nat /\ pid \in Nat /\ request \in Requests
      /\ fragment \in 1 .. FragmentsOf[request] /\ FragmentsOf[request] \in Nat \ {0}
  BY <1>1, Types
<1>4. CASE phase = "open"
  <2>1. /\ DataId = pid /\ pid >= 2 /\ L <= pid /\ BufferOK
        /\ (pid = 2 /\ fragment = 1) \/ L >= pid - 1
    BY <1>1, <1>4 DEF EntryOK, DataId
  <2>2. CASE p.id = pid /\ p.body = <<request, fragment>>
    BY <1>2, <1>4, <2>1, <2>2 DEF DataOK
  <2>3. CASE p.id = pid - 1 /\ fragment > 1 /\ p.body = <<request, fragment - 1>>
    BY <1>2, <1>3, <1>4, <2>1, <2>3 DEF DataOK
  <2>4. CASE p.id = pid - 1 /\ fragment = 1 /\ Last(p.body)
    <3>1. p.id >= 2 /\ p.id >= L
      BY <1>2 DEF DataOK
    <3>2. L = pid - 1
      BY <1>2, <1>3, <2>1, <2>4, <3>1
    <3>3. b = <<>>
      BY <1>3, <2>1, <2>4, <3>2 DEF BufferOK
    <3> QED
      BY <1>2, <1>4, <2>4, <3>1, <3>2, <3>3
  <2> QED
    BY <1>2, <2>1, <2>2, <2>3, <2>4 DEF DataOK
<1>5. CASE phase \in {"disconnect", "done"}
  <2>1. /\ DataId = pid - 1 /\ L = pid - 1 /\ b = <<>>
        /\ fragment = FragmentsOf[request]
    BY <1>1, <1>5 DEF EntryOK, DataId
  <2>2. p.id >= 2 /\ p.id = L /\ p.body = <<request, fragment>>
    BY <1>2, <1>3, <2>1 DEF DataOK
  <2>3. Last(p.body)
    BY <1>3, <2>1, <2>2 DEF Last
  <2> QED
    BY <1>2, <1>3, <1>5, <2>1, <2>2, <2>3
<1> QED
  BY <1>2, <1>4, <1>5

\* Where the latest fragment of the buffer stands, and what a packet adds.
LEMMA Advance ==
  ASSUME NEW r \in Requests, NEW k \in Nat, NEW m \in Nat, NEW f \in Seq(Fragment),
         NEW g, g = Append(f, <<r, k>>), <<r, k>> \in Fragment,
         f # <<>> => f[Len(f)] = <<r, m>> /\ k <= m + 1, Paced(f, r)
  PROVE  /\ g \in Seq(Fragment) /\ g # <<>> /\ Len(g) = Len(f) + 1
         /\ g[Len(g)] = <<r, k>>
         /\ Paced(g, r)
<1>1. /\ g \in Seq(Fragment) /\ g # <<>> /\ Len(g) = Len(f) + 1 /\ Len(f) \in Nat
      /\ \A i \in 1 .. Len(f) : g[i] = f[i]
      /\ g[Len(f) + 1] = <<r, k>>
  BY AppendFacts
<1>2. \A i \in 1 .. Len(f) : f[i][2] \in Nat
  <2>1. ASSUME NEW i \in 1 .. Len(f) PROVE f[i][2] \in Nat
    <3>1. f[i] \in Fragment
      OBVIOUS
    <3>2. f[i][1] \in Requests /\ f[i][2] \in 1 .. FragmentsOf[f[i][1]]
      BY <3>1, FragmentFacts
    <3> QED
      BY <3>1, <3>2 DEF Fragment
  <2> QED
    BY <2>1
<1>3. \A i \in 1 .. Len(g) : g[i][1] = r
  BY <1>1 DEF Paced
<1>4. ASSUME NEW i \in 1 .. Len(g), NEW j \in 1 .. Len(g), i <= j
      PROVE  g[j][2] - g[i][2] <= j - i
  <2>1. CASE j \in 1 .. Len(f)
    <3>1. i \in 1 .. Len(f) /\ g[i] = f[i] /\ g[j] = f[j]
      BY <1>1, <1>4, <2>1
    <3>2. f[j][2] - f[i][2] <= j - i
      BY <1>4, <2>1, <3>1 DEF Paced
    <3> QED
      BY <3>1, <3>2
  <2>2. CASE j = Len(f) + 1 /\ i = j
    BY <1>1, <2>2
  <2>3. CASE j = Len(f) + 1 /\ i \in 1 .. Len(f)
    <3>1. Len(f) \in 1 .. Len(f) /\ f # <<>> /\ f[Len(f)][2] = m /\ k <= m + 1
      BY <1>1, <2>3
    <3>2. m - f[i][2] <= Len(f) - i
      <4>1. f[Len(f)][2] - f[i][2] <= Len(f) - i
        BY <2>3, <3>1 DEF Paced
      <4> QED
        BY <3>1, <4>1
    <3>3. g[i] = f[i] /\ g[j][2] = k /\ f[i][2] \in Nat
      BY <1>1, <1>2, <2>3
    <3> QED
      BY <1>1, <2>3, <3>1, <3>2, <3>3
  <2> QED
    BY <1>1, <1>4, <2>1, <2>2, <2>3
<1> QED
  BY <1>1, <1>3, <1>4 DEF Paced

\* The buffer may take the packet in hand.
LEMMA Fits ==
  ASSUME SessionInv, phase = "open", NEW k \in Nat, NEW n \in Nat,
         NEW g, g = Append(b, <<request, k>>),
         \/ k = fragment /\ n = pid
         \/ k = fragment - 1 /\ fragment > 1 /\ n = pid - 1 /\ L = pid - 1
  PROVE  /\ g \in Seq(Fragment) /\ g # <<>> /\ Len(g) = Len(b) + 1
         /\ g[Len(g)] = <<request, k>>
         /\ Paced(g, request)
<1>1. /\ b \in Seq(Fragment) /\ request \in Requests
      /\ fragment \in 1 .. FragmentsOf[request] /\ FragmentsOf[request] \in Nat \ {0}
  BY Types DEF SessionInv
<1>2. BufferOK
  BY DEF SessionInv, EntryOK
<1>3. k \in 1 .. FragmentsOf[request] /\ <<request, k>> \in Fragment
  <2>1. k \in 1 .. FragmentsOf[request]
    BY <1>1
  <2> QED
    BY <1>1, <2>1, PairIsFragment
<1>4. PICK m \in Nat : b # <<>> => b[Len(b)] = <<request, m>> /\ k <= m + 1
  BY <1>1, <1>2 DEF BufferOK
<1>5. Paced(b, request)
  BY <1>2 DEF BufferOK
<1> QED
  BY <1>1, <1>3, <1>4, <1>5, Advance

\* A body that decodes is a whole request.
LEMMA Decoded ==
  ASSUME SessionInv, NEW p \in Packet, p.type = "DATA", UpItem(p),
         entry.state = "ESTABLISHED", Last(p.body), Decodes(Append(b, p.body))
  PROVE  /\ Append(b, p.body) \in Seq(Fragment)
         /\ \E r \in Requests : Append(b, p.body) = Whole(r)
<1> DEFINE g == Append(b, p.body)
<1>1. p.body \in Fragment /\ p.id \in Nat
  BY DataCases
<1>2. b \in Seq(Fragment) /\ \A r \in Requests : FragmentsOf[r] \in Nat \ {0}
  BY Types DEF SessionInv
<1>3. g \in Seq(Fragment)
  BY <1>1, <1>2, AppendFacts
<1>4. CASE b = <<>>
  <2>1. g = <<p.body>>
    BY <1>4
  <2>2. /\ p.body[1] \in Requests /\ p.body = <<p.body[1], p.body[2]>>
        /\ p.body[2] = 1 /\ FragmentsOf[p.body[1]] = 1
    <3>1. Len(g) = 1 /\ g[1] = p.body
      BY <2>1
    <3> QED
      BY <1>1, <3>1, FragmentFacts DEF Decodes
  <2>3. g = Whole(p.body[1])
    <3>1. g[1] = <<p.body[1], 1>> /\ Len(g) = 1 /\ g = [k \in 1 .. 1 |-> g[k]]
      BY <2>1, <2>2
    <3>2. g = [k \in 1 .. 1 |-> <<p.body[1], k>>]
      BY <3>1
    <3> QED
      BY <2>2, <3>2 DEF Whole
  <2> QED
    BY <1>3, <2>2, <2>3
<1>5. CASE b # <<>>
  <2>1. PICK k \in Nat :
          /\ phase = "open" /\ p.body = <<request, k>>
          /\ \/ k = fragment /\ p.id = pid
             \/ k = fragment - 1 /\ fragment > 1 /\ p.id = pid - 1 /\ L = pid - 1
    <3>1. fragment \in Nat \ {0}
      BY Types DEF SessionInv
    <3> QED
      BY <1>5, <3>1, DataCases
  <2>2. /\ g[Len(g)] = <<request, k>>
        /\ Paced(g, request)
    BY <1>1, <2>1, Fits
  <2>3. request \in Requests /\ k = FragmentsOf[request]
    BY <2>1, Types DEF Last, SessionInv
  <2>4. g[1][2] = 1 /\ Len(g) = FragmentsOf[request]
    <3>1. Len(g) \in Nat \ {0} /\ g[1][1] = request
      BY <1>1, <1>2, <2>2, AppendFacts DEF Paced
    <3> QED
      BY <3>1 DEF Decodes
  <2> HIDE DEF g
  <2>5. g = Whole(request)
    BY <1>2, <1>3, <2>2, <2>3, <2>4, Assembled
  <2> QED
    BY <1>3, <2>3, <2>5 DEF g
<1> QED
  BY <1>4, <1>5


\* What HandleData does to the connection, the handlers and the console.
LEMMA DataEffect ==
  ASSUME SessionInv, HandleData, entry.state = "ESTABLISHED",
         NEW p, p = Head(up), p \in Packet, p.body \in Fragment, p.id >= L,
         NEW body, body = Append(b, p.body)
  PROVE  /\ \E f \in Seq(Fragment), n \in Nat \ {0} :
              /\ entry' = [state |-> "ESTABLISHED", server_conn_sig |-> entry.server_conn_sig,
                           fragment_buffer |-> f, last_client_pid |-> p.id,
                           outgoing_reliable_seq |-> n]
              /\ \/ ~Last(p.body) /\ f = body /\ UNCHANGED ran
                 \/ Last(p.body) /\ f = <<>> /\ ~Decodes(body) /\ UNCHANGED ran
                 \/ Last(p.body) /\ f = <<>> /\ Decodes(body) /\ ran' = Append(ran, body)
         /\ \E t \in Seq(Packet) :
              /\ Replies(t)
              /\ \A y \in Packet : Under(t, y) =>
                   y.type = "REPLY" \/ (y.type = "DATA+ACK" /\ y.id = p.id)
<1> DEFINE acked == [entry EXCEPT !.last_client_pid = IF p.id > @ THEN p.id ELSE @]
           ack == Plain("DATA+ACK", NoSig, p.id)
           n == entry.outgoing_reliable_seq
           After(f, k) == [state |-> "ESTABLISHED", server_conn_sig |-> entry.server_conn_sig,
                           fragment_buffer |-> f, last_client_pid |-> p.id,
                           outgoing_reliable_seq |-> k]
<1>1. \/ /\ ~Last(p.body)
         /\ entry' = [acked EXCEPT !.fragment_buffer = body]
         /\ Replies(<<ack>>)
         /\ UNCHANGED ran
      \/ Last(p.body) /\ on_payload(Flushed(acked), ack, body)
  BY DEF HandleData, b
<1>2. /\ b \in Seq(Fragment) /\ L \in Nat /\ p.id \in Nat /\ n \in Nat \ {0}
      /\ entry \in [state : {"none", "SYN_RECV", "ESTABLISHED"},
                    server_conn_sig : Sigs \cup {NoSig}, fragment_buffer : Seq(Fragment),
                    last_client_pid : Nat, outgoing_reliable_seq : Nat \ {0}]
  <2>1. TypeOK
    BY DEF SessionInv
  <2> QED
    BY <2>1, Types DEF TypeOK, Packet
<1>3. body \in Seq(Fragment)
  BY <1>2, AppendFacts
<1>4. ack \in Packet /\ ack.type = "DATA+ACK" /\ ack.id = p.id
  <2>1. p.id \in Nat /\ NoSig \in Sigs \cup {NoSig}
    BY <1>2
  <2> HIDE DEF acked, n
  <2> QED
    BY <2>1 DEF Plain, Packet
<1>5. acked = [entry EXCEPT !.last_client_pid = p.id]
  BY <1>2 DEF L
<1> HIDE DEF acked, ack
<1>6. acked = After(b, n)
  BY <1>2, <1>5 DEF b
<1>7. Flushed(acked) = After(<<>>, n)
  BY <1>6 DEF Flushed
<1>8. <<ack>> \in Seq(Packet) /\ \A y : Under(<<ack>>, y) => y = ack
  BY <1>4 DEF Under
<1>9. CASE /\ ~Last(p.body)
           /\ entry' = [acked EXCEPT !.fragment_buffer = body]
           /\ Replies(<<ack>>)
           /\ UNCHANGED ran
  <2>1. entry' = After(body, n)
    BY <1>6, <1>9
  <2> HIDE DEF n
  <2> QED
    BY <1>2, <1>3, <1>4, <1>8, <1>9, <2>1
<1>10. CASE Last(p.body) /\ on_payload(Flushed(acked), ack, body)
  <2> DEFINE c == Flushed(acked)
             reply == Reply(c)
  <2>1. reply \in Packet /\ reply.type = "REPLY"
    <3>1. c.outgoing_reliable_seq \in Nat
      BY <1>2, <1>7
    <3> HIDE DEF c
    <3> QED
      BY <3>1, PlainFacts DEF Reply
  <2>2. \/ ~Decodes(body) /\ entry' = c /\ Replies(<<ack>>) /\ UNCHANGED ran
        \/ /\ Decodes(body) /\ entry' = [c EXCEPT !.outgoing_reliable_seq = @ + 1]
           /\ Replies(<<ack, reply>>) /\ ran' = Append(ran, body)
    BY <1>10 DEF on_payload
  <2>3. c = After(<<>>, n)
    BY <1>7
  <2> HIDE DEF reply, c
  <2>4. /\ <<ack, reply>> \in Seq(Packet)
        /\ \A y : Under(<<ack, reply>>, y) => y \in {ack, reply}
    BY <1>4, <2>1 DEF Under
  <2>5. <<>> \in Seq(Fragment) /\ n + 1 \in Nat \ {0}
    BY <1>2
  <2>6. CASE ~Decodes(body) /\ entry' = c /\ Replies(<<ack>>) /\ UNCHANGED ran
    <3> HIDE DEF n
    <3> QED
      BY <1>2, <1>4, <1>8, <1>10, <2>3, <2>5, <2>6
  <2>7. CASE /\ Decodes(body) /\ entry' = [c EXCEPT !.outgoing_reliable_seq = @ + 1]
             /\ Replies(<<ack, reply>>) /\ ran' = Append(ran, body)
    <3>1. entry' = After(<<>>, n + 1)
      BY <2>3, <2>7
    <3> HIDE DEF n
    <3> QED
      BY <1>4, <1>10, <2>1, <2>4, <2>5, <2>7, <3>1
  <2> QED
    BY <2>2, <2>6, <2>7
<1> QED
  BY <1>1, <1>9, <1>10

LEMMA DataStep ==
  ASSUME SessionInv, HandleData
  PROVE  SessionInv'
<1> DEFINE p == Head(up)
           body == Append(b, p.body)
<1>1. /\ TypeOK /\ UpOK /\ DownOK /\ EntryOK /\ BodiesAsSent
      /\ up # <<>> /\ up' = Tail(up) /\ p.type = "DATA"
      /\ UNCHANGED <<phase, sig, request, fragment, pid, tries, repeated, faults>>
  BY DEF SessionInv, HandleData, Arrives, console
<1>2. /\ 1 \in 1 .. Len(up) /\ p = up[1] /\ p \in Packet /\ UpItem(p)
      /\ up \in Seq(Packet) /\ Len(up) \in Nat /\ p.id \in Nat
  <2>1. 1 \in 1 .. Len(up) /\ p = up[1] /\ p \in Packet /\ up \in Seq(Packet) /\ Len(up) \in Nat
    BY <1>1, Types, TailFacts
  <2> QED
    BY <1>1, <2>1 DEF UpOK, Packet
<1> HIDE DEF p, body
<1>3. \A i \in 2 .. Len(up) : up[i].type = "DATA" => up[i].id >= p.id /\ up[i].id >= L
  <2>1. ASSUME NEW i \in 2 .. Len(up), up[i].type = "DATA" PROVE p.id <= up[i].id
    BY <1>1, <1>2, <2>1 DEF UpOK, InOrder
  <2>2. ASSUME NEW i \in 2 .. Len(up), up[i].type = "DATA"
        PROVE  up[i].id \in Nat /\ up[i].id >= L
    <3>1. up[i] \in Packet /\ UpItem(up[i])
      BY <1>1, <1>2 DEF UpOK
    <3> QED
      BY <2>2, <3>1 DEF Packet, UpItem, DataOK
  <2> QED
    BY <1>2, <2>1, <2>2
<1>4. phase \in {"open", "disconnect", "done"}
  BY <1>1, <1>2 DEF UpItem, UpTypes, TypeOK
<1>5. CASE entry.state # "ESTABLISHED"
  <2>1. UNCHANGED <<entry, down, ran>> /\ UNCHANGED b /\ UNCHANGED L
    BY <1>5 DEF HandleData, b, L
  <2>2. UpOK' /\ up' \in Seq(Packet) /\ (NoSyn => NoSyn')
    BY <1>1, <1>3, <2>1, UpTail
  <2>3. \A y \in Packet : DownItem(y) => DownItem(y)'
    BY <1>1, <2>1, <2>2 DEF DownItem, DownTypes
  <2>4. DownOK' /\ down' \in Seq(Packet)
    BY <1>1, <2>1, <2>3, DownKept
  <2>5. EntryOK'
    BY <1>1, <1>4, <2>1 DEF EntryOK, BufferOK
  <2>6. TypeOK' /\ BodiesAsSent'
    BY <1>1, <2>1, <2>2 DEF TypeOK, BodiesAsSent
  <2> QED
    BY <2>2, <2>4, <2>5, <2>6 DEF SessionInv
<1>6. CASE entry.state = "ESTABLISHED"
  <2>1. /\ p.body \in Fragment /\ p.id \in Nat /\ p.id >= 2 /\ p.id >= L /\ L \in Nat
        /\ b \in Seq(Fragment)
    BY <1>1, <1>2, <1>6, DataCases, Types
  <2>2. PICK f \in Seq(Fragment), n \in Nat \ {0} :
          /\ entry' = [state |-> "ESTABLISHED", server_conn_sig |-> entry.server_conn_sig,
                       fragment_buffer |-> f, last_client_pid |-> p.id,
                       outgoing_reliable_seq |-> n]
          /\ \/ ~Last(p.body) /\ f = body /\ UNCHANGED ran
             \/ Last(p.body) /\ f = <<>> /\ ~Decodes(body) /\ UNCHANGED ran
             \/ Last(p.body) /\ f = <<>> /\ Decodes(body) /\ ran' = Append(ran, body)
    BY <1>2, <1>6, <2>1, DataEffect DEF p, body
  <2>3. /\ entry'.state = "ESTABLISHED" /\ L' = p.id /\ b' = f
        /\ entry' \in [state : {"none", "SYN_RECV", "ESTABLISHED"},
                       server_conn_sig : Sigs \cup {NoSig}, fragment_buffer : Seq(Fragment),
                       last_client_pid : Nat, outgoing_reliable_seq : Nat \ {0}]
    <3>1. entry.server_conn_sig \in Sigs \cup {NoSig}
      BY <1>1 DEF TypeOK
    <3> QED
      BY <2>1, <2>2, <3>1 DEF b, L
  <2>4. UpOK' /\ up' \in Seq(Packet) /\ (NoSyn => NoSyn')
    BY <1>1, <1>3, <2>3, UpTail
  <2>5. DownOK' /\ down' \in Seq(Packet)
    <3>1. \A y \in Packet : DownItem(y) => DownItem(y)'
      <4>1. \A y \in Packet : y.id \in Nat
        BY DEF Packet
      <4> QED
        BY <1>1, <1>4, <1>6, <2>1, <2>3, <4>1 DEF DownItem, DownTypes
    <3>2. PICK t \in Seq(Packet) : Replies(t) /\
             \A y \in Packet : Under(t, y) =>
               y.type = "REPLY" \/ (y.type = "DATA+ACK" /\ y.id = p.id)
      BY <1>2, <1>6, <2>1, DataEffect DEF p, body
    <3>3. \A y \in Packet : Under(t, y) => DownItem(y)'
      BY <1>1, <1>4, <2>1, <2>3, <3>2 DEF DownItem, DownTypes
    <3> QED
      BY <1>1, <3>1, <3>2, <3>3, DownReplies
  <2>6. EntryOK'
    <3>1. CASE phase # "open"
      <4>1. Last(p.body) /\ p.id = L
        BY <1>1, <1>2, <1>6, <3>1, DataCases
      <4>2. b' = <<>> /\ L' = L
        BY <2>2, <2>3, <4>1
      <4>3. /\ phase \in {"disconnect", "done"} /\ L = pid - 1
            /\ fragment = FragmentsOf[request]
        BY <1>1, <1>4, <1>6, <3>1 DEF EntryOK
      <4> QED
        BY <1>1, <2>3, <4>2, <4>3 DEF EntryOK
    <3>2. CASE phase = "open"
      <4>1. /\ pid \in Nat /\ pid >= 2 /\ L <= pid /\ BufferOK
            /\ (pid = 2 /\ fragment = 1) \/ L >= pid - 1
            /\ fragment \in 1 .. FragmentsOf[request] /\ FragmentsOf[request] \in Nat \ {0}
        BY <1>1, <3>2, Types DEF EntryOK
      <4>2. L' <= pid /\ ((pid = 2 /\ fragment = 1) \/ L' >= pid - 1)
        <5>1. p.id = pid \/ (p.id = pid - 1 /\ L = pid - 1)
          BY <1>1, <1>2, <1>6, <3>2, DataCases
        <5> QED
          BY <2>3, <4>1, <5>1
      <4>3. BufferOK'
        <5>1. CASE Last(p.body)
          <6>1. b' = <<>> /\ Len(b') = 0
            BY <2>2, <2>3, <5>1
          <6> QED
            BY <6>1 DEF BufferOK, Paced
        <5>2. CASE ~Last(p.body)
          <6>1. PICK k \in Nat :
                  /\ p.body = <<request, k>>
                  /\ \/ k = fragment /\ p.id = pid
                     \/ k = fragment - 1 /\ fragment > 1 /\ p.id = pid - 1 /\ L = pid - 1
            BY <1>1, <1>2, <1>6, <3>2, <4>1, <5>2, DataCases
          <6>2. /\ b' = body /\ b' # <<>> /\ b'[Len(b')] = <<request, k>>
                /\ Paced(b', request)
            BY <1>2, <2>2, <2>3, <3>2, <5>2, <6>1, Fits DEF body
          <6>3. k # FragmentsOf[request]
            BY <5>2, <6>1 DEF Last
          <6> QED
            BY <1>1, <2>3, <4>1, <6>1, <6>2, <6>3 DEF BufferOK
        <5> QED
          BY <5>1, <5>2
      <4> QED
        BY <1>1, <2>3, <3>2, <4>1, <4>2, <4>3 DEF EntryOK
    <3> QED
      BY <3>1, <3>2
  <2>7. ran' \in Seq(Seq(Fragment)) /\ BodiesAsSent'
    <3>1. ran \in Seq(Seq(Fragment))
      BY <1>1, Types
    <3>2. CASE UNCHANGED ran
      BY <1>1, <3>1, <3>2 DEF BodiesAsSent
    <3>3. CASE Last(p.body) /\ Decodes(body) /\ ran' = Append(ran, body)
      <4>1. body \in Seq(Fragment) /\ \E r \in Requests : body = Whole(r)
        BY <1>1, <1>2, <1>6, <3>3, Decoded DEF body
      <4>2. /\ ran' \in Seq(Seq(Fragment)) /\ Len(ran') = Len(ran) + 1 /\ Len(ran) \in Nat
            /\ \A i \in 1 .. Len(ran) : ran'[i] = ran[i]
            /\ ran'[Len(ran) + 1] = body
        BY <3>1, <3>3, <4>1, AppendFacts
      <4>3. DOMAIN ran = 1 .. Len(ran) /\ DOMAIN ran' = 1 .. (Len(ran) + 1)
        BY <3>1, <4>2
      <4>4. ASSUME NEW k \in DOMAIN ran' PROVE \E r \in Requests : ran'[k] = Whole(r)
        <5>1. CASE k = Len(ran) + 1
          BY <4>1, <4>2, <5>1
        <5>2. CASE k \in DOMAIN ran /\ ran'[k] = ran[k]
          BY <1>1, <5>2 DEF BodiesAsSent
        <5> QED
          BY <4>2, <4>3, <5>1, <5>2
      <4> QED
        BY <4>2, <4>4 DEF BodiesAsSent
    <3> QED
      BY <2>2, <3>2, <3>3
  <2>8. TypeOK'
    BY <1>1, <2>3, <2>4, <2>5, <2>7 DEF TypeOK
  <2> QED
    BY <2>4, <2>5, <2>6, <2>7, <2>8 DEF SessionInv
<1> QED
  BY <1>5, <1>6

-----------------------------------------------------------------------------
\* The console's actions.

LEMMA ConnectsStep ==
  ASSUME SessionInv, Connects
  PROVE  SessionInv'
<1> DEFINE x == Plain("SYN", NoSig, 0)
<1>1. /\ TypeOK /\ UpOK /\ DownOK /\ EntryOK /\ BodiesAsSent
      /\ phase = "closed" /\ up = <<>> /\ down = <<>>
      /\ phase' = "syn" /\ sig' = NoSig /\ request' = request /\ fragment' = 1 /\ pid' = 0
      /\ tries' = 0
      /\ up' = Append(up, x)
      /\ UNCHANGED <<entry, down, ran, repeated, faults>>
  BY DEF SessionInv, Connects, Sends, Waiting, EntryOK
<1>2. x \in Packet /\ x.type = "SYN"
  BY PlainFacts
<1> HIDE DEF x
<1>3. up' = <<x>> /\ up' \in Seq(Packet)
  BY <1>1, <1>2
<1>4. UpOK' /\ DownOK' /\ EntryOK'
  BY <1>1, <1>2, <1>3 DEF UpOK, UpItem, UpTypes, InOrder, DownOK, EntryOK
<1>5. TypeOK' /\ BodiesAsSent'
  <2>1. 1 \in 1 .. FragmentsOf[request] /\ MaxTries \in Nat
    BY <1>1, Types, SessionAssumption
  <2> QED
    BY <1>1, <1>3, <2>1 DEF TypeOK, BodiesAsSent
<1> QED
  BY <1>4, <1>5 DEF SessionInv

LEMMA IgnoredStep ==
  ASSUME SessionInv, Ignored
  PROVE  SessionInv'
<1>1. /\ TypeOK /\ UpOK /\ DownOK /\ EntryOK /\ BodiesAsSent
      /\ down # <<>> /\ down' = Tail(down)
      /\ UNCHANGED <<entry, phase, sig, request, fragment, pid, tries, up, ran,
                     repeated, faults>>
      /\ UNCHANGED b /\ UNCHANGED L
  BY DEF SessionInv, Ignored, console, b, L
<1>2. DownOK' /\ down' \in Seq(Packet)
  <2>1. \A y \in Packet : DownItem(y) => DownItem(y)'
    BY <1>1 DEF DownItem, DownTypes, NoSyn
  <2> QED
    BY <1>1, <2>1, DownTail
<1>3. UpOK' /\ EntryOK'
  BY <1>1, <1>2 DEF UpOK, UpItem, UpTypes, DataOK, DataId, EntryOK, BufferOK
<1>4. TypeOK' /\ BodiesAsSent'
  BY <1>1, <1>2 DEF TypeOK, BodiesAsSent
<1> QED
  BY <1>2, <1>3, <1>4 DEF SessionInv

\* An acknowledgement has been taken, and the packet sent suits the others.
Suits(ph, s, r, k, n) ==
  /\ down # <<>> /\ down' = Tail(down) /\ UNCHANGED <<entry, ran, repeated, faults>>
  /\ phase \in {"syn", "connect", "open"} /\ (ph = "connect" <=> phase = "syn")
  /\ \A y \in Packet : y = Waiting(ph, s, r, k, n) => UpItem(y)'
  /\ \A y \in Packet : Under(up, y) /\ UpItem(y) =>
       UpItem(y)' /\ (y.type = "DATA" /\ ph = "open" => y.id <= n)
  /\ EntryOK'

LEMMA SendStep ==
  ASSUME SessionInv, NEW ph \in {"connect", "open", "disconnect"},
         NEW s \in Sigs \cup {NoSig}, NEW r \in Requests, NEW k \in 1 .. FragmentsOf[r],
         NEW n \in Nat, Sends(ph, s, r, k, n), Suits(ph, s, r, k, n)
  PROVE  SessionInv'
<1> DEFINE x == Waiting(ph, s, r, k, n)
<1>1. /\ TypeOK /\ UpOK /\ DownOK /\ EntryOK /\ BodiesAsSent
      /\ phase' = ph /\ sig' = s /\ request' = r /\ fragment' = k /\ pid' = n /\ tries' = 0
      /\ up' = Append(up, x) /\ UNCHANGED b /\ UNCHANGED L
      /\ down # <<>> /\ down' = Tail(down) /\ UNCHANGED <<entry, ran, repeated, faults>>
      /\ phase \in {"syn", "connect", "open"} /\ (ph = "connect" <=> phase = "syn")
      /\ EntryOK'
  BY DEF SessionInv, Sends, Suits, b, L
<1>2. /\ x \in Packet /\ x.type \in {"CONNECT", "DATA", "DISCONNECT"}
      /\ x.type = "DATA" => ph = "open" /\ x.id = n
  <2>1. FragmentsOf[r] \in Nat
    BY <1>1, Types
  <2>2. <<r, k>> \in Fragment
    BY <2>1, PairIsFragment
  <2>3. CASE ph = "open"
    <3>1. x = [type |-> "DATA", sig |-> NoSig, id |-> n, body |-> <<r, k>>]
      BY <2>3 DEF Waiting
    <3> QED
      BY <2>2, <2>3, <3>1 DEF Packet
  <2>4. CASE ph = "connect"
    <3>1. x = Plain("CONNECT", s, 1)
      BY <2>4 DEF Waiting
    <3> QED
      BY <2>4, <3>1 DEF Packet, Plain
  <2>5. CASE ph = "disconnect"
    <3>1. x = Plain("DISCONNECT", NoSig, n)
      BY <2>5 DEF Waiting
    <3> QED
      BY <2>5, <3>1 DEF Packet, Plain
  <2> QED
    BY <2>3, <2>4, <2>5
<1>3. UpItem(x)'
  <2>1. \A y \in Packet : y = x => UpItem(y)'
    BY DEF Suits
  <2> HIDE DEF x
  <2> QED
    BY <1>2, <2>1
<1> HIDE DEF x
<1>4. UpOK' /\ up' \in Seq(Packet)
  <2>1. \A y \in Packet : Under(up, y) => UpItem(y)
    BY <1>1 DEF UpOK, Under
  <2>2. \A y \in Packet : Under(up, y) => UpItem(y)' /\ InOrder(y, x)
    BY <1>2, <2>1 DEF InOrder, Suits
  <2> QED
    BY <1>1, <1>2, <1>3, <2>2, UpSend
<1>5. DownOK' /\ down' \in Seq(Packet)
  <2>1. \A y \in Packet : DownItem(y) => DownItem(y)'
    BY <1>1 DEF DownItem, DownTypes
  <2> QED
    BY <1>1, <2>1, DownTail
<1>6. TypeOK' /\ BodiesAsSent'
  <2>1. MaxTries \in Nat
    BY SessionAssumption
  <2> QED
    BY <1>1, <1>4, <1>5, <2>1 DEF TypeOK, BodiesAsSent
<1> QED
  BY <1>1, <1>4, <1>5, <1>6 DEF SessionInv

LEMMA AcknowledgedStep ==
  ASSUME SessionInv, Acknowledged
  PROVE  SessionInv'
<1> DEFINE d == Head(down)
<1>1. /\ TypeOK /\ UpOK /\ DownOK /\ EntryOK /\ BodiesAsSent
      /\ down # <<>> /\ down' = Tail(down)
      /\ UNCHANGED <<entry, ran, repeated, faults>>
      /\ UNCHANGED b /\ UNCHANGED L
  BY DEF SessionInv, Acknowledged, Answers, b, L
<1>2. d \in Packet /\ DownItem(d)
  <2>1. 1 \in 1 .. Len(down) /\ d = down[1] /\ d \in Packet
    BY <1>1, Types, TailFacts
  <2> QED
    BY <1>1, <2>1 DEF DownOK
<1>3. /\ request \in Requests /\ fragment \in 1 .. FragmentsOf[request] /\ pid \in Nat
      /\ L \in Nat /\ \A r \in Requests : FragmentsOf[r] \in Nat \ {0}
      /\ sig \in Sigs \cup {NoSig} /\ d.sig \in Sigs \cup {NoSig}
      /\ request \in Nat
  <2>1. sig \in Sigs \cup {NoSig} /\ d.sig \in Sigs \cup {NoSig}
    BY <1>1, <1>2 DEF TypeOK, Packet
  <2>2. /\ request \in Requests /\ fragment \in 1 .. FragmentsOf[request] /\ pid \in Nat
        /\ L \in Nat /\ \A r \in Requests : FragmentsOf[r] \in Nat \ {0}
        /\ Requests = 1 .. Len(FragmentsOf) /\ Len(FragmentsOf) \in Nat
    BY <1>1, Types
  <2> QED
    BY <2>1, <2>2
<1>4. \A y \in Packet : y.id \in Nat /\ (Under(up, y) => UpItem(y))
  BY <1>1 DEF Packet, UpOK, Under
<1>5. CASE /\ phase = "syn" /\ d.type = "SYN+ACK"
           /\ Sends("connect", d.sig, request, fragment, 1)
  <2>1. /\ phase' = "connect" /\ request' = request /\ fragment' = fragment /\ fragment = 1
        /\ entry.state = "SYN_RECV" /\ b = <<>> /\ L = 0
    BY <1>1, <1>2, <1>5 DEF DownItem, Sends, EntryOK
  <2>2. EntryOK'
    BY <1>1, <2>1 DEF EntryOK
  <2>3. \A y \in Packet :
          y = Waiting("connect", d.sig, request, fragment, 1) => UpItem(y)'
    BY <2>1 DEF UpItem, UpTypes, Waiting, Plain
  <2>4. \A y \in Packet : Under(up, y) => UpItem(y)'
    BY <1>4, <1>5, <2>1 DEF UpItem, UpTypes
  <2> QED
    <3>1. Suits("connect", d.sig, request, fragment, 1)
      BY <1>1, <1>5, <2>2, <2>3, <2>4 DEF Suits
    <3> QED
      BY <1>3, <1>5, <3>1, SendStep
<1>6. CASE /\ phase = "connect" /\ d.type = "CONNECT+ACK"
           /\ Sends("open", sig, request, fragment, 2)
  <2>1. /\ phase' = "open" /\ request' = request /\ fragment' = fragment /\ fragment = 1
        /\ pid' = 2
        /\ entry.state = "ESTABLISHED" /\ b = <<>> /\ L = 0 /\ NoSyn
    BY <1>1, <1>2, <1>6 DEF DownItem, Sends, EntryOK
  <2>2. EntryOK'
    <3>1. BufferOK'
      <4>1. b' = <<>> /\ Len(b') = 0
        BY <1>1, <2>1
      <4> QED
        BY <4>1 DEF BufferOK, Paced
    <3> QED
      BY <1>1, <2>1, <3>1 DEF EntryOK
  <2>3. \A y \in Packet :
          y = Waiting("open", sig, request, fragment, 2) => UpItem(y)'
    <3>1. ASSUME NEW y \in Packet, y = Waiting("open", sig, request, fragment, 2)
          PROVE  y.type = "DATA" /\ y.id = 2 /\ y.body = <<request, fragment>>
      BY <3>1 DEF Waiting
    <3>2. <<request, fragment>> \in Fragment
      BY <1>3, PairIsFragment
    <3> QED
      BY <1>1, <2>1, <3>1, <3>2 DEF UpItem, UpTypes, DataOK, DataId
  <2>4. \A y \in Packet : Under(up, y) => UpItem(y)' /\ y.type # "DATA"
    <3>1. \A y \in Packet : Under(up, y) => y.type \notin {"SYN", "DATA"} /\ UpItem(y)
      BY <1>4, <1>6, <2>1 DEF Under, UpItem, UpTypes, NoSyn
    <3> QED
      BY <1>6, <2>1, <3>1 DEF UpItem, UpTypes
  <2> QED
    <3>1. Suits("open", sig, request, fragment, 2)
      BY <1>1, <1>6, <2>2, <2>3, <2>4 DEF Suits
    <3> QED
      BY <1>3, <1>6, <3>1, SendStep
<1>7. CASE phase = "open" /\ d.type = "DATA+ACK" /\ d.id = pid /\ Proceeds
  <2>1. /\ entry.state = "ESTABLISHED" /\ L = pid /\ pid >= 2 /\ BufferOK
    BY <1>1, <1>2, <1>3, <1>7 DEF DownItem, EntryOK
  <2>2. ASSUME NEW y \in Packet, Under(up, y), y.type = "DATA"
        PROVE  /\ y.id = pid /\ y.body = <<request, fragment>> /\ y.body \in Fragment
    BY <1>3, <1>4, <1>7, <2>1, <2>2 DEF UpItem, DataOK, DataId
  <2>3. \A y \in Packet : Under(up, y) => y.type \in {"CONNECT", "DATA"}
    BY <1>4, <1>7 DEF UpItem, UpTypes
  <2>4. ASSUME NEW r \in Requests, NEW k \in 1 .. FragmentsOf[r],
               Sends("open", sig, r, k, pid + 1),
               \/ r = request /\ k = fragment + 1
               \/ fragment = FragmentsOf[request] /\ k = 1
        PROVE  SessionInv'
    <3>1. /\ phase' = "open" /\ request' = r /\ fragment' = k /\ pid' = pid + 1
          /\ FragmentsOf[r] \in Nat \ {0} /\ k \in Nat \ {0} /\ fragment \in Nat \ {0}
      BY <1>3, <2>4 DEF Sends
    <3>2. BufferOK'
      <4>1. CASE b = <<>>
        <5>1. b' = <<>> /\ Len(b') = 0
          BY <1>1, <4>1
        <5> QED
          BY <5>1 DEF BufferOK, Paced
      <4>2. CASE b # <<>>
        <5>1. /\ Paced(b, request) /\ fragment < FragmentsOf[request]
              /\ b[Len(b)] = <<request, fragment>>
          BY <1>3, <2>1, <4>2 DEF BufferOK
        <5>2. r = request /\ k = fragment + 1 /\ k - 1 = fragment /\ k > 1
          BY <1>3, <2>4, <3>1, <5>1
        <5> QED
          BY <1>1, <1>3, <2>1, <3>1, <5>1, <5>2 DEF BufferOK
      <4> QED
        BY <4>1, <4>2
    <3>3. EntryOK'
      BY <1>1, <1>3, <2>1, <3>1, <3>2 DEF EntryOK
    <3>4. \A y \in Packet : y = Waiting("open", sig, r, k, pid + 1) => UpItem(y)'
      <4>1. ASSUME NEW y \in Packet, y = Waiting("open", sig, r, k, pid + 1)
            PROVE  y.type = "DATA" /\ y.id = pid + 1 /\ y.body = <<r, k>>
        BY <4>1 DEF Waiting
      <4>2. <<r, k>> \in Fragment
        BY <3>1, PairIsFragment
      <4>3. DataId' = pid + 1 /\ L' = pid /\ pid + 1 \in Nat /\ pid + 1 >= 2
        BY <1>1, <1>3, <2>1, <3>1 DEF DataId
      <4>4. ASSUME NEW y \in Packet, y = Waiting("open", sig, r, k, pid + 1)
            PROVE  DataOK(y)'
        <5>1. y.id = pid + 1 /\ y.body = <<r, k>>
          BY <4>1, <4>4
        <5> QED
          BY <1>3, <3>1, <4>3, <5>1 DEF DataOK
      <4> QED
        BY <3>1, <4>1, <4>2, <4>4 DEF UpItem, UpTypes
    <3>5. \A y \in Packet : Under(up, y) =>
            UpItem(y)' /\ (y.type = "DATA" => y.id <= pid + 1)
      <4>1. ASSUME NEW y \in Packet, Under(up, y), y.type = "DATA"
            PROVE  DataOK(y)' /\ y.id <= pid + 1
        <5>1. /\ y.id = pid /\ y.body = <<request, fragment>> /\ DataId' = pid + 1
              /\ L' = pid
          BY <1>1, <2>1, <2>2, <3>1, <4>1 DEF DataId
        <5>2. CASE r = request /\ k = fragment + 1
          <6>1. k - 1 = fragment /\ k > 1
            BY <3>1, <5>2
          <6> QED
            BY <1>3, <2>1, <3>1, <5>1, <5>2, <6>1 DEF DataOK
        <5>3. CASE fragment = FragmentsOf[request] /\ k = 1
          <6>1. Last(y.body)
            BY <5>1, <5>3 DEF Last
          <6> QED
            BY <1>3, <2>1, <3>1, <5>1, <5>3, <6>1 DEF DataOK
        <5> QED
          BY <2>4, <5>2, <5>3
      <4>2. ASSUME NEW y \in Packet, Under(up, y)
            PROVE  UpItem(y)' /\ (y.type = "DATA" => y.id <= pid + 1)
        <5>1. y.type \in {"CONNECT", "DATA"} /\ (y.type = "DATA" => y.body \in Fragment)
          BY <2>2, <2>3, <4>2
        <5> QED
          BY <3>1, <4>1, <4>2, <5>1 DEF UpItem, UpTypes
      <4> QED
        BY <4>2
    <3>6. pid + 1 \in Nat
      BY <1>3
    <3>7. Suits("open", sig, r, k, pid + 1)
      BY <1>1, <1>7, <3>3, <3>4, <3>5 DEF Suits
    <3> QED
      BY <1>3, <2>4, <3>6, <3>7, SendStep
  <2>5. ASSUME fragment = FragmentsOf[request],
               Sends("disconnect", sig, request, fragment, pid + 1)
        PROVE  SessionInv'
    <3>1. /\ phase' = "disconnect" /\ request' = request /\ fragment' = fragment
          /\ pid' = pid + 1 /\ b = <<>>
      BY <1>3, <2>1, <2>5 DEF Sends, BufferOK
    <3>2. EntryOK'
      BY <1>1, <1>3, <2>1, <2>5, <3>1 DEF EntryOK
    <3>3. \A y \in Packet :
            y = Waiting("disconnect", sig, request, fragment, pid + 1) => UpItem(y)'
      BY <3>1 DEF UpItem, UpTypes, Waiting, Plain
    <3>4. \A y \in Packet : Under(up, y) => UpItem(y)'
      <4>1. DataId' = pid /\ L' = pid
        BY <1>1, <1>3, <2>1, <3>1 DEF DataId
      <4>2. ASSUME NEW y \in Packet, Under(up, y), y.type = "DATA" PROVE DataOK(y)'
        BY <1>3, <2>1, <2>2, <3>1, <4>1, <4>2 DEF DataOK
      <4>3. ASSUME NEW y \in Packet, Under(up, y) PROVE UpItem(y)'
        <5>1. y.type \in {"CONNECT", "DATA"} /\ (y.type = "DATA" => y.body \in Fragment)
          BY <2>2, <2>3, <4>3
        <5> QED
          BY <3>1, <4>2, <4>3, <5>1 DEF UpItem, UpTypes
      <4> QED
        BY <4>3
    <3>5. pid + 1 \in Nat
      BY <1>3
    <3>6. Suits("disconnect", sig, request, fragment, pid + 1)
      BY <1>1, <1>7, <3>2, <3>3, <3>4 DEF Suits
    <3> QED
      BY <1>3, <2>5, <3>5, <3>6, SendStep
  <2>6. CASE fragment < FragmentsOf[request]
    <3>1. Sends("open", sig, request, fragment + 1, pid + 1)
      BY <1>7, <2>6 DEF Proceeds
    <3>2. fragment + 1 \in 1 .. FragmentsOf[request]
      BY <1>3, <2>6
    <3> QED
      BY <1>3, <2>4, <3>1, <3>2
  <2>7. CASE ~(fragment < FragmentsOf[request])
    <3>1. fragment = FragmentsOf[request]
      BY <1>3, <2>7
    <3>2. CASE request + 1 \in Requests
      <4>1. Sends("open", sig, request + 1, 1, pid + 1)
        BY <1>7, <2>7, <3>2 DEF Proceeds
      <4>2. 1 \in 1 .. FragmentsOf[request + 1]
        BY <1>3, <3>2
      <4> QED
        BY <2>4, <3>1, <3>2, <4>1, <4>2
    <3>3. CASE request + 1 \notin Requests
      BY <1>7, <2>5, <2>7, <3>1, <3>3 DEF Proceeds
    <3> QED
      BY <3>2, <3>3
  <2> QED
    BY <2>6, <2>7
<1>8. CASE /\ phase = "disconnect"
           /\ phase' = "done"
           /\ UNCHANGED <<sig, request, fragment, pid, tries, up>>
  <2>1. UpOK' /\ EntryOK'
    BY <1>1, <1>8 DEF UpOK, UpItem, UpTypes, DataOK, DataId, EntryOK
  <2>2. DownOK' /\ down' \in Seq(Packet)
    <3>1. \A y \in Packet : DownItem(y) => DownItem(y)'
      BY <1>1, <1>8 DEF DownItem, DownTypes
    <3> QED
      BY <1>1, <3>1, DownTail
  <2>3. TypeOK' /\ BodiesAsSent'
    BY <1>1, <1>8, <2>2 DEF TypeOK, BodiesAsSent
  <2> QED
    BY <2>1, <2>2, <2>3 DEF SessionInv
<1> QED
  BY <1>5, <1>6, <1>7, <1>8 DEF Acknowledged, Answers

LEMMA TimesOutStep ==
  ASSUME SessionInv, TimesOut
  PROVE  SessionInv'
<1>1. /\ TypeOK /\ UpOK /\ DownOK /\ EntryOK /\ BodiesAsSent
      /\ phase \notin {"closed", "done"} /\ up = <<>> /\ down = <<>>
      /\ repeated' = TRUE /\ UNCHANGED <<entry, down, ran, faults>>
      /\ UNCHANGED <<sig, request, fragment, pid>> /\ UNCHANGED b /\ UNCHANGED L
  BY DEF SessionInv, TimesOut, b, L
<1>2. /\ request \in Requests /\ fragment \in 1 .. FragmentsOf[request] /\ pid \in Nat
      /\ L \in Nat /\ FragmentsOf[request] \in Nat /\ MaxTries \in Nat
      /\ sig \in Sigs \cup {NoSig}
      /\ phase \in {"syn", "connect", "open", "disconnect"} /\ tries \in 0 .. MaxTries
  <2>1. /\ sig \in Sigs \cup {NoSig} /\ tries \in 0 .. MaxTries
        /\ phase \in {"syn", "connect", "open", "disconnect"}
    BY <1>1 DEF TypeOK
  <2> QED
    BY <1>1, <2>1, Types, SessionAssumption
<1>3. DownOK' /\ BodiesAsSent'
  BY <1>1 DEF DownOK, BodiesAsSent
<1>4. CASE /\ tries < MaxTries /\ tries' = tries + 1 /\ UNCHANGED phase
           /\ up' = <<Waiting(phase, sig, request, fragment, pid)>>
  <2> DEFINE x == Waiting(phase, sig, request, fragment, pid)
  <2>1. /\ x \in Packet
        /\ x.type = (CASE phase = "syn" -> "SYN" [] phase = "connect" -> "CONNECT"
                       [] phase = "open" -> "DATA" [] OTHER -> "DISCONNECT")
        /\ phase = "open" => x.id = pid /\ x.body = <<request, fragment>>
                               /\ x.body \in Fragment
    <3>1. CASE phase = "open"
      <4>1. x = [type |-> "DATA", sig |-> NoSig, id |-> pid, body |-> <<request, fragment>>]
        BY <3>1 DEF Waiting
      <4>2. <<request, fragment>> \in Fragment
        BY <1>2, PairIsFragment
      <4> QED
        BY <1>2, <3>1, <4>1, <4>2 DEF Packet
    <3>2. CASE phase = "syn"
      <4>1. x = [type |-> "SYN", sig |-> NoSig, id |-> 0, body |-> <<>>]
        BY <3>2 DEF Waiting, Plain
      <4> QED
        BY <3>2, <4>1 DEF Packet
    <3>3. CASE phase = "connect"
      <4>1. x = [type |-> "CONNECT", sig |-> sig, id |-> 1, body |-> <<>>]
        BY <3>3 DEF Waiting, Plain
      <4> QED
        BY <1>2, <3>3, <4>1 DEF Packet
    <3>4. CASE phase = "disconnect"
      <4>1. x = [type |-> "DISCONNECT", sig |-> NoSig, id |-> pid, body |-> <<>>]
        BY <3>4 DEF Waiting, Plain
      <4> QED
        BY <1>2, <3>4, <4>1 DEF Packet
    <3> QED
      BY <1>2, <3>1, <3>2, <3>3, <3>4
  <2> HIDE DEF x
  <2>2. up' = <<x>> /\ up' \in Seq(Packet) /\ Len(up') = 1 /\ up'[1] = x
    BY <1>4, <2>1 DEF x
  <2>3. \A y \in Packet : y = x => UpItem(y)'
    <3>1. phase = "open" => pid >= 2 /\ L <= pid
      BY <1>1 DEF EntryOK
    <3> QED
      BY <1>1, <1>2, <1>4, <2>1, <3>1 DEF UpItem, UpTypes, DataOK, DataId
  <2>4. UpOK'
    <3>1. ASSUME NEW i \in 1 .. Len(up') PROVE UpItem(up[i])'
      BY <2>1, <2>2, <2>3
    <3>2. \A i, j \in 1 .. Len(up') : ~(i < j)
      BY <2>2
    <3> QED
      BY <3>1, <3>2 DEF UpOK
  <2>5. EntryOK'
    BY <1>1, <1>2, <1>4 DEF EntryOK, BufferOK
  <2>6. TypeOK'
    BY <1>1, <1>2, <1>4, <2>2 DEF TypeOK
  <2> QED
    BY <1>3, <2>4, <2>5, <2>6 DEF SessionInv
<1>5. CASE /\ phase' = (IF phase = "disconnect" THEN "done" ELSE "closed")
           /\ UNCHANGED <<tries, up>>
  <2>1. UpOK' /\ EntryOK'
    BY <1>1, <1>2, <1>5 DEF UpOK, EntryOK
  <2>2. TypeOK'
    BY <1>1, <1>2, <1>5 DEF TypeOK
  <2> QED
    BY <1>3, <2>1, <2>2 DEF SessionInv
<1> QED
  BY <1>4, <1>5 DEF TimesOut

-----------------------------------------------------------------------------
\* The network.

LEMMA LosesStep ==
  ASSUME SessionInv, Loses
  PROVE  SessionInv'
<1>1. /\ TypeOK /\ UpOK /\ DownOK /\ EntryOK /\ BodiesAsSent
      /\ UNCHANGED <<entry, phase, sig, request, fragment, pid, tries, ran, repeated>>
      /\ UNCHANGED b /\ UNCHANGED L
      /\ faults' \in 0 .. MaxFaults
  <2>1. MaxFaults \in Nat /\ faults \in 0 .. MaxFaults
    BY SessionAssumption DEF SessionInv, TypeOK
  <2> QED
    BY <2>1 DEF SessionInv, Loses, console, b, L
<1>2. CASE up # <<>> /\ up' = Tail(up) /\ UNCHANGED down
  <2>1. \A i \in 2 .. Len(up) : up[i].type = "DATA" => up[i].id >= L'
    <3>1. Len(up) \in Nat
      BY <1>1, Types
    <3> QED
      BY <1>1, <3>1 DEF UpOK, UpItem, DataOK
  <2>2. UpOK' /\ up' \in Seq(Packet) /\ (NoSyn => NoSyn')
    BY <1>1, <1>2, <2>1, UpTail
  <2>3. DownOK' /\ down' \in Seq(Packet)
    <3>1. \A y \in Packet : DownItem(y) => DownItem(y)'
      BY <1>1, <2>2 DEF DownItem, DownTypes
    <3> QED
      BY <1>1, <1>2, <3>1, DownKept
  <2>4. EntryOK'
    <3>1. phase # "closed"
      BY <1>1, <1>2 DEF EntryOK
    <3> QED
      BY <1>1, <3>1 DEF EntryOK, BufferOK
  <2>5. TypeOK' /\ BodiesAsSent'
    BY <1>1, <2>2, <2>3 DEF TypeOK, BodiesAsSent
  <2> QED
    BY <2>2, <2>3, <2>4, <2>5 DEF SessionInv
<1>3. CASE down # <<>> /\ down' = Tail(down) /\ UNCHANGED up
  <2>1. DownOK' /\ down' \in Seq(Packet)
    <3>1. \A y \in Packet : DownItem(y) => DownItem(y)'
      BY <1>1, <1>3 DEF DownItem, DownTypes, NoSyn
    <3> QED
      BY <1>1, <1>3, <3>1, DownTail
  <2>2. UpOK'
    BY <1>1, <1>3 DEF UpOK, UpItem, UpTypes, DataOK, DataId
  <2>3. EntryOK'
    <3>1. phase # "closed"
      BY <1>1, <1>3 DEF EntryOK
    <3> QED
      BY <1>1, <3>1 DEF EntryOK, BufferOK
  <2>4. TypeOK' /\ BodiesAsSent'
    BY <1>1, <1>3, <2>1 DEF TypeOK, BodiesAsSent
  <2> QED
    BY <2>1, <2>2, <2>3, <2>4 DEF SessionInv
<1> QED
  BY <1>2, <1>3 DEF Loses

\* A sequence with its first element in front once more.
LEMMA DoubledFacts ==
  ASSUME NEW S, NEW s \in Seq(S), s # <<>>, NEW t, t = <<Head(s)>> \o s
  PROVE  /\ t \in Seq(S) /\ Len(t) = Len(s) + 1 /\ Len(s) \in Nat \ {0}
         /\ t[1] = s[1] /\ \A i \in 2 .. (Len(s) + 1) : t[i] = s[i - 1]
<1>1. Head(s) \in S /\ Head(s) = s[1] /\ Len(s) \in Nat \ {0}
  BY TailFacts
<1>2. t \in Seq(S)
  BY <1>1
<1>3. Len(t) = Len(s) + 1 /\ t[1] = s[1]
  BY <1>1
<1>4. ASSUME NEW i \in 2 .. (Len(s) + 1) PROVE t[i] = s[i - 1]
  BY <1>1
<1> QED
  BY <1>1, <1>2, <1>3, <1>4

LEMMA RepeatsStep ==
  ASSUME SessionInv, Repeats
  PROVE  SessionInv'
<1>1. /\ TypeOK /\ UpOK /\ DownOK /\ EntryOK /\ BodiesAsSent
      /\ UNCHANGED <<entry, phase, sig, request, fragment, pid, tries, ran>>
      /\ UNCHANGED b /\ UNCHANGED L
      /\ faults' \in 0 .. MaxFaults /\ repeated' = TRUE
  <2>1. MaxFaults \in Nat /\ faults \in 0 .. MaxFaults
    BY SessionAssumption DEF SessionInv, TypeOK
  <2> QED
    BY <2>1 DEF SessionInv, Repeats, console, b, L
<1>2. CASE up # <<>> /\ up' = <<Head(up)>> \o up /\ UNCHANGED down
  <2>1. /\ up \in Seq(Packet) /\ up' \in Seq(Packet) /\ Len(up') = Len(up) + 1
        /\ Len(up) \in Nat \ {0}
        /\ up'[1] = up[1] /\ \A i \in 2 .. (Len(up) + 1) : up'[i] = up[i - 1]
    BY <1>1, <1>2, Types, DoubledFacts
  <2>2. \A y \in Packet : UpItem(y) => UpItem(y)'
    BY <1>1 DEF UpItem, UpTypes, DataOK, DataId
  <2> DEFINE Old(i) == IF i = 1 THEN 1 ELSE i - 1
  <2>3. ASSUME NEW i \in 1 .. Len(up')
        PROVE  Old(i) \in 1 .. Len(up) /\ up'[i] = up[Old(i)] /\ up'[i] \in Packet
    BY <2>1
  <2>4. ASSUME NEW i \in 1 .. Len(up') PROVE UpItem(up[i])'
    <3>1. UpItem(up'[i])
      BY <1>1, <2>3 DEF UpOK
    <3> QED
      BY <2>2, <2>3, <3>1
  <2>5. ASSUME NEW i \in 1 .. Len(up'), NEW j \in 1 .. Len(up'), i < j
        PROVE  InOrder(up'[i], up'[j])
    <3>1. Old(i) < Old(j) \/ Old(i) = Old(j)
      BY <2>1, <2>5
    <3>2. CASE Old(i) < Old(j)
      <4> HIDE DEF Old
      <4> QED
        BY <1>1, <2>3, <3>2 DEF UpOK
    <3>3. CASE Old(i) = Old(j)
      <4>1. up'[i] = up'[j] /\ up'[i].id \in Nat
        BY <2>3, <3>3 DEF Packet
      <4> QED
        BY <4>1 DEF InOrder
    <3> QED
      BY <3>1, <3>2, <3>3
  <2>6. UpOK'
    BY <2>4, <2>5 DEF UpOK, InOrder
  <2>7. DownOK' /\ down' \in Seq(Packet)
    <3>1. NoSyn => NoSyn'
      <4> HIDE DEF Old
      <4> QED
        BY <2>3 DEF NoSyn
    <3>2. \A y \in Packet : DownItem(y) => DownItem(y)'
      BY <1>1, <3>1 DEF DownItem, DownTypes
    <3> QED
      BY <1>1, <1>2, <3>2, DownKept
  <2>8. EntryOK'
    <3>1. phase # "closed"
      BY <1>1, <1>2 DEF EntryOK
    <3> QED
      BY <1>1, <3>1 DEF EntryOK, BufferOK
  <2>9. TypeOK' /\ BodiesAsSent'
    BY <1>1, <2>1, <2>7 DEF TypeOK, BodiesAsSent
  <2> QED
    BY <2>6, <2>7, <2>8, <2>9 DEF SessionInv
<1>3. CASE down # <<>> /\ down' = <<Head(down)>> \o down /\ UNCHANGED up
  <2>1. /\ down \in Seq(Packet) /\ down' \in Seq(Packet) /\ Len(down') = Len(down) + 1
        /\ Len(down) \in Nat \ {0}
        /\ down'[1] = down[1] /\ \A i \in 2 .. (Len(down) + 1) : down'[i] = down[i - 1]
    BY <1>1, <1>3, Types, DoubledFacts
  <2>2. DownOK'
    <3>1. \A y \in Packet : DownItem(y) => DownItem(y)'
      BY <1>1, <1>3 DEF DownItem, DownTypes, NoSyn
    <3>2. ASSUME NEW i \in 1 .. Len(down') PROVE DownItem(down[i])'
      <4>1. PICK k \in 1 .. Len(down) : down'[i] = down[k] /\ down[k] \in Packet
        <5>1. CASE i = 1
          BY <2>1, <5>1
        <5>2. CASE i # 1
          <6>1. i - 1 \in 1 .. Len(down) /\ down'[i] = down[i - 1]
            BY <2>1, <5>2
          <6> QED
            BY <2>1, <6>1
        <5> QED
          BY <5>1, <5>2
      <4>2. DownItem(down[k])
        BY <1>1 DEF DownOK
      <4> QED
        BY <3>1, <4>1, <4>2
    <3> QED
      BY <3>2 DEF DownOK
  <2>3. UpOK'
    BY <1>1, <1>3 DEF UpOK, UpItem, UpTypes, DataOK, DataId
  <2>4. EntryOK'
    <3>1. phase # "closed"
      BY <1>1, <1>3 DEF EntryOK
    <3> QED
      BY <1>1, <3>1 DEF EntryOK, BufferOK
  <2>5. TypeOK' /\ BodiesAsSent'
    BY <1>1, <1>3, <2>1 DEF TypeOK, BodiesAsSent
  <2> QED
    BY <2>2, <2>3, <2>4, <2>5 DEF SessionInv
<1> QED
  BY <1>2, <1>3 DEF Repeats

-----------------------------------------------------------------------------
LEMMA SessionInit ==
  ASSUME Init
  PROVE  SessionInv
<1>1. /\ Requests = 1 .. Len(FragmentsOf) /\ 1 \in Requests
      /\ FragmentsOf[1] \in Nat \ {0} /\ MaxTries \in Nat /\ MaxFaults \in Nat
  <2>1. Len(FragmentsOf) \in Nat \ {0} /\ Requests = 1 .. Len(FragmentsOf)
    BY SessionAssumption DEF Requests
  <2> QED
    BY <2>1, SessionAssumption
<1>2. TypeOK
  <2>1. /\ entry \in [state : {"none", "SYN_RECV", "ESTABLISHED"},
                      server_conn_sig : Sigs \cup {NoSig}, fragment_buffer : Seq(Fragment),
                      last_client_pid : Nat, outgoing_reliable_seq : Nat \ {0}]
    BY DEF Init, NoEntry
  <2>2. up \in Seq(Packet) /\ down \in Seq(Packet) /\ ran \in Seq(Seq(Fragment))
    BY DEF Init
  <2>3. /\ request \in Requests /\ fragment \in 1 .. FragmentsOf[request] /\ pid \in Nat
        /\ tries \in 0 .. MaxTries /\ faults \in 0 .. MaxFaults
    BY <1>1 DEF Init
  <2>4. /\ phase = "closed" /\ sig = NoSig /\ repeated = FALSE
    BY DEF Init
  <2> QED
    BY <2>1, <2>2, <2>3, <2>4 DEF TypeOK
<1>3. UpOK /\ DownOK /\ EntryOK /\ BodiesAsSent
  BY DEF Init, UpOK, DownOK, EntryOK, BodiesAsSent
<1> QED
  BY <1>2, <1>3 DEF SessionInv

LEMMA SessionNext ==
  ASSUME SessionInv, [Next]_vars
  PROVE  SessionInv'
<1>1. CASE UNCHANGED vars
  <2>1. /\ UNCHANGED <<entry, phase, sig, request, fragment, pid, tries, up, down, ran,
                       repeated, faults>>
        /\ UNCHANGED b /\ UNCHANGED L
        /\ TypeOK /\ UpOK /\ DownOK /\ EntryOK /\ BodiesAsSent
    BY <1>1 DEF vars, console, SessionInv, b, L
  <2>2. TypeOK' /\ EntryOK' /\ BodiesAsSent'
    BY <2>1 DEF TypeOK, EntryOK, BufferOK, BodiesAsSent
  <2>3. UpOK'
    BY <2>1 DEF UpOK, UpItem, UpTypes, DataOK, DataId
  <2>4. DownOK'
    BY <2>1 DEF DownOK, DownItem, DownTypes, NoSyn
  <2> QED
    BY <2>2, <2>3, <2>4 DEF SessionInv
<1>2. CASE Server
  BY <1>2, SynStep, ConnectStep, DataStep, DisconnectStep DEF Server
<1>3. CASE Console
  BY <1>3, ConnectsStep, AcknowledgedStep, IgnoredStep, TimesOutStep DEF Console
<1> QED
  BY <1>1, <1>2, <1>3, LosesStep, RepeatsStep DEF Next

\* In every session the packets under way and the server's buffer fit the
\* console's progress, however the network loses and repeats datagrams.
THEOREM SessionInductive == Spec => []SessionInv
BY SessionInit, SessionNext, PTL DEF Spec

\* Whatever the network loses or repeats and however often the console starts
\* over, no RMC handler sees a body that the console did not send: reassembly
\* without sequence numbers never doubles, drops or splices a fragment.
THEOREM BodiesAsSentHolds == Spec => []BodiesAsSent
<1>1. SessionInv => BodiesAsSent
  BY DEF SessionInv
<1> QED
  BY <1>1, SessionInductive, PTL

-----------------------------------------------------------------------------
\* While nothing is repeated.  The console and the server then alternate: what
\* is under way to the server is the packet that waits, not yet taken, and the
\* handlers and the buffer are exactly as far as the console's progress says.

\* The type of the packet that waits, by phase.
Expected ==
  CASE phase = "syn" -> "SYN"
    [] phase = "connect" -> "CONNECT"
    [] phase = "open" -> "DATA"
    [] OTHER -> "DISCONNECT"

\* The one packet on its way to the server has not been taken before.
Unanswered ==
  up # <<>> =>
    /\ Len(up) = 1 /\ up[1].type = Expected
    /\ phase = "syn" => entry.state = "none"
    /\ phase = "connect" => entry.state = "SYN_RECV"
    /\ phase = "open" => up[1].id = pid /\ L # pid

\* The first n requests have run, once each and in their order.
RanExactly(n) == Len(ran) = n /\ \A k \in 1 .. n : ran[k] = Whole(k)

\* The buffer holds the first n fragments of the console's request.
Received(n) == Len(b) = n /\ \A k \in 1 .. n : b[k] = <<request, k>>

\* In phase "open" the server has taken the packet that waits exactly if it is
\* the last one it counted.
Progress ==
  /\ phase = "closed" => entry.state = "none"
  /\ phase \in {"closed", "syn", "connect"} => request = 1 /\ fragment = 1 /\ RanExactly(0)
  /\ phase = "open" /\ L # pid => RanExactly(request - 1) /\ Received(fragment - 1)
  /\ phase = "open" /\ L = pid /\ fragment < FragmentsOf[request] =>
       RanExactly(request - 1) /\ Received(fragment)
  /\ phase = "open" /\ L = pid /\ fragment = FragmentsOf[request] =>
       RanExactly(request) /\ Received(0)
  /\ phase \in {"disconnect", "done"} => request = Len(FragmentsOf) /\ RanExactly(request)

OnceInv == ~repeated => Unanswered /\ Progress

LEMMA TakesTheOne ==
  ASSUME TypeOK, Unanswered, up # <<>>, up' = Tail(up)
  PROVE  up' = <<>> /\ Head(up) = up[1] /\ up[1] \in Packet /\ Len(up) = 1
<1>1. Len(up) = 1 /\ up \in Seq(Packet)
  BY Types DEF Unanswered
<1> QED
  BY <1>1

LEMMA HandshakeOnce ==
  ASSUME SessionInv, OnceInv, ~repeated', HandleSyn \/ HandleConnect \/ HandleDisconnect
  PROVE  OnceInv'
<1>1. /\ TypeOK /\ UpOK /\ EntryOK /\ Unanswered /\ Progress
      /\ up # <<>> /\ up' = Tail(up)
      /\ Head(up).type \in {"SYN", "CONNECT", "DISCONNECT"}
      /\ UNCHANGED <<phase, request, fragment, pid, ran, repeated>>
  BY DEF SessionInv, OnceInv, HandleSyn, HandleConnect, HandleDisconnect, Arrives, console
<1>2. up' = <<>> /\ Expected \in {"SYN", "CONNECT", "DISCONNECT"}
  BY <1>1, TakesTheOne DEF Unanswered
<1>3. phase \notin {"open", "closed"}
  BY <1>1, <1>2 DEF Expected, EntryOK
<1>4. Unanswered' /\ Progress'
  BY <1>1, <1>2, <1>3 DEF Unanswered, Progress, RanExactly
<1> QED
  BY <1>4 DEF OnceInv

\* The waiting fragment completes what the server has of the request.
LEMMA NextFragment ==
  ASSUME SessionInv, Received(fragment - 1),
         NEW g, g = Append(b, <<request, fragment>>)
  PROVE  /\ g \in Seq(Fragment) /\ Len(g) = fragment
         /\ \A k \in 1 .. fragment : g[k] = <<request, k>>
<1>1. /\ request \in Requests /\ fragment \in 1 .. FragmentsOf[request]
      /\ FragmentsOf[request] \in Nat \ {0} /\ b \in Seq(Fragment)
      /\ Len(b) = fragment - 1 /\ fragment \in Nat \ {0}
  <2>1. TypeOK
    BY DEF SessionInv
  <2> QED
    BY <2>1, Types DEF Received
<1>2. <<request, fragment>> \in Fragment
  BY <1>1, PairIsFragment
<1>3. /\ g \in Seq(Fragment) /\ Len(g) = Len(b) + 1
      /\ \A i \in 1 .. Len(b) : g[i] = b[i]
      /\ g[Len(b) + 1] = <<request, fragment>>
  BY <1>1, <1>2, AppendFacts
<1>4. ASSUME NEW k \in 1 .. fragment PROVE g[k] = <<request, k>>
  <2>1. CASE k = fragment
    <3>1. Len(b) + 1 = fragment
      BY <1>1
    <3> QED
      BY <1>3, <2>1, <3>1
  <2>2. CASE k # fragment
    <3>1. k \in 1 .. Len(b) /\ k \in 1 .. (fragment - 1)
      BY <1>1, <2>2
    <3> QED
      BY <1>3, <3>1 DEF Received
  <2> QED
    BY <2>1, <2>2
<1> QED
  BY <1>1, <1>3, <1>4

LEMMA DataOnce ==
  ASSUME SessionInv, OnceInv, ~repeated', HandleData
  PROVE  OnceInv'
<1> DEFINE p == Head(up)
           body == Append(b, p.body)
<1>1. /\ TypeOK /\ UpOK /\ EntryOK /\ Unanswered /\ Progress
      /\ up # <<>> /\ up' = Tail(up) /\ p.type = "DATA"
      /\ UNCHANGED <<phase, request, fragment, pid, repeated>>
  BY DEF SessionInv, OnceInv, HandleData, Arrives, console
<1>2. up' = <<>> /\ p = up[1] /\ p \in Packet /\ Len(up) = 1
  BY <1>1, TakesTheOne
<1> HIDE DEF p, body
<1>3. phase = "open" /\ p.id = pid /\ L # pid
  <2>1. Expected = "DATA"
    BY <1>1, <1>2 DEF Unanswered
  <2>2. phase = "open"
    BY <2>1 DEF Expected
  <2> QED
    BY <1>1, <1>2, <2>2 DEF Unanswered
<1>4. /\ request \in Requests /\ fragment \in 1 .. FragmentsOf[request]
      /\ FragmentsOf[request] \in Nat \ {0} /\ fragment \in Nat \ {0}
      /\ pid \in Nat /\ L \in Nat /\ request \in Nat \ {0}
      /\ ran \in Seq(Seq(Fragment)) /\ b \in Seq(Fragment)
  BY <1>1, Types
<1>5. /\ p.body = <<request, fragment>> /\ p.body \in Fragment /\ p.id >= L
      /\ entry.state = "ESTABLISHED"
  <2>1. UpItem(p)
    BY <1>1, <1>2 DEF UpOK
  <2>2. p.body \in Fragment /\ DataOK(p)
    BY <1>1, <2>1 DEF UpItem
  <2> QED
    BY <1>1, <1>3, <1>4, <2>2 DEF DataOK, DataId, EntryOK
<1>6. RanExactly(request - 1) /\ Received(fragment - 1)
  BY <1>1, <1>3 DEF Progress
<1>7. /\ body \in Seq(Fragment) /\ Len(body) = fragment
      /\ \A k \in 1 .. fragment : body[k] = <<request, k>>
  BY <1>5, <1>6, NextFragment DEF body
<1>8. Last(p.body) <=> fragment = FragmentsOf[request]
  BY <1>5 DEF Last
<1>9. ASSUME fragment = FragmentsOf[request]
      PROVE  Decodes(body) /\ body = Whole(request)
  <2>1. body[1] = <<request, 1>>
    BY <1>4, <1>7
  <2>2. body = [k \in 1 .. fragment |-> body[k]]
    BY <1>7
  <2>3. body = [k \in 1 .. fragment |-> <<request, k>>]
    BY <1>7, <2>2
  <2> QED
    BY <1>7, <1>9, <2>1, <2>3 DEF Decodes, Whole
<1>10. PICK f \in Seq(Fragment), n \in Nat \ {0} :
         /\ entry' = [state |-> "ESTABLISHED", server_conn_sig |-> entry.server_conn_sig,
                      fragment_buffer |-> f, last_client_pid |-> p.id,
                      outgoing_reliable_seq |-> n]
         /\ \/ ~Last(p.body) /\ f = body /\ UNCHANGED ran
            \/ Last(p.body) /\ f = <<>> /\ ~Decodes(body) /\ UNCHANGED ran
            \/ Last(p.body) /\ f = <<>> /\ Decodes(body) /\ ran' = Append(ran, body)
  BY <1>2, <1>5, DataEffect DEF p, body
<1>11. L' = pid /\ b' = f
  BY <1>3, <1>10 DEF b, L
<1>12. Progress'
  <2>1. CASE fragment < FragmentsOf[request]
    <3>1. b' = body /\ UNCHANGED ran
      BY <1>4, <1>8, <1>10, <1>11, <2>1
    <3>2. RanExactly(request - 1)'
      BY <1>1, <1>6, <3>1 DEF RanExactly
    <3>3. Received(fragment)'
      BY <1>1, <1>7, <3>1 DEF Received
    <3> QED
      BY <1>1, <1>3, <1>4, <1>11, <2>1, <3>2, <3>3 DEF Progress
  <2>2. CASE fragment = FragmentsOf[request]
    <3>1. b' = <<>> /\ ran' = Append(ran, Whole(request)) /\ Whole(request) \in Seq(Fragment)
      BY <1>7, <1>8, <1>9, <1>10, <1>11, <2>2
    <3>2. /\ Len(ran') = Len(ran) + 1 /\ Len(ran) = request - 1
          /\ \A i \in 1 .. Len(ran) : ran'[i] = ran[i]
          /\ ran'[Len(ran) + 1] = Whole(request)
          /\ \A i \in 1 .. (request - 1) : ran[i] = Whole(i)
      BY <1>4, <1>6, <3>1, AppendFacts DEF RanExactly
    <3>3. Len(ran') = request /\ \A i \in 1 .. request : ran'[i] = Whole(i)
      <4>1. Len(ran) + 1 = request /\ 1 .. Len(ran) = 1 .. (request - 1)
        BY <1>4, <3>2
      <4>2. \A i \in 1 .. request : i = request \/ i \in 1 .. (request - 1)
        BY <1>4
      <4> QED
        BY <3>2, <4>1, <4>2
    <3>4. RanExactly(request)'
      BY <1>1, <3>3 DEF RanExactly
    <3>5. Received(0)'
      BY <3>1 DEF Received
    <3> QED
      BY <1>1, <1>3, <1>4, <1>11, <2>2, <3>4, <3>5 DEF Progress
  <2> QED
    BY <1>4, <2>1, <2>2
<1> QED
  BY <1>2, <1>12 DEF OnceInv, Unanswered

\* A packet that waits, on a link with nothing else on it.
LEMMA SendOnce ==
  ASSUME NEW ph \in {"syn", "connect", "open", "disconnect"}, NEW s, NEW r, NEW k, NEW n,
         Sends(ph, s, r, k, n), up = <<>>,
         ph = "syn" => entry'.state = "none",
         ph = "connect" => entry'.state = "SYN_RECV",
         ph = "open" => L' # n
  PROVE  Unanswered'
<1> DEFINE x == Waiting(ph, s, r, k, n)
<1>1. /\ phase' = ph /\ pid' = n /\ up' = Append(up, x)
  BY DEF Sends
<1>2. x.type = Expected' /\ (ph = "open" => x.id = n)
  BY <1>1 DEF Waiting, Expected, Plain
<1> HIDE DEF x
<1>3. up' = <<x>>
  BY <1>1
<1> QED
  BY <1>1, <1>2, <1>3 DEF Unanswered

LEMMA AcknowledgedOnce ==
  ASSUME SessionInv, OnceInv, ~repeated', Acknowledged
  PROVE  OnceInv'
<1> DEFINE d == Head(down)
<1>1. /\ TypeOK /\ DownOK /\ EntryOK /\ Unanswered /\ Progress
      /\ down # <<>> /\ UNCHANGED <<entry, ran, repeated>>
      /\ UNCHANGED b /\ UNCHANGED L
  BY DEF SessionInv, OnceInv, Acknowledged, Answers, b, L
<1>2. d \in Packet /\ DownItem(d)
  <2>1. 1 \in 1 .. Len(down) /\ d = down[1] /\ d \in Packet
    BY <1>1, Types, TailFacts
  <2> QED
    BY <1>1, <2>1 DEF DownOK
<1>3. /\ request \in Requests /\ fragment \in 1 .. FragmentsOf[request]
      /\ FragmentsOf[request] \in Nat \ {0} /\ fragment \in Nat \ {0}
      /\ Requests = 1 .. Len(FragmentsOf) /\ Len(FragmentsOf) \in Nat
      /\ \A r \in Requests : FragmentsOf[r] \in Nat \ {0}
      /\ pid \in Nat /\ L \in Nat /\ request \in Nat \ {0}
  BY <1>1, Types
<1>4. CASE /\ phase = "syn" /\ d.type = "SYN+ACK"
           /\ Sends("connect", d.sig, request, fragment, 1)
  <2>1. entry.state = "SYN_RECV" /\ up = <<>>
    BY <1>1, <1>2, <1>4 DEF DownItem, Unanswered
  <2>2. Unanswered'
    BY <1>1, <1>4, <2>1, SendOnce
  <2>3. phase' = "connect" /\ request' = request /\ fragment' = fragment
    BY <1>4 DEF Sends
  <2>4. Progress'
    BY <1>1, <1>4, <2>3 DEF Progress, RanExactly
  <2> QED
    BY <2>2, <2>4 DEF OnceInv
<1>5. CASE /\ phase = "connect" /\ d.type = "CONNECT+ACK"
           /\ Sends("open", sig, request, fragment, 2)
  <2>1. entry.state = "ESTABLISHED" /\ up = <<>> /\ b = <<>> /\ L = 0
    BY <1>1, <1>2, <1>5 DEF DownItem, Unanswered, EntryOK
  <2>2. Unanswered'
    BY <1>1, <1>5, <2>1, SendOnce
  <2>3. phase' = "open" /\ request' = request /\ fragment' = fragment /\ pid' = 2
    BY <1>5 DEF Sends
  <2>4. request = 1 /\ fragment = 1 /\ RanExactly(0)
    BY <1>1, <1>5 DEF Progress
  <2>5. RanExactly(request - 1)' /\ Received(fragment - 1)'
    BY <1>1, <2>1, <2>3, <2>4 DEF RanExactly, Received
  <2>6. Progress'
    BY <1>1, <2>1, <2>3, <2>5 DEF Progress
  <2> QED
    BY <2>2, <2>6 DEF OnceInv
<1>6. CASE phase = "open" /\ d.type = "DATA+ACK" /\ d.id = pid /\ Proceeds
  <2>1. L = pid /\ up = <<>>
    BY <1>1, <1>2, <1>3, <1>6 DEF DownItem, Unanswered, EntryOK
  <2>2. ASSUME NEW r \in Requests, NEW k \in Nat, Sends("open", sig, r, k, pid + 1),
               RanExactly(r - 1), Received(k - 1), k > 1 => r = request
        PROVE  OnceInv'
    <3>1. L' # pid + 1
      BY <1>1, <1>3, <2>1
    <3>2. Unanswered'
      BY <2>1, <2>2, <3>1, SendOnce
    <3>3. phase' = "open" /\ request' = r /\ fragment' = k /\ pid' = pid + 1
      BY <2>2 DEF Sends
    <3>4. RanExactly(request - 1)'
      BY <1>1, <2>2, <3>3 DEF RanExactly
    <3>5. Received(fragment - 1)'
      <4>1. CASE k > 1
        BY <1>1, <2>2, <3>3, <4>1 DEF Received
      <4>2. CASE ~(k > 1)
        <5>1. 1 .. (k - 1) = {}
          BY <4>2
        <5> QED
          BY <1>1, <2>2, <3>3, <5>1 DEF Received
      <4> QED
        BY <4>1, <4>2
    <3>6. Progress'
      BY <3>1, <3>3, <3>4, <3>5 DEF Progress
    <3> QED
      BY <3>2, <3>6 DEF OnceInv
  <2>3. CASE fragment < FragmentsOf[request]
    <3>1. Sends("open", sig, request, fragment + 1, pid + 1)
      BY <1>6, <2>3 DEF Proceeds
    <3>2. RanExactly(request - 1) /\ Received(fragment) /\ (fragment + 1) - 1 = fragment
      BY <1>1, <1>3, <1>6, <2>1, <2>3 DEF Progress
    <3> QED
      BY <1>3, <2>2, <3>1, <3>2
  <2>4. CASE ~(fragment < FragmentsOf[request])
    <3>1. fragment = FragmentsOf[request] /\ RanExactly(request) /\ Received(0)
      BY <1>1, <1>3, <1>6, <2>1, <2>4 DEF Progress
    <3>2. CASE request + 1 \in Requests
      <4>1. Sends("open", sig, request + 1, 1, pid + 1)
        BY <1>6, <2>4, <3>2 DEF Proceeds
      <4>2. (request + 1) - 1 = request /\ 1 - 1 = 0 /\ ~(1 > 1)
        BY <1>3
      <4> QED
        BY <2>2, <3>1, <3>2, <4>1, <4>2
    <3>3. CASE request + 1 \notin Requests
      <4>1. Sends("disconnect", sig, request, fragment, pid + 1)
        BY <1>6, <2>4, <3>3 DEF Proceeds
      <4>2. Unanswered'
        BY <2>1, <4>1, SendOnce
      <4>3. phase' = "disconnect" /\ request' = request
        BY <4>1 DEF Sends
      <4>4. request = Len(FragmentsOf)
        BY <1>3, <3>3
      <4>5. Progress'
        BY <1>1, <3>1, <4>3, <4>4 DEF Progress, RanExactly
      <4> QED
        BY <4>2, <4>5 DEF OnceInv
    <3> QED
      BY <3>2, <3>3
  <2> QED
    BY <2>3, <2>4
<1>7. CASE /\ phase = "disconnect"
           /\ phase' = "done"
           /\ UNCHANGED <<sig, request, fragment, pid, tries, up>>
  <2>1. Unanswered'
    BY <1>1, <1>7 DEF Unanswered, Expected
  <2>2. Progress'
    BY <1>1, <1>7 DEF Progress, RanExactly
  <2> QED
    BY <2>1, <2>2 DEF OnceInv
<1> QED
  BY <1>4, <1>5, <1>6, <1>7 DEF Acknowledged, Answers

LEMMA OnceNext ==
  ASSUME SessionInv, OnceInv, [Next]_vars
  PROVE  OnceInv'
<1> SUFFICES ASSUME ~repeated' PROVE OnceInv'
  BY DEF OnceInv
<1>1. CASE UNCHANGED vars
  <2>1. /\ UNCHANGED <<entry, phase, request, fragment, pid, up, ran, repeated>>
        /\ UNCHANGED b /\ UNCHANGED L
    BY <1>1 DEF vars, console, b, L
  <2>2. (Unanswered /\ Progress) => (Unanswered /\ Progress)'
    BY <2>1 DEF Unanswered, Expected, Progress, RanExactly, Received
  <2> QED
    BY <2>1, <2>2 DEF OnceInv
<1>2. CASE Connects
  <2>1. /\ phase = "closed" /\ up = <<>> /\ Sends("syn", NoSig, request, 1, 0)
        /\ UNCHANGED <<entry, ran, repeated>> /\ Progress
    BY <1>2 DEF Connects, SessionInv, EntryOK, OnceInv
  <2>2. phase' = "syn" /\ request' = request /\ fragment' = 1
    BY <2>1 DEF Sends
  <2>3. Unanswered'
    <3>1. entry'.state = "none"
      BY <2>1 DEF Progress
    <3> QED
      BY <2>1, <3>1, SendOnce
  <2>4. Progress'
    BY <2>1, <2>2 DEF Progress, RanExactly
  <2> QED
    BY <2>3, <2>4 DEF OnceInv
<1>3. CASE Ignored
  <2>1. /\ UNCHANGED <<entry, phase, request, fragment, pid, up, ran, repeated>>
        /\ UNCHANGED b /\ UNCHANGED L
    BY <1>3 DEF Ignored, console, b, L
  <2>2. (Unanswered /\ Progress) => (Unanswered /\ Progress)'
    BY <2>1 DEF Unanswered, Expected, Progress, RanExactly, Received
  <2> QED
    BY <2>1, <2>2 DEF OnceInv
<1>4. CASE Loses
  <2>1. /\ UNCHANGED <<entry, phase, request, fragment, pid, ran, repeated>>
        /\ UNCHANGED b /\ UNCHANGED L
        /\ (up # <<>> /\ up' = Tail(up)) \/ up' = up
        /\ TypeOK /\ Unanswered /\ Progress
    BY <1>4 DEF Loses, console, b, L, OnceInv, SessionInv
  <2>2. up' = <<>> \/ up' = up
    BY <2>1, TakesTheOne
  <2>3. Unanswered'
    BY <2>1, <2>2 DEF Unanswered, Expected
  <2>4. Progress'
    BY <2>1 DEF Progress, RanExactly, Received
  <2> QED
    BY <2>3, <2>4 DEF OnceInv
<1>5. ~TimesOut /\ ~Repeats
  BY DEF TimesOut, Repeats
<1> QED
  BY <1>1, <1>2, <1>3, <1>4, <1>5, HandshakeOnce, DataOnce, AcknowledgedOnce
  DEF Next, Server, Console

\* While no packet has been sent or delivered twice, console and server keep
\* step: what is under way has not been taken before.
THEOREM OnceInductive == Spec => []OnceInv
<1>1. Init => OnceInv
  BY DEF Init, OnceInv, Unanswered, Progress, RanExactly, NoEntry
<1>2. SessionInv /\ OnceInv /\ [Next]_vars => OnceInv'
  BY OnceNext
<1> QED
  BY <1>1, <1>2, SessionInductive, PTL DEF Spec

\* On a link that loses datagrams but repeats none, requests run in order and
\* once each, and a request that is acknowledged has run: at-most-once and
\* acknowledged-is-run can only be broken by a repetition.
THEOREM ExactlyOnceUnlessRepeatedHolds == Spec => []ExactlyOnceUnlessRepeated
<1>1. SessionInv /\ OnceInv => ExactlyOnceUnlessRepeated
  <2> SUFFICES ASSUME SessionInv, OnceInv, ~repeated
               PROVE  /\ \A k \in DOMAIN ran : ran[k] = Whole(k)
                      /\ AckedRequests \subseteq DOMAIN ran
    BY DEF ExactlyOnceUnlessRepeated
  <2>1. /\ TypeOK /\ EntryOK /\ Progress
    BY DEF SessionInv, OnceInv
  <2>2. /\ request \in Requests /\ request \in Nat \ {0}
        /\ fragment \in 1 .. FragmentsOf[request] /\ FragmentsOf[request] \in Nat \ {0}
        /\ Requests = 1 .. Len(FragmentsOf) /\ ran \in Seq(Seq(Fragment))
        /\ DOMAIN ran = 1 .. Len(ran)
    BY <2>1, Types
  <2>3. PICK n \in Nat : RanExactly(n) /\ AckedRequests \subseteq 1 .. n
    <3>1. CASE phase \in {"closed", "syn", "connect"}
      <4>1. RanExactly(0) /\ AckedRequests \subseteq 1 .. 0
        BY <2>1, <3>1 DEF Progress, AckedRequests
      <4> QED
        BY <4>1
    <3>2. CASE phase = "open"
      <4>1. RanExactly(request - 1) \/ RanExactly(request)
        BY <2>1, <2>2, <3>2 DEF Progress
      <4>2. AckedRequests = 1 .. (request - 1)
        BY <3>2 DEF AckedRequests
      <4>3. /\ request - 1 \in Nat /\ 1 .. (request - 1) \subseteq 1 .. request
        BY <2>2
      <4> QED
        BY <2>2, <4>1, <4>2, <4>3
    <3>3. CASE phase \in {"disconnect", "done"}
      BY <2>1, <2>2, <3>3 DEF Progress, AckedRequests
    <3> QED
      BY <2>1, <3>1, <3>2, <3>3 DEF TypeOK
  <2>4. Len(ran) = n /\ \A k \in 1 .. n : ran[k] = Whole(k)
    BY <2>3 DEF RanExactly
  <2> QED
    BY <2>2, <2>3, <2>4
<1> QED
  BY <1>1, SessionInductive, OnceInductive, PTL

=============================================================================

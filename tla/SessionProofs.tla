---------------------------- MODULE SessionProofs ----------------------------
(***************************************************************************)
(* Proofs about Session, for every value of its constants.                 *)
(***************************************************************************)
EXTENDS Session, FiniteSetTheorems, TLAPS

-----------------------------------------------------------------------------
(* The stream is a sequence; what is in transit is a set                   *)

Elements(s) == {s[i] : i \in DOMAIN s}

\* What appending, consuming and cutting a sequence does to its elements.
LEMMA AppendElements ==
  ASSUME NEW S, NEW s \in Seq(S), NEW e \in S
  PROVE  /\ Append(s, e) \in Seq(S)
         /\ Elements(Append(s, e)) = Elements(s) \cup {e}
<1>1. Append(s, e) \in Seq(S)
  OBVIOUS
<1>2. \A i \in DOMAIN s : i \in DOMAIN Append(s, e) /\ Append(s, e)[i] = s[i]
  OBVIOUS
<1>3. Len(s) + 1 \in DOMAIN Append(s, e) /\ Append(s, e)[Len(s) + 1] = e
  OBVIOUS
<1>4. \A i \in DOMAIN Append(s, e) : i \in DOMAIN s \/ i = Len(s) + 1
  OBVIOUS
<1> QED
  BY <1>1, <1>2, <1>3, <1>4 DEF Elements

LEMMA TailElements ==
  ASSUME NEW S, NEW s \in Seq(S), s # <<>>
  PROVE  /\ Tail(s) \in Seq(S)
         /\ Elements(Tail(s)) \subseteq Elements(s)
         /\ Head(s) \in S /\ Head(s) \in Elements(s)
<1>1. Tail(s) \in Seq(S) /\ Head(s) \in S
  OBVIOUS
<1>2. \A i \in DOMAIN Tail(s) : i + 1 \in DOMAIN s /\ Tail(s)[i] = s[i + 1]
  OBVIOUS
<1>3. 1 \in DOMAIN s /\ Head(s) = s[1]
  OBVIOUS
<1> QED
  BY <1>1, <1>2, <1>3 DEF Elements

LEMMA PrefixElements ==
  ASSUME NEW S, NEW s \in Seq(S), NEW n \in 0..Len(s)
  PROVE  /\ SubSeq(s, 1, n) \in Seq(S)
         /\ Elements(SubSeq(s, 1, n)) \subseteq Elements(s)
<1>1. SubSeq(s, 1, n) \in Seq(S)
  OBVIOUS
<1>2. \A i \in DOMAIN SubSeq(s, 1, n) :
        i \in DOMAIN s /\ SubSeq(s, 1, n)[i] = s[i]
  OBVIOUS
<1> QED
  BY <1>1, <1>2 DEF Elements

-----------------------------------------------------------------------------
(* Message identifiers                                                     *)

\* A new identifier is larger than the last one, whatever the clock says.
LEMMA NextMsgIdIncreases ==
  ASSUME NEW last \in Int, NEW diff \in Int, clock \in Int
  PROVE  NextMsgId(last, diff) \in Int /\ NextMsgId(last, diff) > last
<1>1. 4 * IdsPerSecond \in Int
  BY IdsPerSecondAssumption
<1>2. PlainNextMsgId(diff) \in Int
  BY <1>1 DEF PlainNextMsgId
<1> QED
  BY <1>2 DEF NextMsgId

-----------------------------------------------------------------------------
(* Type correctness                                                        *)

\* TypeOK is inductive once the packets in transit have identifiers that were
\* spent.
TypeInv ==
  /\ TypeOK
  /\ \A p \in Elements(toClient) : p.mid \in 1..packets

IdMap(m) == DOMAIN m \subseteq Int /\ m \in [DOMAIN m -> Calls]

LEMMA MapInsertType ==
  ASSUME NEW m, IdMap(m), NEW k \in Int, NEW c \in Calls
  PROVE  IdMap(MapInsert(m, k, c))
BY DEF IdMap, MapInsert

LEMMA MapRemoveType ==
  ASSUME NEW m, IdMap(m), NEW k
  PROVE  IdMap(MapRemove(m, k))
BY DEF IdMap, MapRemove

\* Writing to the socket appends at most one message to the stream.
LEMMA WriteType ==
  ASSUME TypeOK, NEW msg \in MessageType, Write(msg)
  PROVE  /\ toServer' \in Seq(MessageType) /\ initSeen' \in BOOLEAN
         /\ Elements(toServer') \subseteq
              Elements(toServer) \cup (IF Connected THEN {msg} ELSE {})
<1>1. CASE Connected
  <2>1. toServer' = Append(toServer, msg) /\ initSeen' = (initSeen \/ msg.init)
    BY <1>1 DEF Write
  <2>2. toServer \in Seq(MessageType)
    BY DEF TypeOK
  <2>3. msg.init \in BOOLEAN
    BY DEF MessageType
  <2>4. initSeen' \in BOOLEAN
    BY <2>1, <2>3 DEF TypeOK
  <2> QED
    BY <1>1, <2>1, <2>2, <2>4, AppendElements
<1>2. CASE ~Connected
  BY <1>2 DEF Write, TypeOK
<1> QED
  BY <1>1, <1>2

\* A query composed again keeps its type and all it does not say of the message.
LEMMA RenewedType ==
  ASSUME NEW rec \in QueryType, NEW k \in Int, NEW s \in Int
  PROVE  /\ Renewed(rec, k, s) \in QueryType
         /\ Renewed(rec, k, s).msgId = k /\ Renewed(rec, k, s).seqNo = s
         /\ Renewed(rec, k, s).state = rec.state
         /\ Renewed(rec, k, s).got = rec.got
BY DEF QueryType, Renewed

LEMMA ResentType ==
  ASSUME NEW q \in QueryType
  PROVE  /\ Resent(q) \in QueryType /\ Dropped(q) \in QueryType
         /\ Resent(q).state = q.state /\ Resent(q).msgId = q.msgId
         /\ Resent(q).seqNo = q.seqNo /\ Resent(q).got = q.got
         /\ Dropped(q).state = "discarded"
<1>1. q.resends - 1 \in Int
  BY DEF QueryType
<1>2. Resent(q) \in QueryType
  BY <1>1 DEF QueryType, Resent
<1>3. Dropped(q) \in QueryType
  BY <1>2 DEF QueryType, QueryStates, Dropped
<1> QED
  BY <1>2, <1>3 DEF QueryType, Resent, Dropped

LEMMA AckedType ==
  ASSUME NEW q \in QueryType
  PROVE  /\ Acked(q) \in QueryType
         /\ Acked(q).state = q.state /\ Acked(q).msgId = q.msgId
         /\ Acked(q).seqNo = q.seqNo /\ Acked(q).got = q.got
BY DEF QueryType, Acked

LEMMA SettledType ==
  ASSUME NEW q \in QueryType, NEW p \in PacketType
  PROVE  /\ Settled(q, p) \in QueryType
         /\ Settled(q, p).state \in {"answered", "failed"}
         /\ Settled(q, p).got = p.call /\ Settled(q, p).msgId = q.msgId
<1> DEFINE st == IF p.kind = "result" THEN "answered" ELSE "failed"
           a == Acked(q)
<1>1. a \in QueryType /\ a.msgId = q.msgId
  BY AckedType
<1>2. st \in QueryStates /\ st \in {"answered", "failed"} /\ p.call \in Calls \cup {NoCall}
  BY DEF QueryStates, PacketType
<1>3. Settled(q, p) = [a EXCEPT !.state = st, !.timer = FALSE, !.got = p.call]
  BY DEF Settled
<1> HIDE DEF st, a
<1> QED
  BY <1>1, <1>2, <1>3 DEF QueryType

LEMMA ComposeQueryType ==
  ASSUME TypeOK, NEW c \in Calls, NEW rec \in QueryType, NEW m, IdMap(m),
         NEW last \in Int, NEW diff \in Int, NEW seq \in Nat, NEW st \in Nat,
         ComposeQuery(c, rec, m, last, diff, seq, st)
  PROVE  /\ lastMsgId' \in Int /\ lastMsgId' > last /\ seqNo' \in Nat
         /\ query' \in [Calls -> QueryType] /\ IdMap(pending')
         /\ toServer' \in Seq(MessageType) /\ initSeen' \in BOOLEAN
<1> DEFINE id  == NextMsgId(last, diff)
           key == IF Connected THEN id ELSE Offline
           new == Renewed(rec, key, seq + 1)
           msg == Message(id, id, seq + 1, c, rec.init, st)
<1>1. id \in Int /\ id > last
  BY NextMsgIdIncreases DEF TypeOK
<1>2. key \in Int
  BY <1>1 DEF Offline
<1>3. new \in QueryType
  <2> seq + 1 \in Int
    OBVIOUS
  <2> HIDE DEF key
  <2> QED
    BY <1>2, RenewedType
<1>4. query' \in [Calls -> QueryType]
  BY <1>3 DEF ComposeQuery, TypeOK
<1>5. IdMap(pending')
  BY <1>2, MapInsertType DEF ComposeQuery
<1>6. msg \in MessageType
  BY <1>1 DEF Message, MessageType, QueryType
<1>7. Write(msg)
  BY DEF ComposeQuery
<1>8. toServer' \in Seq(MessageType) /\ initSeen' \in BOOLEAN
  BY <1>6, <1>7, WriteType
<1> QED
  BY <1>1, <1>4, <1>5, <1>8 DEF ComposeQuery

\* What receiving a packet does before its handler runs.
LEMMA ReceiveType ==
  ASSUME TypeInv, NEW kinds, NEW p, Receive(kinds, p)
  PROVE  /\ p \in PacketType /\ p \in Elements(toClient) /\ p.kind \in kinds
         /\ toClient' \in Seq(PacketType)
         /\ Elements(toClient') \subseteq Elements(toClient)
         /\ p.mid \in 1..packets
         /\ pendingAcks' \subseteq 1..packets /\ ackTimers' \subseteq pendingAcks'
         /\ salt' = p.salt /\ salt' \in Nat
         /\ LastOnReceipt(p.mid) \in Int /\ LastOnReceipt(p.mid) >= lastMsgId
         /\ SeqOnReceipt(p.mid) \in Nat /\ SeqOnReceipt(p.mid) >= seqNo
         /\ UNCHANGED <<conn, reconnect, initNeeded, clock, accepted, serverSalt,
                        packets, resyncs, drops>>
<1>1. toClient \in Seq(PacketType) /\ toClient # <<>> /\ p = Head(toClient)
  BY DEF TypeInv, TypeOK, Receive
<1>2. /\ toClient' = Tail(toClient) /\ p.kind \in kinds /\ salt' = p.salt
      /\ UNCHANGED <<conn, reconnect, initNeeded, clock, accepted, serverSalt,
                     packets, resyncs, drops>>
  BY DEF Receive, connVars, serverVars
<1>3. p \in PacketType /\ p \in Elements(toClient)
      /\ toClient' \in Seq(PacketType)
      /\ Elements(toClient') \subseteq Elements(toClient)
  BY <1>1, <1>2, TailElements
<1>4. p.mid \in 1..packets
  BY <1>3 DEF TypeInv
<1>5. pendingAcks' \subseteq 1..packets /\ ackTimers' \subseteq pendingAcks'
  BY <1>4 DEF Receive, AddToPendingAcks, TypeInv, TypeOK
<1>6. salt' \in Nat
  BY <1>2, <1>3 DEF PacketType
<1>7. LastAfterAcks \in Int /\ LastAfterAcks > lastMsgId
  BY NextMsgIdIncreases DEF LastAfterAcks, TypeInv, TypeOK
<1>8. /\ LastOnReceipt(p.mid) \in Int /\ LastOnReceipt(p.mid) >= lastMsgId
      /\ SeqOnReceipt(p.mid) \in Nat /\ SeqOnReceipt(p.mid) >= seqNo
  BY <1>7 DEF LastOnReceipt, SeqOnReceipt, TypeInv, TypeOK
<1> QED
  BY <1>2, <1>3, <1>4, <1>5, <1>6, <1>8

\* Sending a packet appends it to the stream under a fresh identifier.
LEMMA SendPacketType ==
  ASSUME TypeInv, NEW kind \in PacketKinds, NEW ids \in Seq(Int),
         NEW c \in Calls \cup {NoCall}, SendPacket(kind, ids, c)
  PROVE  /\ toClient' \in Seq(PacketType)
         /\ Elements(toClient') = Elements(toClient) \cup {Packet(kind, ids, c)}
         /\ Packet(kind, ids, c) \in PacketType
         /\ packets' = packets + 1 /\ packets' \in Nat
         /\ \A p \in Elements(toClient') : p.mid \in 1..packets'
<1> DEFINE p == Packet(kind, ids, c)
<1>1. packets' = packets + 1 /\ toClient' = Append(toClient, p) /\ packets \in Nat
  BY DEF SendPacket, TypeInv, TypeOK
<1>2. p \in PacketType /\ p.mid = packets + 1
  BY ClockAssumption DEF TypeInv, TypeOK, Packet, PacketType
<1>3. toClient' \in Seq(PacketType) /\ Elements(toClient') = Elements(toClient) \cup {p}
  <2> toClient \in Seq(PacketType)
    BY DEF TypeInv, TypeOK
  <2> QED
    BY <1>1, <1>2, AppendElements
<1>4. \A q \in Elements(toClient) : q.mid \in 1..packets
  BY DEF TypeInv
<1>5. 1..packets \subseteq 1..packets' /\ packets + 1 \in 1..packets'
  BY <1>1
<1> QED
  BY <1>1, <1>2, <1>3, <1>4, <1>5

LEMMA TypeInvInit ==
  ASSUME Init
  PROVE  TypeInv
<1>1. query \in [Calls -> QueryType]
  BY MaxResendsAssumption DEF Init, NewQuery, QueryType, QueryStates, Offline
<1>2. pending \in [DOMAIN pending -> Calls] /\ DOMAIN pending \subseteq Int
  BY DEF Init
<1>3. Elements(toClient) = {}
  BY DEF Init, Elements
<1>4. toServer \in Seq(MessageType) /\ toClient \in Seq(PacketType)
  <2> toServer = <<>> /\ toClient = <<>>
    BY DEF Init
  <2> QED
    OBVIOUS
<1>5. pendingAcks \subseteq 1..packets /\ ackTimers \subseteq pendingAcks
      /\ accepted \subseteq [id : Int, call : Calls]
  BY DEF Init
<1>6. reconnect \in BOOLEAN /\ initNeeded \in BOOLEAN /\ initSeen \in BOOLEAN
  BY Zenon DEF Init
<1>7. /\ conn \in {"unconnected", "connecting", "connected"}
      /\ lastMsgId \in Int /\ timeDiff \in Int /\ seqNo \in Nat
      /\ salt \in Nat /\ serverSalt \in Nat /\ clock \in Nat
      /\ packets \in Nat /\ drops \in Nat /\ resyncs \in Nat
  BY ClockAssumption DEF Init
<1> QED
  BY <1>1, <1>2, <1>3, <1>4, <1>5, <1>6, <1>7 DEF TypeInv, TypeOK

LEMMA TypeInvSendQuery ==
  ASSUME TypeInv, NEW c \in Calls, SendQuery(c)
  PROVE  TypeInv'
<1> DEFINE new == NewQuery("live", ResendQueries, initNeeded)
<1>1. new \in QueryType
  BY MaxResendsAssumption, ResendQueriesAssumption
  DEF TypeInv, TypeOK, NewQuery, QueryType, QueryStates, Offline
<1>2. ComposeQuery(c, new, pending, lastMsgId, timeDiff, seqNo, salt)
  BY DEF SendQuery
<1>3. /\ lastMsgId' \in Int /\ seqNo' \in Nat
      /\ query' \in [Calls -> QueryType] /\ IdMap(pending')
      /\ toServer' \in Seq(MessageType) /\ initSeen' \in BOOLEAN
  <2> TypeOK /\ IdMap(pending) /\ lastMsgId \in Int /\ timeDiff \in Int
      /\ seqNo \in Nat /\ salt \in Nat
    BY DEF TypeInv, TypeOK, IdMap
  <2> HIDE DEF new
  <2> QED
    BY <1>1, <1>2, ComposeQueryType
<1>4. /\ initNeeded' \in BOOLEAN
      /\ UNCHANGED <<connVars, timeDiff, ackVars, salt, clock, toClient,
                     serverVars, drops>>
  BY DEF SendQuery
<1> QED
  BY <1>3, <1>4
  DEF TypeInv, TypeOK, IdMap, connVars, ackVars, serverVars, Elements

LEMMA TypeInvQueryTimeout ==
  ASSUME TypeInv, NEW c \in Calls, QueryTimeout(c)
  PROVE  TypeInv'
<1> DEFINE q == query[c]
           outer == NextMsgId(lastMsgId, timeDiff)
           msg == Message(outer, q.msgId, q.seqNo, c, q.init, salt)
<1>1. q \in QueryType /\ outer \in Int /\ IdMap(pending)
  BY NextMsgIdIncreases DEF TypeInv, TypeOK, IdMap
<1>2. msg \in MessageType
  BY <1>1 DEF Message, MessageType, QueryType, TypeInv, TypeOK
<1>3. /\ lastMsgId' \in Int /\ seqNo' \in Nat /\ query' \in [Calls -> QueryType]
      /\ IdMap(pending') /\ toServer' \in Seq(MessageType) /\ initSeen' \in BOOLEAN
  <2>1. CASE q.acked
    <3>1. /\ query' = [query EXCEPT ![c].timer = FALSE]
          /\ UNCHANGED <<lastMsgId, seqNo, pending, toServer, initSeen>>
      BY <2>1 DEF QueryTimeout
    <3> QED
      BY <1>1, <3>1 DEF TypeInv, TypeOK, IdMap, QueryType
  <2>2. CASE ~q.acked /\ q.resends - 1 < 0
    <3>1. /\ query' = [query EXCEPT ![c] = Dropped(q)]
          /\ pending' = MapRemove(pending, q.msgId)
          /\ UNCHANGED <<lastMsgId, seqNo, toServer, initSeen>>
      BY <2>2 DEF QueryTimeout
    <3>2. Dropped(q) \in QueryType
      BY <1>1, ResentType
    <3> QED
      BY <1>1, <3>1, <3>2, MapRemoveType DEF TypeInv, TypeOK
  <2>3. CASE ~q.acked /\ ~(q.resends - 1 < 0)
    <3>1. /\ query' = [query EXCEPT ![c] = Resent(q)]
          /\ lastMsgId' = outer /\ seqNo' = seqNo + 2 /\ Write(msg)
          /\ UNCHANGED pending
      BY <2>3 DEF QueryTimeout
    <3>2. toServer' \in Seq(MessageType) /\ initSeen' \in BOOLEAN
      BY <1>2, <3>1, WriteType DEF TypeInv
    <3>3. query' \in [Calls -> QueryType]
      BY <1>1, <3>1, ResentType DEF TypeInv, TypeOK
    <3> QED
      BY <1>1, <3>1, <3>2, <3>3 DEF TypeInv, TypeOK, IdMap
  <2> QED
    BY <2>1, <2>2, <2>3
<1>4. UNCHANGED <<connVars, timeDiff, initNeeded, ackVars, salt, clock, toClient,
                  serverVars, drops>>
  BY DEF QueryTimeout
<1> QED
  BY <1>3, <1>4
  DEF TypeInv, TypeOK, IdMap, connVars, ackVars, serverVars, Elements

LEMMA TypeInvAckTimeout ==
  ASSUME TypeInv, NEW mid \in ackTimers, AckTimeout(mid)
  PROVE  TypeInv'
<1>1. LastAfterAcks \in Int
  BY NextMsgIdIncreases DEF LastAfterAcks, TypeInv, TypeOK
<1>2. /\ lastMsgId' \in Int /\ seqNo' \in Nat
      /\ pendingAcks' \subseteq 1..packets /\ ackTimers' \subseteq pendingAcks'
  BY <1>1 DEF AckTimeout, TypeInv, TypeOK
<1>3. UNCHANGED <<connVars, timeDiff, initNeeded, queryVars, salt, clock, toServer,
                  toClient, serverVars, initSeen, drops>>
  BY DEF AckTimeout
<1> QED
  BY <1>2, <1>3
  DEF TypeInv, TypeOK, connVars, queryVars, serverVars, Elements

\* A handler preserves types if what it computes is typed.
LEMMA TypeInvReceive ==
  ASSUME TypeInv, NEW kinds, NEW p, Receive(kinds, p),
         lastMsgId' \in Int, timeDiff' \in Int, seqNo' \in Nat,
         query' \in [Calls -> QueryType], IdMap(pending'),
         toServer' \in Seq(MessageType), initSeen' \in BOOLEAN
  PROVE  TypeInv'
BY ReceiveType DEF TypeInv, TypeOK, IdMap

LEMMA TypeInvRpcResult ==
  ASSUME TypeInv, NEW p, WorkRpcResult(p)
  PROVE  TypeInv'
<1> DEFINE id == p.ids[1]
<1>1. Receive({"result", "error"}, p)
  BY DEF WorkRpcResult
<1>2. p \in PacketType /\ LastOnReceipt(p.mid) \in Int /\ SeqOnReceipt(p.mid) \in Nat
  BY <1>1, ReceiveType
<1>3. /\ lastMsgId' \in Int /\ timeDiff' \in Int /\ seqNo' \in Nat
      /\ toServer' \in Seq(MessageType) /\ initSeen' \in BOOLEAN
  BY <1>2 DEF WorkRpcResult, SpendAcksOnly, TypeInv, TypeOK
<1>4. query' \in [Calls -> QueryType] /\ IdMap(pending')
  <2>1. CASE id \in DOMAIN pending
    <3> DEFINE c == pending[id]
    <3>1. c \in Calls /\ query[c] \in QueryType
      BY <2>1 DEF TypeInv, TypeOK
    <3>2. /\ pending' = MapRemove(pending, id)
          /\ query' = [query EXCEPT ![c] = Settled(query[c], p)]
      BY <2>1 DEF WorkRpcResult
    <3>3. Settled(query[c], p) \in QueryType
      BY <1>2, <3>1, SettledType
    <3>4. IdMap(pending')
      BY <3>2, MapRemoveType DEF TypeInv, TypeOK, IdMap
    <3> QED
      BY <3>1, <3>2, <3>3, <3>4 DEF TypeInv, TypeOK
  <2>2. CASE id \notin DOMAIN pending
    BY <2>2 DEF WorkRpcResult, queryVars, TypeInv, TypeOK, IdMap
  <2> QED
    BY <2>1, <2>2
<1> QED
  BY <1>1, <1>3, <1>4, TypeInvReceive

LEMMA TypeInvMsgsAck ==
  ASSUME TypeInv, NEW p, WorkMsgsAck(p)
  PROVE  TypeInv'
<1>1. Receive({"ack"}, p)
  BY DEF WorkMsgsAck
<1>2. LastOnReceipt(p.mid) \in Int /\ SeqOnReceipt(p.mid) \in Nat
  BY <1>1, ReceiveType
<1>3. /\ lastMsgId' \in Int /\ timeDiff' \in Int /\ seqNo' \in Nat
      /\ toServer' \in Seq(MessageType) /\ initSeen' \in BOOLEAN /\ IdMap(pending')
  BY <1>2 DEF WorkMsgsAck, SpendAcksOnly, TypeInv, TypeOK, IdMap
<1>4. query' \in [Calls -> QueryType]
  <2>1. \A c \in Calls : query[c] \in QueryType /\ Acked(query[c]) \in QueryType
    BY AckedType DEF TypeInv, TypeOK
  <2> QED
    BY <2>1 DEF WorkMsgsAck
<1> QED
  BY <1>1, <1>3, <1>4, TypeInvReceive

LEMMA RecomposeType ==
  ASSUME TypeInv, NEW p \in PacketType,
         NEW last \in Int, NEW diff \in Int, NEW seq \in Nat,
         Recompose(p, last, diff, seq)
  PROVE  /\ lastMsgId' \in Int /\ lastMsgId' >= last /\ seqNo' \in Nat
         /\ query' \in [Calls -> QueryType] /\ IdMap(pending')
         /\ toServer' \in Seq(MessageType) /\ initSeen' \in BOOLEAN
<1> DEFINE bad == p.ids[1]
           c == pending[bad]
<1>1. CASE bad \in DOMAIN pending
  <2>1. ComposeQuery(c, query[c], MapRemove(pending, bad), last, diff, seq, p.salt)
    BY <1>1 DEF Recompose
  <2>2. c \in Calls /\ query[c] \in QueryType /\ IdMap(MapRemove(pending, bad))
        /\ p.salt \in Nat /\ TypeOK
    BY <1>1, MapRemoveType DEF TypeInv, TypeOK, IdMap, PacketType
  <2> HIDE DEF c
  <2> QED
    BY <2>1, <2>2, ComposeQueryType
<1>2. CASE bad \notin DOMAIN pending
  BY <1>2 DEF Recompose, queryVars, TypeInv, TypeOK, IdMap
<1> QED
  BY <1>1, <1>2

LEMMA TypeInvBadServerSalt ==
  ASSUME TypeInv, NEW p, WorkBadServerSalt(p)
  PROVE  TypeInv'
<1>1. Receive({"badSalt"}, p)
  BY DEF WorkBadServerSalt
<1>2. /\ p \in PacketType
      /\ LastOnReceipt(p.mid) \in Int /\ SeqOnReceipt(p.mid) \in Nat
      /\ timeDiff \in Int
  BY <1>1, ReceiveType DEF TypeInv, TypeOK
<1>3. Recompose(p, LastOnReceipt(p.mid), timeDiff, SeqOnReceipt(p.mid))
      /\ timeDiff' = timeDiff
  BY DEF WorkBadServerSalt
<1> QED
  BY <1>1, <1>2, <1>3, RecomposeType, TypeInvReceive

LEMMA TypeInvBadMsgNotification ==
  ASSUME TypeInv, NEW p, WorkBadMsgNotification(p)
  PROVE  TypeInv'
<1> DEFINE diff == clock - p.time
           last == IF PlainNextMsgId(diff) \in DOMAIN pending
                   THEN LastOnReceipt(p.mid) ELSE 0
<1>1. Receive({"badMsg"}, p)
  BY DEF WorkBadMsgNotification
<1>2. /\ p \in PacketType
      /\ LastOnReceipt(p.mid) \in Int /\ SeqOnReceipt(p.mid) \in Nat
  BY <1>1, ReceiveType
<1>3. diff \in Int /\ last \in Int
  BY <1>2 DEF TypeInv, TypeOK, PacketType
<1>4. Recompose(p, last, diff, SeqOnReceipt(p.mid)) /\ timeDiff' = diff
  BY DEF WorkBadMsgNotification
<1> HIDE DEF diff, last
<1>5. timeDiff' \in Int
  BY <1>3, <1>4
<1> QED
  BY <1>1, <1>2, <1>3, <1>4, <1>5, RecomposeType, TypeInvReceive

LEMMA TypeInvOther ==
  ASSUME TypeInv, NEW p, WorkOther(p)
  PROVE  TypeInv'
<1>1. Receive({"other"}, p)
  BY DEF WorkOther
<1>2. LastOnReceipt(p.mid) \in Int /\ SeqOnReceipt(p.mid) \in Nat
  BY <1>1, ReceiveType
<1>3. /\ lastMsgId' \in Int /\ timeDiff' \in Int /\ seqNo' \in Nat
      /\ toServer' \in Seq(MessageType) /\ initSeen' \in BOOLEAN /\ IdMap(pending')
      /\ query' \in [Calls -> QueryType]
  BY <1>2 DEF WorkOther, SpendAcksOnly, queryVars, TypeInv, TypeOK, IdMap
<1> QED
  BY <1>1, <1>3, TypeInvReceive

LEMMA TypeInvConnection ==
  ASSUME TypeInv,
         \/ ConnectToServer \/ OnConnected \/ \E retried \in BOOLEAN : OnError(retried)
  PROVE  TypeInv'
<1>1. CASE ConnectToServer
  <2>1. conn' \in {"unconnected", "connecting", "connected"} /\ reconnect' \in BOOLEAN
    BY <1>1 DEF ConnectToServer, TypeInv, TypeOK
  <2>2. UNCHANGED <<idVars, initNeeded, queryVars, ackVars, salt, clock, toServer,
                    toClient, serverVars, initSeen, drops>>
    BY <1>1 DEF ConnectToServer
  <2> QED
    BY <2>1, <2>2
    DEF TypeInv, TypeOK, idVars, queryVars, ackVars, serverVars, Elements
<1>2. CASE OnConnected
  <2>1. /\ conn' = "connected" /\ pendingAcks' = {} /\ ackTimers' = {}
        /\ lastMsgId' = LastAfterAcks /\ seqNo' = seqNo + 2
        /\ UNCHANGED <<reconnect, timeDiff, initNeeded, queryVars, salt, clock,
                       toServer, toClient, serverVars, initSeen, drops>>
    BY <1>2 DEF OnConnected, AckAll
  <2>2. lastMsgId' \in Int /\ seqNo' \in Nat
    BY <2>1, NextMsgIdIncreases DEF LastAfterAcks, TypeInv, TypeOK
  <2> QED
    BY <2>1, <2>2 DEF TypeInv, TypeOK, queryVars, serverVars, Elements
<1>3. ASSUME NEW retried \in BOOLEAN, OnError(retried)
      PROVE  TypeInv'
  <2>1. /\ conn' = "unconnected" /\ reconnect' = (reconnect \/ retried)
        /\ drops' = drops + 1 /\ toServer' = <<>>
        /\ UNCHANGED <<idVars, initNeeded, queryVars, ackVars, salt, clock,
                       serverVars, initSeen>>
    BY <1>3 DEF OnError
  <2>2. reconnect' \in BOOLEAN
    BY <2>1 DEF TypeInv, TypeOK
  <2>3. toServer' \in Seq(MessageType)
    BY <2>1
  <2>4. PICK n \in 0..Len(toClient) : toClient' = SubSeq(toClient, 1, n)
    BY <1>3 DEF OnError
  <2>5. toClient' \in Seq(PacketType) /\ Elements(toClient') \subseteq Elements(toClient)
    BY <2>4, PrefixElements DEF TypeInv, TypeOK
  <2> QED
    BY <2>1, <2>2, <2>3, <2>5
    DEF TypeInv, TypeOK, idVars, queryVars, ackVars, serverVars
<1> QED
  BY <1>1, <1>2, <1>3

\* What the server reads is the oldest message in the stream.
LEMMA ReadType ==
  ASSUME TypeInv, toServer # <<>>
  PROVE  /\ Head(toServer) \in MessageType /\ Head(toServer) \in Elements(toServer)
         /\ Tail(toServer) \in Seq(MessageType)
         /\ Elements(Tail(toServer)) \subseteq Elements(toServer)
BY TailElements DEF TypeInv, TypeOK

LEMMA TypeInvServer ==
  ASSUME TypeInv, Server
  PROVE  TypeInv'
<1> DEFINE m == Head(toServer)
<1>0. TypeOK /\ accepted \subseteq [id : Int, call : Calls]
  BY DEF TypeInv, TypeOK
<1>1. ASSUME ServerUnchanged, toServer' \in Seq(MessageType),
             serverSalt' \in Nat, resyncs' \in Nat, UNCHANGED accepted,
             NEW kind \in PacketKinds, NEW ids \in Seq(Int),
             NEW c \in Calls \cup {NoCall}, SendPacket(kind, ids, c)
      PROVE  TypeInv'
  <2>1. /\ toClient' \in Seq(PacketType) /\ packets' \in Nat /\ packets' = packets + 1
        /\ \A p \in Elements(toClient') : p.mid \in 1..packets'
    BY <1>1, SendPacketType
  <2>2. 1..packets \subseteq 1..packets'
    BY <2>1 DEF TypeInv, TypeOK
  <2> QED
    BY <1>1, <2>1, <2>2
    DEF ServerUnchanged, TypeInv, TypeOK, connVars, idVars, queryVars, ackVars
<1>2. CASE ServerAccept
  <2>1. toServer # <<>> /\ toServer' = Tail(toServer) /\ ServerUnchanged
        /\ UNCHANGED <<toClient, serverSalt, packets, resyncs>>
        /\ accepted' \subseteq accepted \cup {[id |-> m.id, call |-> m.call]}
    BY <1>2 DEF ServerAccept
  <2>2. m \in MessageType /\ toServer' \in Seq(MessageType)
    BY <2>1, ReadType
  <2>3. [id |-> m.id, call |-> m.call] \in [id : Int, call : Calls]
    BY <2>2 DEF MessageType
  <2> QED
    BY <1>0, <2>1, <2>2, <2>3
    DEF ServerUnchanged, TypeInv, TypeOK, connVars, idVars, queryVars, ackVars, Elements
<1>3. CASE ServerRejectSalt
  <2>1. /\ toServer # <<>> /\ toServer' = Tail(toServer) /\ ServerUnchanged
        /\ SendPacket("badSalt", <<m.outer>>, NoCall)
        /\ UNCHANGED <<accepted, serverSalt, resyncs>>
    BY <1>3 DEF ServerRejectSalt
  <2>2. toServer' \in Seq(MessageType) /\ <<m.outer>> \in Seq(Int)
    BY <2>1, ReadType DEF MessageType
  <2> QED
    BY <1>1, <2>1, <2>2 DEF PacketKinds, TypeInv, TypeOK
<1>4. CASE ServerRejectMessage
  <2>1. /\ toServer # <<>> /\ toServer' = Tail(toServer) /\ ServerUnchanged
        /\ UNCHANGED <<accepted, serverSalt>>
    BY <1>4 DEF ServerRejectMessage
  <2>2. \/ resyncs' = resyncs + 1 /\ SendPacket("badMsg", <<m.outer>>, NoCall)
        \/ UNCHANGED resyncs /\ SendPacket("other", <<>>, NoCall)
    BY <1>4 DEF ServerRejectMessage
  <2>3. toServer' \in Seq(MessageType) /\ <<m.outer>> \in Seq(Int)
    BY <2>1, ReadType DEF MessageType
  <2>4. <<>> \in Seq(Int)
    OBVIOUS
  <2>5. resyncs' \in Nat /\ serverSalt' \in Nat
    BY <2>1, <2>2 DEF TypeInv, TypeOK
  <2> QED
    BY <1>1, <2>1, <2>2, <2>3, <2>4, <2>5 DEF PacketKinds
<1>5. CASE ServerReply
  <2>1. PICK a \in accepted, kind \in {"result", "error"} :
          /\ SendPacket(kind, <<a.id>>, a.call) /\ ServerUnchanged
          /\ UNCHANGED <<toServer, accepted, serverSalt, resyncs>>
    BY <1>5 DEF ServerReply
  <2>2. <<a.id>> \in Seq(Int) /\ a.call \in Calls \cup {NoCall} /\ kind \in PacketKinds
    BY <1>0 DEF PacketKinds
  <2> QED
    BY <1>1, <2>1, <2>2 DEF TypeInv, TypeOK
<1>6. CASE ServerAck
  <2>1. PICK a \in accepted, b \in accepted :
          /\ SendPacket("ack", IF a = b THEN <<a.id>> ELSE <<a.id, b.id>>, NoCall)
          /\ ServerUnchanged
          /\ UNCHANGED <<toServer, accepted, serverSalt, resyncs>>
    BY <1>6 DEF ServerAck
  <2>2. (IF a = b THEN <<a.id>> ELSE <<a.id, b.id>>) \in Seq(Int)
    BY <1>0
  <2>3. "ack" \in PacketKinds
    BY DEF PacketKinds
  <2> QED
    BY <1>1, <2>1, <2>2, <2>3 DEF TypeInv, TypeOK
<1>7. CASE ServerOther
  <2>1. /\ SendPacket("other", <<>>, NoCall) /\ ServerUnchanged
        /\ UNCHANGED <<toServer, accepted, serverSalt, resyncs>>
    BY <1>7 DEF ServerOther
  <2>2. <<>> \in Seq(Int) /\ "other" \in PacketKinds
    BY DEF PacketKinds
  <2> QED
    BY <1>1, <2>1, <2>2 DEF TypeInv, TypeOK
<1>8. CASE ServerChangeSalt
  BY <1>8 DEF ServerChangeSalt, ServerUnchanged, TypeInv, TypeOK, connVars, idVars,
              queryVars, ackVars, Elements
<1> QED
  BY <1>2, <1>3, <1>4, <1>5, <1>6, <1>7, <1>8 DEF Server

LEMMA TypeInvTick ==
  ASSUME TypeInv, Tick
  PROVE  TypeInv'
BY DEF Tick, TypeInv, TypeOK, connVars, idVars, queryVars, ackVars, serverVars, Elements

LEMMA TypeInvStutter ==
  ASSUME TypeInv, UNCHANGED vars
  PROVE  TypeInv'
BY DEF vars, TypeInv, TypeOK, Elements

LEMMA TypeInvStep ==
  ASSUME TypeInv, [Next]_vars
  PROVE  TypeInv'
<1>1. ASSUME NEW c \in Calls, SendQuery(c) \/ QueryTimeout(c) PROVE TypeInv'
  BY <1>1, TypeInvSendQuery, TypeInvQueryTimeout
<1>2. ASSUME NEW mid \in ackTimers, AckTimeout(mid) PROVE TypeInv'
  BY <1>2, TypeInvAckTimeout
<1>3. CASE ProcessPacket
  BY <1>3, TypeInvRpcResult, TypeInvMsgsAck, TypeInvBadServerSalt,
     TypeInvBadMsgNotification, TypeInvOther DEF ProcessPacket
<1>4. CASE ConnectToServer \/ OnConnected \/ \E retried \in BOOLEAN : OnError(retried)
  BY <1>4, TypeInvConnection
<1>5. CASE Server
  BY <1>5, TypeInvServer
<1>6. CASE Tick
  BY <1>6, TypeInvTick
<1>7. CASE UNCHANGED vars
  BY <1>7, TypeInvStutter
<1> QED
  BY <1>1, <1>2, <1>3, <1>4, <1>5, <1>6, <1>7 DEF Next

LEMMA TypeInvAlways == Spec => []TypeInv
BY TypeInvInit, TypeInvStep, PTL DEF Spec

\* Every variable of a session keeps its type; in particular a timer runs only
\* for an acknowledgement that is pending, and only for packets that were sent.
THEOREM TypeCorrect == Spec => []TypeOK
<1>1. TypeInv => TypeOK
  BY DEF TypeInv
<1> QED
  BY <1>1, TypeInvAlways, PTL

-----------------------------------------------------------------------------
(* Pending queries                                                         *)

\* Composing call c again, when no other pending entry refers to it, files it
\* under the identifier it was sent with.
LEMMA ComposeQueryFiles ==
  ASSUME TypeOK, NEW c \in Calls, NEW rec \in QueryType, rec.state = "live",
         NEW m, IdMap(m),
         \A k \in DOMAIN m : m[k] # c /\ Live(m[k]) /\ query[m[k]].msgId = k,
         NEW last \in Int, NEW diff \in Int, NEW seq \in Nat, NEW st \in Nat,
         ComposeQuery(c, rec, m, last, diff, seq, st)
  PROVE  PendingIsLive'
<1> DEFINE key == IF Connected THEN NextMsgId(last, diff) ELSE Offline
<1>1. key \in Int /\ seq + 1 \in Int
  <2> NextMsgId(last, diff) \in Int
    BY NextMsgIdIncreases DEF TypeOK
  <2> QED
    BY DEF Offline
<1>2. /\ query' = [query EXCEPT ![c] = Renewed(rec, key, seq + 1)]
      /\ pending' = MapInsert(m, key, c)
  BY DEF ComposeQuery
<1> HIDE DEF key
<1>3. query'[c].state = "live" /\ query'[c].msgId = key
  <2> query'[c] = Renewed(rec, key, seq + 1)
    BY <1>2 DEF TypeOK
  <2> QED
    BY <1>1, RenewedType
<1>4. \A k \in DOMAIN pending' : IF k = key THEN pending'[k] = c
                                 ELSE k \in DOMAIN m /\ pending'[k] = m[k]
  BY <1>2 DEF MapInsert
<1>5. \A d \in Calls : d # c => query'[d] = query[d]
  BY <1>2 DEF TypeOK
<1>6. \A k \in DOMAIN m : m[k] \in Calls
  BY DEF IdMap
<1> QED
  BY <1>3, <1>4, <1>5, <1>6 DEF PendingIsLive, Live

LEMMA PendingLiveRecompose ==
  ASSUME TypeInv, PendingIsLive, NEW p \in PacketType,
         NEW last \in Int, NEW diff \in Int, NEW seq \in Nat,
         Recompose(p, last, diff, seq)
  PROVE  PendingIsLive'
<1> DEFINE bad == p.ids[1]
           c == pending[bad]
           m == MapRemove(pending, bad)
<1>1. CASE bad \in DOMAIN pending
  <2>1. ComposeQuery(c, query[c], m, last, diff, seq, p.salt)
    BY <1>1 DEF Recompose
  <2>2. c \in Calls /\ query[c] \in QueryType /\ IdMap(m)
        /\ p.salt \in Nat /\ TypeOK /\ query[c].state = "live"
    BY <1>1, MapRemoveType
    DEF TypeInv, TypeOK, IdMap, PacketType, PendingIsLive, Live
  <2>3. \A k \in DOMAIN m : m[k] # c /\ Live(m[k]) /\ query[m[k]].msgId = k
    BY <1>1 DEF MapRemove, PendingIsLive
  <2> HIDE DEF c, m
  <2> QED
    BY <2>1, <2>2, <2>3, ComposeQueryFiles
<1>2. CASE bad \notin DOMAIN pending
  BY <1>2 DEF Recompose, queryVars, PendingIsLive, Live
<1> QED
  BY <1>1, <1>2

LEMMA PendingLiveStep ==
  ASSUME TypeInv, PendingIsLive, [Next]_vars
  PROVE  PendingIsLive'
<1>0. /\ TypeOK /\ IdMap(pending) /\ query \in [Calls -> QueryType]
      /\ lastMsgId \in Int /\ timeDiff \in Int /\ seqNo \in Nat /\ salt \in Nat
  BY DEF TypeInv, TypeOK, IdMap
<1>1. ASSUME UNCHANGED queryVars PROVE PendingIsLive'
  BY <1>1 DEF queryVars, PendingIsLive, Live
<1>2. ASSUME NEW c \in Calls, SendQuery(c) PROVE PendingIsLive'
  <2>1. NewQuery("live", ResendQueries, initNeeded) \in QueryType
        /\ NewQuery("live", ResendQueries, initNeeded).state = "live"
    BY MaxResendsAssumption, ResendQueriesAssumption
    DEF TypeInv, TypeOK, NewQuery, QueryType, QueryStates, Offline
  <2>2. \A k \in DOMAIN pending :
          pending[k] # c /\ Live(pending[k]) /\ query[pending[k]].msgId = k
    BY <1>2 DEF SendQuery, PendingIsLive, Live
  <2> QED
    BY <1>0, <1>2, <2>1, <2>2, ComposeQueryFiles DEF SendQuery
<1>3. ASSUME NEW c \in Calls, QueryTimeout(c) PROVE PendingIsLive'
  <2>1. CASE query[c].acked
    <3>1. query' = [query EXCEPT ![c].timer = FALSE] /\ UNCHANGED pending
      BY <1>3, <2>1 DEF QueryTimeout
    <3> QED
      BY <1>0, <3>1 DEF PendingIsLive, Live, IdMap, QueryType
  <2>2. CASE ~query[c].acked /\ query[c].resends - 1 < 0
    <3>1. /\ query' = [query EXCEPT ![c] = Dropped(query[c])]
          /\ pending' = MapRemove(pending, query[c].msgId)
      BY <1>3, <2>2 DEF QueryTimeout
    <3>2. \A k \in DOMAIN pending' : k \in DOMAIN pending /\ pending'[k] = pending[k]
                                     /\ pending[k] # c
      BY <3>1 DEF MapRemove, PendingIsLive
    <3> QED
      BY <1>0, <3>1, <3>2 DEF PendingIsLive, Live
  <2>3. CASE ~query[c].acked /\ ~(query[c].resends - 1 < 0)
    <3>1. query' = [query EXCEPT ![c] = Resent(query[c])] /\ UNCHANGED pending
      BY <1>3, <2>3 DEF QueryTimeout
    <3>2. query[c] \in QueryType
      BY <1>0
    <3> QED
      BY <1>0, <3>1, <3>2, ResentType DEF PendingIsLive, Live, IdMap
  <2> QED
    BY <2>1, <2>2, <2>3
<1>4. ASSUME NEW p, WorkRpcResult(p) PROVE PendingIsLive'
  <2> DEFINE id == p.ids[1]
             c == pending[id]
  <2>1. CASE id \in DOMAIN pending
    <3>1. pending' = MapRemove(pending, id) /\ query' = [query EXCEPT ![c] = Settled(@, p)]
      BY <1>4, <2>1 DEF WorkRpcResult
    <3>2. \A k \in DOMAIN pending' : k \in DOMAIN pending /\ pending'[k] = pending[k]
                                     /\ pending[k] # c
      BY <2>1, <3>1 DEF MapRemove, PendingIsLive
    <3> QED
      BY <1>0, <3>1, <3>2 DEF PendingIsLive, Live
  <2>2. CASE id \notin DOMAIN pending
    BY <1>1, <1>4, <2>2 DEF WorkRpcResult
  <2> QED
    BY <2>1, <2>2
<1>5. ASSUME NEW p, WorkMsgsAck(p) PROVE PendingIsLive'
  <2>1. \A c \in Calls : query'[c].state = query[c].state /\ query'[c].msgId = query[c].msgId
    BY <1>0, <1>5, AckedType DEF WorkMsgsAck
  <2>2. pending' = pending
    BY <1>5 DEF WorkMsgsAck
  <2> QED
    BY <1>0, <2>1, <2>2 DEF PendingIsLive, Live, IdMap
<1>6. ASSUME NEW p, WorkBadServerSalt(p) PROVE PendingIsLive'
  <2>1. Receive({"badSalt"}, p)
        /\ Recompose(p, LastOnReceipt(p.mid), timeDiff, SeqOnReceipt(p.mid))
    BY <1>6 DEF WorkBadServerSalt
  <2> QED
    BY <1>0, <2>1, ReceiveType, PendingLiveRecompose
<1>7. ASSUME NEW p, WorkBadMsgNotification(p) PROVE PendingIsLive'
  <2> DEFINE diff == clock - p.time
             last == IF PlainNextMsgId(diff) \in DOMAIN pending
                     THEN LastOnReceipt(p.mid) ELSE 0
  <2>1. Receive({"badMsg"}, p) /\ Recompose(p, last, diff, SeqOnReceipt(p.mid))
    BY <1>7 DEF WorkBadMsgNotification
  <2>2. /\ p \in PacketType
        /\ LastOnReceipt(p.mid) \in Int /\ SeqOnReceipt(p.mid) \in Nat
    BY <2>1, ReceiveType
  <2>3. diff \in Int /\ last \in Int
    BY <2>2 DEF TypeInv, TypeOK, PacketType
  <2> HIDE DEF diff, last
  <2> QED
    BY <2>1, <2>2, <2>3, PendingLiveRecompose
<1>8. ASSUME ServerUnchanged PROVE PendingIsLive'
  BY <1>1, <1>8 DEF ServerUnchanged
<1>9. CASE ProcessPacket
  <2>1. ASSUME NEW p, WorkOther(p) PROVE PendingIsLive'
    BY <1>1, <2>1 DEF WorkOther
  <2> QED
    BY <1>4, <1>5, <1>6, <1>7, <1>9, <2>1 DEF ProcessPacket
<1>10. CASE Server
  BY <1>8, <1>10 DEF Server, ServerAccept, ServerRejectSalt, ServerRejectMessage,
     ServerReply, ServerAck, ServerOther, ServerChangeSalt
<1>11. CASE \/ \E mid \in ackTimers : AckTimeout(mid)
            \/ ConnectToServer \/ OnConnected \/ Tick
            \/ \E retried \in BOOLEAN : OnError(retried)
  BY <1>1, <1>11 DEF AckTimeout, ConnectToServer, OnConnected, OnError, Tick
<1>12. CASE UNCHANGED vars
  BY <1>1, <1>12 DEF vars, queryVars
<1> QED
  BY <1>2, <1>3, <1>9, <1>10, <1>11, <1>12 DEF Next

\* m_pendingQueries holds exactly live queries under the identifiers they were
\* last sent with, whatever is lost, rejected, resent or resynchronised: no
\* handler reaches a Query object that was deleted.
THEOREM PendingLive == Spec => []PendingIsLive
<1>1. Init => PendingIsLive
  BY DEF Init, PendingIsLive
<1>2. TypeInv /\ PendingIsLive /\ [Next]_vars => PendingIsLive'
  BY PendingLiveStep
<1> QED
  BY <1>1, <1>2, TypeInvAlways, PTL DEF Spec

-----------------------------------------------------------------------------
(* Identifiers, while no bad_msg_notification restarts them                *)

\* What the server has, or may still read, under a real identifier.
SentAs ==
  {[id |-> m.id, call |-> m.call] : m \in {x \in Elements(toServer) : x.id # Offline}}
    \cup accepted

\* No packet restarts the identifiers and a reply is about an accepted query.
ReplyOK(p) ==
  /\ p.kind # "badMsg"
  /\ p.kind \in {"result", "error"} => [id |-> p.ids[1], call |-> p.call] \in accepted

\* A real identifier names one call, at the server and in m_pendingQueries.
NamesOneCall(a) ==
  /\ a.id # Offline /\ a.id <= lastMsgId
  /\ query[a.call].state # "none"
  /\ a.id \in DOMAIN pending => pending[a.id] = a.call
  /\ \A b \in SentAs : b.id = a.id => b.call = a.call

WasWritten(c) == Live(c) /\ query[c].msgId # Offline

Filed(c) ==
  /\ query[c].msgId \in DOMAIN pending /\ pending[query[c].msgId] = c
  /\ query[c].seqNo <= seqNo

Ordered(c, d) == query[c].msgId < query[d].msgId => query[c].seqNo < query[d].seqNo

OwnReply(c) == query[c].state \in {"answered", "failed"} => query[c].got = c

IdsInv ==
  /\ lastMsgId >= 0
  /\ \A p \in Elements(toClient) : ReplyOK(p)
  /\ \A a \in SentAs : NamesOneCall(a)
  /\ \A k \in DOMAIN pending : k <= lastMsgId
  /\ \A c \in Calls : WasWritten(c) => Filed(c)
  /\ \A c, d \in Calls : WasWritten(c) /\ WasWritten(d) => Ordered(c, d)
  /\ \A c \in Calls : OwnReply(c)

IInv == TypeInv /\ PendingIsLive /\ (resyncs = 0 => IdsInv)

LEMMA SentAsType ==
  ASSUME TypeOK
  PROVE  SentAs \subseteq [id : Int, call : Calls]
<1>1. \A x \in Elements(toServer) : x \in MessageType
  BY DEF TypeOK, Elements
<1>2. accepted \subseteq [id : Int, call : Calls]
  BY DEF TypeOK
<1> QED
  BY <1>1, <1>2 DEF SentAs, MessageType

\* Writing a message adds at most its own identifier to those in use.
LEMMA SentAsWrite ==
  ASSUME TypeOK, NEW msg \in MessageType, Write(msg), UNCHANGED accepted
  PROVE  \A a \in SentAs' :
           \/ a \in SentAs
           \/ Connected /\ msg.id # Offline /\ a = [id |-> msg.id, call |-> msg.call]
<1>1. Elements(toServer') \subseteq
        Elements(toServer) \cup (IF Connected THEN {msg} ELSE {})
  BY WriteType
<1> QED
  BY <1>1 DEF SentAs

\* Reading or losing messages adds none.
LEMMA SentAsShrinks ==
  ASSUME Elements(toServer') \subseteq Elements(toServer),
         accepted' \subseteq SentAs
  PROVE  SentAs' \subseteq SentAs
BY DEF SentAs

\* The identifiers stay in order in a step that sends nothing new but messages
\* of pending queries, settles or discards queries, and delivers sound replies.
LEMMA IdsInvFrame ==
  ASSUME TypeInv, IdsInv, TypeInv',
         lastMsgId' >= lastMsgId, seqNo' >= seqNo, accepted \subseteq accepted',
         \A a \in SentAs' :
           a \in SentAs \/ /\ a.id # Offline /\ a.id \in DOMAIN pending
                           /\ pending[a.id] = a.call /\ Live(a.call),
         \A p \in Elements(toClient') : p \in Elements(toClient) \/ ReplyOK(p)',
         \A k \in DOMAIN pending' : k \in DOMAIN pending /\ pending'[k] = pending[k],
         \A c \in Calls : query'[c].state = "none" => query[c].state = "none",
         \A c \in Calls :
           WasWritten(c)' => /\ WasWritten(c)
                             /\ query'[c].msgId = query[c].msgId
                             /\ query'[c].seqNo = query[c].seqNo
                             /\ query[c].msgId \in DOMAIN pending',
         \A c \in Calls : OwnReply(c)'
  PROVE  IdsInv'
<1>0. /\ lastMsgId \in Int /\ lastMsgId' \in Int /\ seqNo \in Int /\ seqNo' \in Int
      /\ \A k \in DOMAIN pending : k \in Int
      /\ \A c \in Calls : query[c].seqNo \in Int
      /\ \A a \in SentAs : a.id \in Int /\ a.call \in Calls
      /\ \A a \in SentAs' : a.id \in Int /\ a.call \in Calls
  <2>1. \A c \in Calls : query[c].seqNo \in Int
    BY DEF TypeInv, TypeOK, QueryType
  <2>2. SentAs \subseteq [id : Int, call : Calls] /\ TypeOK
    BY SentAsType DEF TypeInv
  <2>3. SentAs' \subseteq [id : Int, call : Calls]
    <3> TypeOK'
      BY DEF TypeInv
    <3>1. \A x \in Elements(toServer') : x \in MessageType
      BY DEF TypeOK, Elements
    <3>2. accepted' \subseteq [id : Int, call : Calls]
      BY DEF TypeOK
    <3> QED
      BY <3>1, <3>2 DEF SentAs, MessageType
  <2>4. /\ lastMsgId \in Int /\ lastMsgId' \in Int /\ seqNo \in Int /\ seqNo' \in Int
        /\ \A k \in DOMAIN pending : k \in Int
    BY DEF TypeInv, TypeOK
  <2> QED
    BY <2>1, <2>2, <2>3, <2>4
<1>1. lastMsgId' >= 0
  BY <1>0 DEF IdsInv
<1>2. \A p \in Elements(toClient') : ReplyOK(p)'
  BY DEF IdsInv, ReplyOK
<1>3. ASSUME NEW a \in SentAs' PROVE NamesOneCall(a)'
  <2>1. /\ a.id # Offline /\ a.id <= lastMsgId
        /\ query[a.call].state # "none"
        /\ a.id \in DOMAIN pending => pending[a.id] = a.call
    <3>1. CASE a \in SentAs
      BY <3>1 DEF IdsInv, NamesOneCall
    <3>2. CASE a \notin SentAs
      BY <3>2 DEF IdsInv, Live
    <3> QED
      BY <3>1, <3>2
  <2>2. ASSUME NEW b \in SentAs', b.id = a.id PROVE b.call = a.call
    <3>1. CASE a \in SentAs /\ b \in SentAs
      BY <2>2, <3>1 DEF IdsInv, NamesOneCall
    <3>2. CASE a \notin SentAs
      <4>1. a.id \in DOMAIN pending /\ pending[a.id] = a.call
        BY <3>2
      <4>2. b \in SentAs => b.call = pending[b.id]
        BY <2>2, <4>1 DEF IdsInv, NamesOneCall
      <4> QED
        BY <2>2, <4>1, <4>2
    <3>3. CASE b \notin SentAs
      <4>1. b.id \in DOMAIN pending /\ pending[b.id] = b.call
        BY <3>3
      <4> QED
        BY <2>1, <2>2, <4>1
    <3> QED
      BY <3>1, <3>2, <3>3
  <2>3. a.id \in DOMAIN pending' => pending'[a.id] = a.call
    BY <2>1
  <2>4. query'[a.call].state # "none" /\ a.id <= lastMsgId'
    BY <1>0, <2>1
  <2> QED
    BY <2>1, <2>2, <2>3, <2>4 DEF NamesOneCall
<1>4. \A k \in DOMAIN pending' : k <= lastMsgId'
  BY <1>0 DEF IdsInv
<1>5. ASSUME NEW c \in Calls, WasWritten(c)' PROVE Filed(c)'
  BY <1>0, <1>5 DEF IdsInv, Filed
<1>6. ASSUME NEW c \in Calls, NEW d \in Calls, WasWritten(c)', WasWritten(d)'
      PROVE  Ordered(c, d)'
  BY <1>6 DEF IdsInv, Ordered
<1> QED
  BY <1>1, <1>2, <1>3, <1>4, <1>5, <1>6 DEF IdsInv

\* Composing a query keeps the identifiers in order: it takes one larger than
\* all that are in use.
LEMMA IdsInvCompose ==
  ASSUME TypeInv, IdsInv, TypeInv',
         NEW c \in Calls, NEW rec \in QueryType, rec.state = "live",
         NEW m, IdMap(m),
         \A k \in DOMAIN m : k \in DOMAIN pending /\ m[k] = pending[k] /\ m[k] # c,
         \A d \in Calls : d # c /\ WasWritten(d) => query[d].msgId \in DOMAIN m,
         NEW last \in Int, last >= lastMsgId, NEW diff \in Int,
         NEW seq \in Nat, seq >= seqNo, NEW st \in Nat,
         ComposeQuery(c, rec, m, last, diff, seq, st),
         UNCHANGED accepted, Elements(toClient') \subseteq Elements(toClient)
  PROVE  IdsInv'
<1> DEFINE id  == NextMsgId(last, diff)
           key == IF Connected THEN id ELSE Offline
           msg == Message(id, id, seq + 1, c, rec.init, st)
<1>0. /\ TypeOK /\ lastMsgId \in Int /\ seqNo \in Int /\ clock \in Int
      /\ \A k \in DOMAIN pending : k \in Int /\ pending[k] \in Calls
      /\ \A d \in Calls : query[d].seqNo \in Int /\ query[d].msgId \in Int
      /\ \A a \in SentAs : a.id \in Int /\ a.call \in Calls
  <2>1. \A d \in Calls : query[d].seqNo \in Int /\ query[d].msgId \in Int
    BY DEF TypeInv, TypeOK, QueryType
  <2>2. SentAs \subseteq [id : Int, call : Calls] /\ TypeOK
    BY SentAsType DEF TypeInv
  <2>3. /\ lastMsgId \in Int /\ seqNo \in Int /\ clock \in Int
        /\ \A k \in DOMAIN pending : k \in Int /\ pending[k] \in Calls
    BY DEF TypeInv, TypeOK
  <2> QED
    BY <2>1, <2>2, <2>3
<1>1. id \in Int /\ id > last /\ id > lastMsgId /\ id >= 0
  <2>1. id \in Int /\ id > last
    BY <1>0, NextMsgIdIncreases
  <2>2. lastMsgId >= 0
    BY DEF IdsInv
  <2> HIDE DEF id
  <2> QED
    BY <1>0, <2>1, <2>2
<1>2. /\ lastMsgId' = id /\ seqNo' = seq + 2 /\ Write(msg)
      /\ query' = [query EXCEPT ![c] = Renewed(rec, key, seq + 1)]
      /\ pending' = MapInsert(m, key, c)
  BY DEF ComposeQuery
<1>3. msg \in MessageType /\ msg.id = id /\ msg.call = c
  BY <1>1 DEF Message, MessageType, QueryType
<1>4. \A a \in SentAs' : a \in SentAs \/ (Connected /\ a = [id |-> id, call |-> c])
  <2> HIDE DEF msg, id
  <2>1. \A a \in SentAs' :
          \/ a \in SentAs
          \/ Connected /\ msg.id # Offline /\ a = [id |-> msg.id, call |-> msg.call]
    BY <1>0, <1>2, <1>3, SentAsWrite
  <2> QED
    BY <1>3, <2>1
<1> HIDE DEF id, msg
<1>5. key \in Int /\ key <= id /\ (key = Offline \/ key = id) /\ (Connected => key = id)
  BY <1>1 DEF Offline
<1> HIDE DEF key
<1>6. /\ query'[c].state = "live" /\ query'[c].msgId = key /\ query'[c].seqNo = seq + 1
      /\ query'[c].got = rec.got
  <2>1. query'[c] = Renewed(rec, key, seq + 1)
    BY <1>2 DEF TypeInv, TypeOK
  <2> QED
    BY <1>5, <2>1, RenewedType
<1>7. \A d \in Calls : d # c => query'[d] = query[d]
  BY <1>2 DEF TypeInv, TypeOK
<1>8. \A k \in DOMAIN pending' :
        IF k = key THEN pending'[k] = c
        ELSE k \in DOMAIN m /\ k \in DOMAIN pending /\ pending'[k] = pending[k]
  BY <1>2 DEF MapInsert
<1>9. DOMAIN m \subseteq DOMAIN pending' /\ key \in DOMAIN pending'
  BY <1>2 DEF MapInsert
<1>10. \A k \in DOMAIN pending : k <= lastMsgId
  BY DEF IdsInv
<1>11. lastMsgId' >= 0
  BY <1>1, <1>2
<1>12. \A p \in Elements(toClient') : ReplyOK(p)'
  BY DEF IdsInv, ReplyOK
<1>13. ASSUME NEW a \in SentAs' PROVE NamesOneCall(a)'
  <2>1. CASE a \in SentAs
    <3>1. /\ a.id # Offline /\ a.id <= lastMsgId /\ query[a.call].state # "none"
          /\ a.id \in DOMAIN pending => pending[a.id] = a.call
          /\ \A b \in SentAs : b.id = a.id => b.call = a.call
      BY <2>1 DEF IdsInv, NamesOneCall
    <3>2. a.id # key /\ a.id # id /\ a.id <= lastMsgId'
      BY <1>0, <1>1, <1>2, <1>5, <2>1, <3>1
    <3>3. a.id \in DOMAIN pending' => pending'[a.id] = a.call
      BY <1>8, <3>1, <3>2
    <3>4. \A b \in SentAs' : b.id = a.id => b.call = a.call
      BY <1>4, <3>1, <3>2
    <3>5. query'[a.call].state # "none"
      BY <1>0, <1>6, <1>7, <2>1, <3>1
    <3> QED
      BY <3>1, <3>2, <3>3, <3>4, <3>5 DEF NamesOneCall
  <2>2. CASE a \notin SentAs
    <3>1. Connected /\ a.id = id /\ a.call = c
      BY <1>4, <2>2
    <3>2. \A b \in SentAs : b.id # id
      BY <1>0, <1>1 DEF IdsInv, NamesOneCall
    <3>3. \A b \in SentAs' : b.id = a.id => b.call = a.call
      BY <1>4, <3>1, <3>2
    <3>4. pending'[a.id] = c
      BY <1>5, <1>8, <1>9, <3>1
    <3>5. a.id # Offline /\ a.id <= lastMsgId' /\ query'[a.call].state # "none"
      BY <1>1, <1>2, <1>6, <3>1 DEF Offline
    <3> QED
      BY <3>1, <3>3, <3>4, <3>5 DEF NamesOneCall
  <2> QED
    BY <2>1, <2>2
<1>14. \A k \in DOMAIN pending' : k <= lastMsgId'
  BY <1>0, <1>1, <1>2, <1>5, <1>8, <1>10
\* A query written before is still filed, below the new one.
<1>15. ASSUME NEW d \in Calls, d # c, WasWritten(d)'
       PROVE  /\ WasWritten(d) /\ Filed(d)' /\ query[d].msgId < id
              /\ query[d].seqNo < seq + 1
  <2>1. WasWritten(d) /\ query'[d] = query[d]
    BY <1>7, <1>15 DEF WasWritten, Live
  <2>2. /\ query[d].msgId \in DOMAIN m /\ pending[query[d].msgId] = d
        /\ query[d].seqNo <= seqNo /\ query[d].msgId # Offline
    BY <1>15, <2>1 DEF IdsInv, Filed, WasWritten
  <2>3. query[d].msgId <= lastMsgId
    BY <1>10, <2>2
  <2>4. query[d].msgId < id
    BY <1>0, <1>1, <2>3
  <2>5. pending'[query[d].msgId] = d /\ query[d].msgId \in DOMAIN pending'
    BY <1>5, <1>8, <1>9, <2>2, <2>4
  <2>6. query[d].seqNo <= seqNo' /\ query[d].seqNo < seq + 1
    BY <1>0, <1>2, <2>2
  <2> QED
    BY <2>1, <2>4, <2>5, <2>6 DEF Filed
<1>16. ASSUME NEW d \in Calls, WasWritten(d)' PROVE Filed(d)'
  <2>1. CASE d = c
    BY <1>2, <1>6, <1>8, <1>9, <2>1 DEF Filed
  <2> QED
    BY <1>15, <1>16, <2>1
<1>17. ASSUME NEW d \in Calls, NEW e \in Calls, WasWritten(d)', WasWritten(e)'
       PROVE  Ordered(d, e)'
  <2>1. CASE d # c /\ e # c
    <3>1. Ordered(d, e)
      BY <1>15, <1>17, <2>1 DEF IdsInv
    <3> QED
      BY <1>7, <2>1, <3>1 DEF Ordered
  <2>2. CASE d # c /\ e = c
    BY <1>6, <1>7, <1>15, <1>17, <2>2 DEF Ordered
  <2>3. CASE d = c /\ e # c
    <3>1. query'[c].msgId = id
      BY <1>5, <1>6, <1>17, <2>3 DEF WasWritten
    <3>2. query'[e].msgId < id /\ query[e].msgId \in Int
      BY <1>0, <1>7, <1>15, <1>17, <2>3
    <3> QED
      BY <1>1, <1>7, <2>3, <3>1, <3>2 DEF Ordered
  <2>4. CASE d = c /\ e = c
    BY <1>5, <1>6, <2>4 DEF Ordered
  <2> QED
    BY <2>1, <2>2, <2>3, <2>4
<1>18. \A d \in Calls : OwnReply(d)'
  BY <1>6, <1>7 DEF IdsInv, OwnReply
<1> QED
  BY <1>11, <1>12, <1>13, <1>14, <1>16, <1>17, <1>18 DEF IdsInv

LEMMA TypeInvFacts ==
  ASSUME TypeInv
  PROVE  /\ TypeOK /\ IdMap(pending) /\ query \in [Calls -> QueryType]
         /\ lastMsgId \in Int /\ timeDiff \in Int /\ seqNo \in Nat /\ salt \in Nat
         /\ clock \in Nat /\ resyncs \in Nat
BY DEF TypeInv, TypeOK, IdMap

LEMMA IdsInvSendQuery ==
  ASSUME TypeInv, PendingIsLive, IdsInv, TypeInv', NEW c \in Calls, SendQuery(c)
  PROVE  IdsInv'
<1> DEFINE new == NewQuery("live", ResendQueries, initNeeded)
<1>1. new \in QueryType /\ new.state = "live"
  BY MaxResendsAssumption, ResendQueriesAssumption
  DEF TypeInv, TypeOK, NewQuery, QueryType, QueryStates, Offline
<1>2. /\ ComposeQuery(c, new, pending, lastMsgId, timeDiff, seqNo, salt)
      /\ UNCHANGED accepted /\ toClient' = toClient /\ query[c].state = "none"
  BY DEF SendQuery, serverVars
<1>3. IdMap(pending) /\ \A k \in DOMAIN pending : pending[k] # c
  BY <1>2 DEF TypeInv, TypeOK, IdMap, PendingIsLive, Live
<1>4. \A d \in Calls : WasWritten(d) => query[d].msgId \in DOMAIN pending
  BY DEF IdsInv, Filed
<1>5. lastMsgId \in Int /\ timeDiff \in Int /\ seqNo \in Nat /\ salt \in Nat
      /\ lastMsgId >= lastMsgId /\ seqNo >= seqNo
  BY TypeInvFacts
<1>6. Elements(toClient') \subseteq Elements(toClient)
  BY <1>2
<1> HIDE DEF new
<1> QED
  BY <1>1, <1>2, <1>3, <1>4, <1>5, <1>6, IdsInvCompose

LEMMA IdsInvQueryTimeout ==
  ASSUME TypeInv, PendingIsLive, IdsInv, TypeInv', NEW c \in Calls, QueryTimeout(c)
  PROVE  IdsInv'
<1> DEFINE q == query[c]
           outer == NextMsgId(lastMsgId, timeDiff)
           msg == Message(outer, q.msgId, q.seqNo, c, q.init, salt)
<1>0. /\ TypeOK /\ q \in QueryType /\ query \in [Calls -> QueryType]
      /\ lastMsgId \in Int /\ seqNo \in Nat /\ outer \in Int /\ outer > lastMsgId
      /\ salt \in Nat
  BY NextMsgIdIncreases, TypeInvFacts
<1>1. UNCHANGED <<accepted, toClient>> /\ Live(c)
  BY DEF QueryTimeout, serverVars
<1>2. Elements(toClient') = Elements(toClient)
  BY <1>1
<1>3. \A d \in Calls : OwnReply(d) /\ (WasWritten(d) => Filed(d))
  BY DEF IdsInv
<1>4. CASE q.acked
  <2>1. /\ query' = [query EXCEPT ![c].timer = FALSE]
        /\ UNCHANGED <<lastMsgId, seqNo, pending, toServer>>
    BY <1>4 DEF QueryTimeout
  <2>2. \A d \in Calls : /\ query'[d].state = query[d].state
                         /\ query'[d].msgId = query[d].msgId
                         /\ query'[d].seqNo = query[d].seqNo
                         /\ query'[d].got = query[d].got
    BY <1>0, <2>1 DEF QueryType
  <2>3. SentAs' = SentAs
    BY <1>1, <2>1 DEF SentAs, Elements
  <2>4. \A d \in Calls : OwnReply(d)'
                         /\ (WasWritten(d)' => WasWritten(d) /\ query[d].msgId \in DOMAIN pending')
    BY <1>3, <2>1, <2>2 DEF OwnReply, WasWritten, Live, Filed
  <2> QED
    BY <1>0, <1>1, <1>2, <2>1, <2>2, <2>3, <2>4, IdsInvFrame
<1>5. CASE ~q.acked /\ q.resends - 1 < 0
  <2>1. /\ query' = [query EXCEPT ![c] = Dropped(q)]
        /\ pending' = MapRemove(pending, q.msgId)
        /\ UNCHANGED <<lastMsgId, seqNo, toServer>>
    BY <1>5 DEF QueryTimeout
  <2>2. query'[c].state = "discarded" /\ \A d \in Calls : d # c => query'[d] = query[d]
    BY <1>0, <2>1, ResentType
  <2>3. \A k \in DOMAIN pending' : k \in DOMAIN pending /\ pending'[k] = pending[k]
    BY <2>1 DEF MapRemove
  <2>4. SentAs' = SentAs
    BY <1>1, <2>1 DEF SentAs, Elements
  <2>5. ASSUME NEW d \in Calls, WasWritten(d)'
        PROVE  /\ WasWritten(d) /\ query'[d] = query[d]
               /\ query[d].msgId \in DOMAIN pending'
    <3>1. d # c /\ query'[d] = query[d] /\ WasWritten(d)
      BY <2>2, <2>5 DEF WasWritten, Live
    <3>2. query[d].msgId \in DOMAIN pending /\ pending[query[d].msgId] = d
      BY <1>3, <3>1 DEF Filed
    <3>3. q.msgId # query[d].msgId
      <4>1. q.msgId # Offline => pending[q.msgId] = c
        BY <1>1, <1>3 DEF WasWritten, Filed
      <4> QED
        BY <3>1, <3>2, <4>1 DEF WasWritten
    <3> QED
      BY <2>1, <3>1, <3>2, <3>3 DEF MapRemove
  <2>6. \A d \in Calls : OwnReply(d)' /\ (query'[d].state = "none" => query[d].state = "none")
    BY <1>3, <2>2 DEF OwnReply
  <2> QED
    BY <1>0, <1>1, <1>2, <2>1, <2>3, <2>4, <2>5, <2>6, IdsInvFrame
<1>6. CASE ~q.acked /\ ~(q.resends - 1 < 0)
  <2>1. /\ query' = [query EXCEPT ![c] = Resent(q)]
        /\ lastMsgId' = outer /\ seqNo' = seqNo + 2 /\ Write(msg)
        /\ UNCHANGED pending
    BY <1>6 DEF QueryTimeout
  <2>2. \A d \in Calls : /\ query'[d].state = query[d].state
                         /\ query'[d].msgId = query[d].msgId
                         /\ query'[d].seqNo = query[d].seqNo
                         /\ query'[d].got = query[d].got
    <3> query'[c] = Resent(q) /\ \A d \in Calls : d # c => query'[d] = query[d]
      BY <1>0, <2>1
    <3> QED
      BY <1>0, ResentType
  <2>3. msg \in MessageType /\ msg.id = q.msgId /\ msg.call = c
    BY <1>0 DEF Message, MessageType, QueryType
  <2>4. \A a \in SentAs' : a \in SentAs \/ (q.msgId # Offline /\ a = [id |-> q.msgId, call |-> c])
    <3> HIDE DEF msg, q
    <3>1. \A a \in SentAs' :
            \/ a \in SentAs
            \/ Connected /\ msg.id # Offline /\ a = [id |-> msg.id, call |-> msg.call]
      BY <1>0, <1>1, <2>1, <2>3, SentAsWrite
    <3> QED
      BY <2>3, <3>1
  <2>5. \A a \in SentAs' :
          a \in SentAs \/ /\ a.id # Offline /\ a.id \in DOMAIN pending
                          /\ pending[a.id] = a.call /\ Live(a.call)
    BY <1>1, <1>3, <2>4 DEF WasWritten, Filed
  <2>6. \A d \in Calls : OwnReply(d)'
                         /\ (WasWritten(d)' => WasWritten(d) /\ query[d].msgId \in DOMAIN pending')
    BY <1>3, <2>1, <2>2 DEF OwnReply, WasWritten, Live, Filed
  <2>7. lastMsgId' >= lastMsgId /\ seqNo' >= seqNo
    BY <1>0, <2>1
  <2> QED
    BY <1>1, <1>2, <2>1, <2>2, <2>5, <2>6, <2>7, IdsInvFrame
<1> QED
  BY <1>4, <1>5, <1>6

\* A step that leaves the queries alone.
LEMMA IdsInvQuiet ==
  ASSUME TypeInv, IdsInv, TypeInv', UNCHANGED queryVars,
         lastMsgId' >= lastMsgId, seqNo' >= seqNo,
         accepted \subseteq accepted', SentAs' \subseteq SentAs,
         \A p \in Elements(toClient') : p \in Elements(toClient) \/ ReplyOK(p)'
  PROVE  IdsInv'
<1>1. pending' = pending /\ query' = query
  BY DEF queryVars
<1>2. \A c \in Calls :
        OwnReply(c)' /\ (WasWritten(c)' => WasWritten(c) /\ query[c].msgId \in DOMAIN pending')
  BY <1>1 DEF IdsInv, OwnReply, WasWritten, Live, Filed
<1> QED
  BY <1>1, <1>2, IdsInvFrame

\* What a handler leaves to IdsInvFrame: its reading of the packet.
LEMMA IdsInvReceive ==
  ASSUME TypeInv, IdsInv, NEW kinds, NEW p, Receive(kinds, p)
  PROVE  /\ accepted' = accepted
         /\ ReplyOK(p)
         /\ \A r \in Elements(toClient') : r \in Elements(toClient) \/ ReplyOK(r)'
         /\ LastOnReceipt(p.mid) >= lastMsgId /\ SeqOnReceipt(p.mid) >= seqNo
<1>1. /\ p \in Elements(toClient) /\ Elements(toClient') \subseteq Elements(toClient)
      /\ UNCHANGED accepted
      /\ LastOnReceipt(p.mid) >= lastMsgId /\ SeqOnReceipt(p.mid) >= seqNo
  BY ReceiveType
<1> QED
  BY <1>1 DEF IdsInv

LEMMA IdsInvRpcResult ==
  ASSUME TypeInv, PendingIsLive, IdsInv, TypeInv', NEW p, WorkRpcResult(p)
  PROVE  IdsInv'
<1> DEFINE id == p.ids[1]
           c == pending[id]
<1>1. Receive({"result", "error"}, p) /\ SpendAcksOnly(p)
  BY DEF WorkRpcResult
<1>2. /\ accepted' = accepted /\ ReplyOK(p)
      /\ \A r \in Elements(toClient') : r \in Elements(toClient) \/ ReplyOK(r)'
      /\ lastMsgId' >= lastMsgId /\ seqNo' >= seqNo /\ toServer' = toServer
  BY <1>1, IdsInvReceive DEF SpendAcksOnly
<1>3. p.kind \in {"result", "error"} /\ p \in PacketType
  BY <1>1, ReceiveType
<1>4. SentAs' = SentAs
  BY <1>2 DEF SentAs, Elements
<1>5. CASE id \in DOMAIN pending
  <2>1. pending' = MapRemove(pending, id) /\ query' = [query EXCEPT ![c] = Settled(@, p)]
    BY <1>5 DEF WorkRpcResult
  <2>2. c \in Calls /\ query[c] \in QueryType /\ Live(c) /\ query[c].msgId = id
    BY <1>5, TypeInvFacts DEF IdMap, PendingIsLive
  <2>3. p.call = c
    <3>1. [id |-> id, call |-> p.call] \in SentAs
      BY <1>2, <1>3 DEF ReplyOK, SentAs
    <3>2. NamesOneCall([id |-> id, call |-> p.call])
      BY <3>1 DEF IdsInv
    <3> QED
      BY <1>5, <3>2 DEF NamesOneCall
  <2>4. /\ query'[c].state \in {"answered", "failed"} /\ query'[c].got = c
        /\ \A d \in Calls : d # c => query'[d] = query[d]
    <3> query'[c] = Settled(query[c], p) /\ \A d \in Calls : d # c => query'[d] = query[d]
      BY <2>1, <2>2, TypeInvFacts
    <3> QED
      BY <1>3, <2>2, <2>3, SettledType
  <2>5. \A k \in DOMAIN pending' : k \in DOMAIN pending /\ pending'[k] = pending[k]
    BY <2>1 DEF MapRemove
  <2>6. ASSUME NEW d \in Calls, WasWritten(d)'
        PROVE  /\ WasWritten(d) /\ query'[d] = query[d]
               /\ query[d].msgId \in DOMAIN pending'
    <3>1. d # c /\ query'[d] = query[d] /\ WasWritten(d)
      BY <2>4, <2>6 DEF WasWritten, Live
    <3>2. query[d].msgId \in DOMAIN pending /\ pending[query[d].msgId] = d
      BY <3>1 DEF IdsInv, Filed
    <3> QED
      BY <2>1, <3>1, <3>2 DEF MapRemove
  <2>7. \A d \in Calls : OwnReply(d)' /\ (query'[d].state = "none" => query[d].state = "none")
    BY <2>4 DEF IdsInv, OwnReply
  <2> QED
    BY <1>2, <1>4, <2>5, <2>6, <2>7, IdsInvFrame
<1>6. CASE id \notin DOMAIN pending
  <2>1. UNCHANGED queryVars
    BY <1>6 DEF WorkRpcResult
  <2> QED
    BY <1>2, <1>4, <2>1, IdsInvQuiet
<1> QED
  BY <1>5, <1>6

LEMMA IdsInvMsgsAck ==
  ASSUME TypeInv, IdsInv, TypeInv', NEW p, WorkMsgsAck(p)
  PROVE  IdsInv'
<1>1. Receive({"ack"}, p) /\ SpendAcksOnly(p) /\ pending' = pending
  BY DEF WorkMsgsAck
<1>2. /\ accepted' = accepted
      /\ \A r \in Elements(toClient') : r \in Elements(toClient) \/ ReplyOK(r)'
      /\ lastMsgId' >= lastMsgId /\ seqNo' >= seqNo /\ toServer' = toServer
  BY <1>1, IdsInvReceive DEF SpendAcksOnly
<1>3. SentAs' = SentAs
  BY <1>2 DEF SentAs, Elements
<1>4. \A c \in Calls : /\ query'[c].state = query[c].state
                       /\ query'[c].msgId = query[c].msgId
                       /\ query'[c].seqNo = query[c].seqNo
                       /\ query'[c].got = query[c].got
  <2>1. \A c \in Calls : query'[c] = Acked(query[c]) \/ query'[c] = query[c]
    BY DEF WorkMsgsAck
  <2> QED
    BY <2>1, TypeInvFacts, AckedType
<1>5. \A c \in Calls :
        OwnReply(c)' /\ (WasWritten(c)' => WasWritten(c) /\ query[c].msgId \in DOMAIN pending')
  BY <1>1, <1>4 DEF IdsInv, OwnReply, WasWritten, Live, Filed
<1> QED
  BY <1>1, <1>2, <1>3, <1>4, <1>5, IdsInvFrame

LEMMA IdsInvBadServerSalt ==
  ASSUME TypeInv, PendingIsLive, IdsInv, TypeInv', NEW p, WorkBadServerSalt(p)
  PROVE  IdsInv'
<1> DEFINE bad == p.ids[1]
           c == pending[bad]
           m == MapRemove(pending, bad)
           last == LastOnReceipt(p.mid)
           seq == SeqOnReceipt(p.mid)
<1>1. Receive({"badSalt"}, p) /\ Recompose(p, last, timeDiff, seq)
  BY DEF WorkBadServerSalt
<1>2. /\ accepted' = accepted
      /\ \A r \in Elements(toClient') : r \in Elements(toClient) \/ ReplyOK(r)'
      /\ last >= lastMsgId /\ seq >= seqNo
  BY <1>1, IdsInvReceive
<1>3. /\ last \in Int /\ seq \in Nat /\ p \in PacketType
      /\ Elements(toClient') \subseteq Elements(toClient)
  BY <1>1, ReceiveType
<1>4. CASE bad \in DOMAIN pending
  <2>1. ComposeQuery(c, query[c], m, last, timeDiff, seq, p.salt)
    BY <1>1, <1>4 DEF Recompose
  <2>2. c \in Calls /\ query[c] \in QueryType /\ Live(c) /\ IdMap(m)
        /\ timeDiff \in Int /\ p.salt \in Nat
    BY <1>3, <1>4, TypeInvFacts, MapRemoveType DEF IdMap, PendingIsLive, PacketType
  <2>3. \A k \in DOMAIN m : k \in DOMAIN pending /\ m[k] = pending[k] /\ m[k] # c
    BY <1>4 DEF MapRemove, PendingIsLive
  <2>4. \A d \in Calls : d # c /\ WasWritten(d) => query[d].msgId \in DOMAIN m
    <3>1. \A d \in Calls : WasWritten(d) =>
            query[d].msgId \in DOMAIN pending /\ pending[query[d].msgId] = d
      BY DEF IdsInv, Filed
    <3> QED
      BY <3>1 DEF MapRemove
  <2>5. query[c].state = "live"
    BY <2>2 DEF Live
  <2> HIDE DEF c, m, last, seq
  <2> QED
    BY <1>2, <1>3, <2>1, <2>2, <2>3, <2>4, <2>5, IdsInvCompose
<1>5. CASE bad \notin DOMAIN pending
  <2>1. /\ UNCHANGED queryVars /\ lastMsgId' = last /\ seqNo' = seq
        /\ toServer' = toServer
    BY <1>1, <1>5 DEF Recompose
  <2>2. SentAs' = SentAs
    BY <1>2, <2>1 DEF SentAs, Elements
  <2> QED
    BY <1>2, <2>1, <2>2, IdsInvQuiet
<1> QED
  BY <1>4, <1>5

LEMMA IdsInvServer ==
  ASSUME TypeInv, IdsInv, TypeInv', Server, resyncs' = 0
  PROVE  IdsInv'
<1> DEFINE h == Head(toServer)
<1>1. /\ UNCHANGED queryVars /\ lastMsgId' = lastMsgId /\ seqNo' = seqNo
      /\ lastMsgId' >= lastMsgId /\ seqNo' >= seqNo
  <2>1. ServerUnchanged
    BY DEF Server, ServerAccept, ServerRejectSalt, ServerRejectMessage, ServerReply,
       ServerAck, ServerOther, ServerChangeSalt
  <2>2. UNCHANGED queryVars /\ lastMsgId' = lastMsgId /\ seqNo' = seqNo
    BY <2>1 DEF ServerUnchanged, idVars
  <2> QED
    BY <2>2, TypeInvFacts
\* The two ways in which the server acts: it sends a sound packet, or none.
<1>2. ASSUME accepted' = accepted, Elements(toServer') \subseteq Elements(toServer),
             NEW kind \in PacketKinds, NEW ids \in Seq(Int),
             NEW d \in Calls \cup {NoCall}, SendPacket(kind, ids, d),
             kind # "badMsg",
             kind \in {"result", "error"} => [id |-> ids[1], call |-> d] \in accepted
      PROVE  IdsInv'
  <2>1. Elements(toClient') = Elements(toClient) \cup {Packet(kind, ids, d)}
    BY <1>2, SendPacketType
  <2>2. ReplyOK(Packet(kind, ids, d))
    BY <1>2 DEF ReplyOK, Packet
  <2>3. \A p \in Elements(toClient') : p \in Elements(toClient) \/ ReplyOK(p)'
    BY <1>2, <2>1, <2>2 DEF ReplyOK
  <2>4. SentAs' \subseteq SentAs
    BY <1>2 DEF SentAs
  <2> QED
    BY <1>1, <1>2, <2>3, <2>4, IdsInvQuiet
<1>3. ASSUME toClient' = toClient, accepted \subseteq accepted', SentAs' \subseteq SentAs
      PROVE  IdsInv'
  BY <1>1, <1>3, IdsInvQuiet
<1>4. accepted \subseteq [id : Int, call : Calls]
  BY DEF TypeInv, TypeOK
<1>5. CASE ServerAccept
  <2>1. toServer # <<>> /\ toServer' = Tail(toServer) /\ toClient' = toClient
        /\ accepted \subseteq accepted' /\ h.id # Offline
        /\ accepted' \subseteq accepted \cup {[id |-> h.id, call |-> h.call]}
    BY <1>5 DEF ServerAccept
  <2>2. h \in Elements(toServer) /\ Elements(toServer') \subseteq Elements(toServer)
    BY <2>1, ReadType
  <2>3. accepted' \subseteq SentAs
    BY <2>1, <2>2 DEF SentAs
  <2> QED
    BY <1>3, <2>1, <2>2, <2>3, SentAsShrinks
<1>6. CASE ServerRejectSalt
  <2>1. /\ toServer # <<>> /\ toServer' = Tail(toServer) /\ accepted' = accepted
        /\ SendPacket("badSalt", <<h.outer>>, NoCall)
    BY <1>6 DEF ServerRejectSalt
  <2>2. /\ Elements(toServer') \subseteq Elements(toServer) /\ <<h.outer>> \in Seq(Int)
        /\ "badSalt" \in PacketKinds
    BY <2>1, ReadType DEF MessageType, PacketKinds
  <2> QED
    BY <1>2, <2>1, <2>2
<1>7. CASE ServerRejectMessage
  <2>1. resyncs' # resyncs + 1
    BY TypeInvFacts
  <2>2. /\ toServer # <<>> /\ toServer' = Tail(toServer) /\ accepted' = accepted
        /\ SendPacket("other", <<>>, NoCall)
    BY <1>7, <2>1 DEF ServerRejectMessage
  <2>3. /\ Elements(toServer') \subseteq Elements(toServer) /\ <<>> \in Seq(Int)
        /\ "other" \in PacketKinds
    BY <2>2, ReadType DEF PacketKinds
  <2> QED
    BY <1>2, <2>2, <2>3
<1>8. CASE ServerReply
  <2>1. PICK a \in accepted, kind \in {"result", "error"} :
          /\ SendPacket(kind, <<a.id>>, a.call)
          /\ UNCHANGED <<toServer, accepted>>
    BY <1>8 DEF ServerReply
  <2>2. /\ <<a.id>> \in Seq(Int) /\ a.call \in Calls \cup {NoCall} /\ kind \in PacketKinds
        /\ [id |-> a.id, call |-> a.call] = a
    BY <1>4 DEF PacketKinds
  <2>3. toServer' = toServer /\ accepted' = accepted /\ <<a.id>>[1] = a.id
    BY <2>1
  <2> QED
    BY <1>2, <2>1, <2>2, <2>3
<1>9. CASE ServerAck
  <2>1. PICK a \in accepted, b \in accepted :
          /\ SendPacket("ack", IF a = b THEN <<a.id>> ELSE <<a.id, b.id>>, NoCall)
          /\ UNCHANGED <<toServer, accepted>>
    BY <1>9 DEF ServerAck
  <2>2. (IF a = b THEN <<a.id>> ELSE <<a.id, b.id>>) \in Seq(Int)
    BY <1>4
  <2>3. "ack" \in PacketKinds
    BY DEF PacketKinds
  <2> QED
    BY <1>2, <2>1, <2>2, <2>3
<1>10. CASE ServerOther
  <2>1. SendPacket("other", <<>>, NoCall) /\ UNCHANGED <<toServer, accepted>>
    BY <1>10 DEF ServerOther
  <2>2. <<>> \in Seq(Int) /\ "other" \in PacketKinds
    BY DEF PacketKinds
  <2> QED
    BY <1>2, <2>1, <2>2
<1>11. CASE ServerChangeSalt
  BY <1>3, <1>11 DEF ServerChangeSalt, SentAs, Elements
<1> QED
  BY <1>5, <1>6, <1>7, <1>8, <1>9, <1>10, <1>11 DEF Server

LEMMA IdsInvStep ==
  ASSUME TypeInv, PendingIsLive, IdsInv, TypeInv', [Next]_vars, resyncs' = 0
  PROVE  IdsInv'
<1>0. LastAfterAcks \in Int /\ LastAfterAcks > lastMsgId
  BY NextMsgIdIncreases, TypeInvFacts DEF LastAfterAcks
<1>1. ASSUME UNCHANGED queryVars, UNCHANGED <<toServer, toClient, accepted>>,
             lastMsgId' >= lastMsgId, seqNo' >= seqNo
      PROVE  IdsInv'
  BY <1>1, IdsInvQuiet DEF SentAs, Elements
<1>2. ASSUME NEW mid \in ackTimers, AckTimeout(mid) PROVE IdsInv'
  <2>1. /\ UNCHANGED queryVars /\ UNCHANGED <<toServer, toClient, accepted>>
        /\ lastMsgId' \in {lastMsgId, LastAfterAcks} /\ seqNo' \in {seqNo, seqNo + 2}
    BY <1>2 DEF AckTimeout, serverVars
  <2> QED
    BY <1>0, <1>1, <2>1, TypeInvFacts
<1>3. CASE ProcessPacket
  <2>1. ASSUME NEW p, WorkBadMsgNotification(p) PROVE FALSE
    <3>1. p \in Elements(toClient) /\ p.kind \in {"badMsg"}
      BY <2>1, ReceiveType DEF WorkBadMsgNotification
    <3> QED
      BY <3>1 DEF IdsInv, ReplyOK
  <2>2. ASSUME NEW p, WorkOther(p) PROVE IdsInv'
    <3>1. /\ accepted' = accepted
          /\ \A r \in Elements(toClient') : r \in Elements(toClient) \/ ReplyOK(r)'
          /\ lastMsgId' >= lastMsgId /\ seqNo' >= seqNo /\ toServer' = toServer
          /\ UNCHANGED queryVars
      BY <2>2, IdsInvReceive DEF WorkOther, SpendAcksOnly
    <3>2. SentAs' = SentAs
      BY <3>1 DEF SentAs, Elements
    <3> QED
      BY <3>1, <3>2, IdsInvQuiet
  <2> QED
    BY <1>3, <2>1, <2>2, IdsInvRpcResult, IdsInvMsgsAck, IdsInvBadServerSalt
    DEF ProcessPacket
<1>4. CASE ConnectToServer \/ Tick
  <2>1. /\ UNCHANGED queryVars /\ UNCHANGED <<toServer, toClient, accepted>>
        /\ lastMsgId' = lastMsgId /\ seqNo' = seqNo
    BY <1>4 DEF ConnectToServer, Tick, serverVars, idVars
  <2> QED
    BY <1>1, <2>1, TypeInvFacts
<1>5. CASE OnConnected
  <2>1. /\ UNCHANGED queryVars /\ UNCHANGED <<toServer, toClient, accepted>>
        /\ lastMsgId' = LastAfterAcks /\ seqNo' = seqNo + 2
    BY <1>5 DEF OnConnected, AckAll, serverVars
  <2> QED
    BY <1>0, <1>1, <2>1, TypeInvFacts
<1>6. ASSUME NEW retried \in BOOLEAN, OnError(retried) PROVE IdsInv'
  <2>1. /\ UNCHANGED queryVars /\ accepted' = accepted /\ toServer' = <<>>
        /\ lastMsgId' = lastMsgId /\ seqNo' = seqNo
    BY <1>6 DEF OnError, serverVars, idVars
  <2>2. Elements(toServer') \subseteq Elements(toServer)
    BY <2>1 DEF Elements
  <2>3. Elements(toClient') \subseteq Elements(toClient)
    <3>1. PICK n \in 0..Len(toClient) : toClient' = SubSeq(toClient, 1, n)
      BY <1>6 DEF OnError
    <3> QED
      BY <3>1, PrefixElements DEF TypeInv, TypeOK
  <2>4. SentAs' \subseteq SentAs
    BY <2>1, <2>2, SentAsShrinks DEF SentAs
  <2>5. lastMsgId' >= lastMsgId /\ seqNo' >= seqNo
    BY <2>1, TypeInvFacts
  <2> QED
    BY <2>1, <2>3, <2>4, <2>5, IdsInvQuiet
<1>7. CASE UNCHANGED vars
  <2>1. /\ UNCHANGED queryVars /\ UNCHANGED <<toServer, toClient, accepted>>
        /\ lastMsgId' = lastMsgId /\ seqNo' = seqNo
    BY <1>7 DEF vars, queryVars
  <2> QED
    BY <1>1, <2>1, TypeInvFacts
<1> QED
  BY <1>2, <1>3, <1>4, <1>5, <1>6, <1>7, IdsInvSendQuery, IdsInvQueryTimeout,
     IdsInvServer DEF Next

\* A resynchronisation is not undone.
LEMMA ResyncsGrow ==
  ASSUME TypeInv, [Next]_vars, resyncs' = 0
  PROVE  resyncs = 0
<1>1. resyncs' = resyncs \/ resyncs' = resyncs + 1
  BY DEF Next, SendQuery, QueryTimeout, AckTimeout, ProcessPacket, WorkRpcResult,
     WorkMsgsAck, WorkBadServerSalt, WorkBadMsgNotification, WorkOther, Receive,
     ConnectToServer, OnConnected, OnError, Server, ServerAccept, ServerRejectSalt,
     ServerRejectMessage, ServerReply, ServerAck, ServerOther, ServerChangeSalt,
     Tick, vars, serverVars
<1> QED
  BY <1>1, TypeInvFacts

LEMMA IInvInit ==
  ASSUME Init
  PROVE  IInv
<1>1. TypeInv
  BY TypeInvInit
<1>2. PendingIsLive
  BY DEF Init, PendingIsLive
<1>3. /\ Elements(toServer) = {} /\ Elements(toClient) = {} /\ accepted = {}
      /\ lastMsgId = 0 /\ DOMAIN pending = {}
      /\ \A c \in Calls : query[c].state = "none"
  BY DEF Init, Elements, NewQuery
<1>4. SentAs = {}
  BY <1>3 DEF SentAs
<1>5. \A c \in Calls : OwnReply(c) /\ ~WasWritten(c)
  BY <1>3 DEF OwnReply, WasWritten, Live
<1> QED
  BY <1>1, <1>2, <1>3, <1>4, <1>5 DEF IInv, IdsInv

LEMMA IInvAlways == Spec => []IInv
<1>1. IInv /\ [Next]_vars => IInv'
  <2> SUFFICES ASSUME IInv, [Next]_vars PROVE IInv'
    OBVIOUS
  <2>1. TypeInv /\ PendingIsLive /\ (resyncs = 0 => IdsInv)
    BY DEF IInv
  <2>2. TypeInv' /\ PendingIsLive'
    BY <2>1, TypeInvStep, PendingLiveStep
  <2>3. ASSUME resyncs' = 0 PROVE IdsInv'
    BY <2>1, <2>2, <2>3, ResyncsGrow, IdsInvStep
  <2> QED
    BY <2>2, <2>3 DEF IInv
<1> QED
  BY <1>1, IInvInit, PTL DEF Spec

\* Whatever is lost, repeated, rejected or answered late, the reply a caller is
\* handed was computed for that caller's query, unless the identifiers were
\* restarted.
THEOREM RepliesAreOwn == Spec => []ReplyIsOwn
<1>1. IInv => ReplyIsOwn
  BY DEF IInv, IdsInv, OwnReply, ReplyIsOwn
<1> QED
  BY <1>1, IInvAlways, PTL

\* A query written under a real identifier and not settled stays in
\* m_pendingQueries under that identifier, unless the identifiers were restarted.
THEOREM QueriesAreKept == Spec => []NoQueryLost
<1>1. IInv => NoQueryLost
  BY DEF IInv, IdsInv, WasWritten, Filed, NoQueryLost
<1> QED
  BY <1>1, IInvAlways, PTL

\* The server sees the sequence numbers of outstanding queries in the order of
\* their message identifiers, unless the identifiers were restarted.
THEOREM SeqNosFollow == Spec => []SeqNoFollowsMsgId
<1>1. IInv => SeqNoFollowsMsgId
  BY DEF IInv, IdsInv, WasWritten, Ordered, SeqNoFollowsMsgId
<1> QED
  BY <1>1, IInvAlways, PTL

-----------------------------------------------------------------------------
(* Acknowledgements                                                        *)

\* Every action either leaves the acknowledgements and the connection alone, or
\* is one of these.
LEMMA AckSteps ==
  ASSUME [Next]_vars
  PROVE  \/ conn' = conn /\ UNCHANGED ackVars
         \/ conn' # "connected" /\ UNCHANGED ackVars
         \/ OnConnected
         \/ \E mid \in ackTimers : AckTimeout(mid)
         \/ \E mid : AddToPendingAcks(mid) /\ conn' = conn
<1>1. ASSUME NEW c \in Calls, SendQuery(c) \/ QueryTimeout(c)
      PROVE  conn' = conn /\ UNCHANGED ackVars
  BY <1>1 DEF SendQuery, QueryTimeout, connVars
<1>2. ASSUME ProcessPacket
      PROVE  \E mid : AddToPendingAcks(mid) /\ conn' = conn
  BY <1>2 DEF ProcessPacket, WorkRpcResult, WorkMsgsAck, WorkBadServerSalt,
     WorkBadMsgNotification, WorkOther, Receive, connVars
<1>3. ASSUME ConnectToServer
      PROVE  (conn' = conn \/ conn' # "connected") /\ UNCHANGED ackVars
  BY <1>3 DEF ConnectToServer
<1>4. ASSUME NEW retried \in BOOLEAN, OnError(retried)
      PROVE  conn' # "connected" /\ UNCHANGED ackVars
  BY <1>4 DEF OnError
<1>5. ASSUME Server PROVE conn' = conn /\ UNCHANGED ackVars
  <2> ServerUnchanged
    BY <1>5 DEF Server, ServerAccept, ServerRejectSalt, ServerRejectMessage,
       ServerReply, ServerAck, ServerOther, ServerChangeSalt
  <2> QED
    BY DEF ServerUnchanged, connVars
<1>6. ASSUME Tick \/ UNCHANGED vars PROVE conn' = conn /\ UNCHANGED ackVars
  BY <1>6 DEF Tick, vars, connVars, ackVars
<1> QED
  BY <1>1, <1>2, <1>3, <1>4, <1>5, <1>6 DEF Next

\* On a connected socket every pending acknowledgement has a running timer: the
\* ones whose timers fired while there was no connection are sent by onConnected.
THEOREM AcksStayArmed == Spec => []AcksArmed
<1>1. Init => AcksArmed
  BY DEF Init, AcksArmed, Connected
<1>2. TypeInv /\ AcksArmed /\ [Next]_vars => AcksArmed'
  <2> SUFFICES ASSUME TypeInv, AcksArmed, [Next]_vars PROVE AcksArmed'
    OBVIOUS
  <2>1. CASE UNCHANGED ackVars /\ (conn' = conn \/ conn' # "connected")
    BY <2>1 DEF AcksArmed, Connected, ackVars
  <2>2. CASE OnConnected
    BY <2>2 DEF OnConnected, AckAll, AcksArmed
  <2>3. ASSUME NEW mid \in ackTimers, AckTimeout(mid) PROVE AcksArmed'
    BY <2>3 DEF AckTimeout, AcksArmed, Connected, connVars
  <2>4. ASSUME NEW mid, AddToPendingAcks(mid), conn' = conn PROVE AcksArmed'
    BY <2>4 DEF AddToPendingAcks, AcksArmed, Connected
  <2> QED
    BY <2>1, <2>2, <2>3, <2>4, AckSteps
<1> QED
  BY <1>1, <1>2, TypeInvAlways, PTL DEF Spec

\* On a connected socket no more than MAX_PENDING_ACKS acknowledgements wait,
\* whatever accumulated before the connection was made.
THEOREM AcksStayBounded == Spec => []AcksBounded
<1>1. Init => AcksBounded
  BY DEF Init, AcksBounded, Connected
<1>2. TypeInv /\ AcksBounded /\ [Next]_vars => AcksBounded'
  <2> SUFFICES ASSUME TypeInv, AcksBounded, [Next]_vars PROVE AcksBounded'
    OBVIOUS
  <2>0. IsFiniteSet(pendingAcks)
    <3>1. packets \in Nat /\ pendingAcks \subseteq 1..packets
      BY DEF TypeInv, TypeOK
    <3>2. IsFiniteSet(1..packets)
      BY <3>1, FS_Interval
    <3> QED
      BY <3>1, <3>2, FS_Subset
  <2>1. CASE UNCHANGED ackVars /\ (conn' = conn \/ conn' # "connected")
    BY <2>1 DEF AcksBounded, Connected, ackVars
  <2>2. CASE OnConnected
    <3> pendingAcks' = {}
      BY <2>2 DEF OnConnected, AckAll
    <3> QED
      BY FS_EmptySet, MaxPendingAcksAssumption DEF AcksBounded
  <2>3. ASSUME NEW mid \in ackTimers, AckTimeout(mid) PROVE AcksBounded'
    <3>1. conn' = conn /\ pendingAcks' \subseteq pendingAcks
      BY <2>3 DEF AckTimeout, connVars
    <3>2. Cardinality(pendingAcks') <= Cardinality(pendingAcks)
          /\ Cardinality(pendingAcks) \in Nat /\ Cardinality(pendingAcks') \in Nat
      BY <2>0, <3>1, FS_Subset, FS_CardinalityType
    <3> QED
      BY <3>1, <3>2, MaxPendingAcksAssumption DEF AcksBounded, Connected
  <2>4. ASSUME NEW mid, AddToPendingAcks(mid), conn' = conn PROVE AcksBounded'
    <3>1. CASE FlushesAcks(mid)
      <4> pendingAcks' = {}
        BY <2>4, <3>1 DEF AddToPendingAcks
      <4> QED
        BY FS_EmptySet, MaxPendingAcksAssumption DEF AcksBounded
    <3>2. CASE ~FlushesAcks(mid)
      <4>1. pendingAcks' = pendingAcks \cup {mid}
        BY <2>4, <3>2 DEF AddToPendingAcks
      <4>2. Cardinality(pendingAcks \cup {mid}) \in Nat
        BY <2>0, FS_AddElement, FS_CardinalityType
      <4> QED
        BY <2>4, <3>2, <4>1, <4>2, MaxPendingAcksAssumption
        DEF FlushesAcks, AcksBounded, Connected
    <3> QED
      BY <3>1, <3>2
  <2> QED
    BY <2>1, <2>2, <2>3, <2>4, AckSteps
<1> QED
  BY <1>1, <1>2, TypeInvAlways, PTL DEF Spec

-----------------------------------------------------------------------------
(* The session implements RpcCalls                                         *)

outcomes == [c \in Calls |-> query[c].state]
executions == {a.call : a \in accepted}

LEMMA RpcStutter ==
  ASSUME \A c \in Calls : query'[c].state = query[c].state,
         executions' = executions
  PROVE  UNCHANGED Rpc!vars
BY DEF Rpc!vars, executions

LEMMA RpcStep ==
  ASSUME IInv, IInv', resyncs = 0, [Next]_vars
  PROVE  [Rpc!Next]_(Rpc!vars)
<1>0. /\ TypeInv /\ PendingIsLive /\ IdsInv /\ query \in [Calls -> QueryType]
      /\ query' \in [Calls -> QueryType]
  BY TypeInvFacts DEF IInv, TypeInv, TypeOK
<1>1. ASSUME query' = query, accepted' = accepted PROVE [Rpc!Next]_(Rpc!vars)
  BY <1>1, RpcStutter DEF executions
<1>2. ASSUME NEW c \in Calls, SendQuery(c) PROVE Rpc!Issue(c)
  <2> DEFINE new == NewQuery("live", ResendQueries, initNeeded)
             id  == NextMsgId(lastMsgId, timeDiff)
             key == IF Connected THEN id ELSE Offline
  <2>1. /\ query[c].state = "none" /\ accepted' = accepted
        /\ ComposeQuery(c, new, pending, lastMsgId, timeDiff, seqNo, salt)
    BY <1>2 DEF SendQuery, serverVars
  <2>2. query' = [query EXCEPT ![c] = Renewed(new, key, seqNo + 1)]
    BY <2>1 DEF ComposeQuery
  <2>3. Renewed(new, key, seqNo + 1).state = "live"
    BY DEF Renewed, NewQuery
  <2>4. query'[c].state = "live" /\ \A d \in Calls : d # c => query'[d] = query[d]
    BY <1>0, <2>2, <2>3
  <2>5. outcomes' = [outcomes EXCEPT ![c] = "live"]
    BY <2>4 DEF outcomes
  <2> QED
    BY <2>1, <2>5 DEF Rpc!Issue, outcomes
<1>3. ASSUME NEW c \in Calls, QueryTimeout(c) PROVE [Rpc!Next]_(Rpc!vars)
  <2>0. Live(c) /\ accepted' = accepted /\ query[c] \in QueryType
    BY <1>0, <1>3 DEF QueryTimeout, serverVars
  <2>1. CASE query[c].acked
    <3>1. query' = [query EXCEPT ![c].timer = FALSE]
      BY <1>3, <2>1 DEF QueryTimeout
    <3>2. \A d \in Calls : query'[d].state = query[d].state
      BY <1>0, <3>1 DEF QueryType
    <3> QED
      BY <2>0, <3>2, RpcStutter DEF executions
  <2>2. CASE ~query[c].acked /\ query[c].resends - 1 < 0
    <3>1. query' = [query EXCEPT ![c] = Dropped(query[c])]
      BY <1>3, <2>2 DEF QueryTimeout
    <3>2. query'[c].state = "discarded" /\ \A d \in Calls : d # c => query'[d] = query[d]
      BY <1>0, <2>0, <3>1, ResentType
    <3>3. outcomes' = [outcomes EXCEPT ![c] = "discarded"]
      BY <3>2 DEF outcomes
    <3>4. Rpc!Discard(c)
      BY <2>0, <3>3 DEF Rpc!Discard, outcomes, Live
    <3> QED
      BY <3>4 DEF Rpc!Next
  <2>3. CASE ~query[c].acked /\ ~(query[c].resends - 1 < 0)
    <3>1. query' = [query EXCEPT ![c] = Resent(query[c])]
      BY <1>3, <2>3 DEF QueryTimeout
    <3>2. \A d \in Calls : query'[d].state = query[d].state
      BY <1>0, <2>0, <3>1, ResentType
    <3> QED
      BY <2>0, <3>2, RpcStutter DEF executions
  <2> QED
    BY <2>1, <2>2, <2>3
<1>4. ASSUME NEW p, WorkRpcResult(p) PROVE [Rpc!Next]_(Rpc!vars)
  <2> DEFINE id == p.ids[1]
  <2>1. Receive({"result", "error"}, p)
    BY <1>4 DEF WorkRpcResult
  <2>2. accepted' = accepted /\ ReplyOK(p) /\ p.kind \in {"result", "error"}
        /\ p \in PacketType
    BY <1>0, <2>1, IdsInvReceive, ReceiveType
  <2>3. ASSUME id \in DOMAIN pending, NEW c \in Calls, c = pending[id]
        PROVE  [Rpc!Next]_(Rpc!vars)
    <3>1. query' = [query EXCEPT ![c] = Settled(query[c], p)]
      BY <1>4, <2>3 DEF WorkRpcResult
    <3>2. c \in Calls /\ query[c] \in QueryType /\ query[c].state = "live"
      BY <1>0, <2>3, TypeInvFacts DEF IdMap, PendingIsLive, Live
    <3>3. [id |-> id, call |-> p.call] \in accepted
      BY <2>2 DEF ReplyOK
    <3>4. p.call = c
      <4>1. NamesOneCall([id |-> id, call |-> p.call])
        BY <1>0, <3>3 DEF IdsInv, SentAs
      <4> QED
        BY <2>3, <4>1 DEF NamesOneCall
    <3>5. c \in executions
      BY <3>3, <3>4 DEF executions
    <3>6. /\ query'[c].state \in {"answered", "failed"}
          /\ \A d \in Calls : d # c => query'[d] = query[d]
      BY <1>0, <2>2, <3>1, <3>2, SettledType
    <3>7. outcomes' = [outcomes EXCEPT ![c] = query'[c].state]
      BY <3>6 DEF outcomes
    <3>8. executions' = executions
      BY <2>2 DEF executions
    <3>9. Rpc!Settle(c)
      BY <3>2, <3>5, <3>6, <3>7, <3>8 DEF Rpc!Settle, outcomes, executions
    <3> QED
      BY <3>9 DEF Rpc!Next
  <2>4. CASE id \notin DOMAIN pending
    BY <1>1, <1>4, <2>2, <2>4 DEF WorkRpcResult, queryVars
  <2> QED
    BY <1>0, <2>3, <2>4, TypeInvFacts DEF IdMap
<1>5. ASSUME NEW p, WorkMsgsAck(p) PROVE [Rpc!Next]_(Rpc!vars)
  <2>1. accepted' = accepted
    BY <1>5 DEF WorkMsgsAck, Receive, serverVars
  <2>2. \A c \in Calls : query'[c] = Acked(query[c]) \/ query'[c] = query[c]
    BY <1>5 DEF WorkMsgsAck
  <2>3. \A c \in Calls : query'[c].state = query[c].state
    BY <1>0, <2>2, AckedType
  <2> QED
    BY <2>1, <2>3, RpcStutter DEF executions
<1>6. ASSUME NEW p, WorkBadServerSalt(p) PROVE [Rpc!Next]_(Rpc!vars)
  <2> DEFINE bad == p.ids[1]
             c == pending[bad]
             last == LastOnReceipt(p.mid)
             seq == SeqOnReceipt(p.mid)
             id == NextMsgId(last, timeDiff)
             key == IF Connected THEN id ELSE Offline
  <2>1. Receive({"badSalt"}, p) /\ Recompose(p, last, timeDiff, seq)
    BY <1>6 DEF WorkBadServerSalt
  <2>2. accepted' = accepted
    BY <2>1 DEF Receive, serverVars
  <2>3. CASE bad \in DOMAIN pending
    <3>1. query' = [query EXCEPT ![c] = Renewed(query[c], key, seq + 1)]
      BY <2>1, <2>3 DEF Recompose, ComposeQuery
    <3>2. c \in Calls /\ query[c] \in QueryType
      BY <1>0, <2>3, TypeInvFacts DEF IdMap
    <3>3. Renewed(query[c], key, seq + 1).state = query[c].state
      BY <3>2 DEF Renewed, QueryType
    <3>4. \A d \in Calls : query'[d].state = query[d].state
      BY <1>0, <3>1, <3>2, <3>3
    <3> QED
      BY <2>2, <3>4, RpcStutter DEF executions
  <2>4. CASE bad \notin DOMAIN pending
    BY <1>1, <2>1, <2>2, <2>4 DEF Recompose, queryVars
  <2> QED
    BY <2>3, <2>4
<1>7. ASSUME NEW p, WorkBadMsgNotification(p) PROVE FALSE
  <2> p \in Elements(toClient) /\ p.kind \in {"badMsg"}
    BY <1>0, <1>7, ReceiveType DEF WorkBadMsgNotification
  <2> QED
    BY <1>0 DEF IdsInv, ReplyOK
<1>8. CASE ServerAccept
  <2> DEFINE h == Head(toServer)
             a == [id |-> h.id, call |-> h.call]
  <2>1. /\ toServer # <<>> /\ h.id # Offline /\ query' = query
        /\ accepted' = accepted \/ accepted' = accepted \cup {a}
    BY <1>8 DEF ServerAccept, ServerUnchanged, queryVars
  <2>2. h \in Elements(toServer) /\ h.call \in Calls
    BY <1>0, <2>1, ReadType DEF MessageType
  <2>3. a \in SentAs
    BY <2>1, <2>2 DEF SentAs
  <2>4. query[h.call].state # "none"
    BY <1>0, <2>3 DEF IdsInv, NamesOneCall
  <2>5. CASE accepted' = accepted
    BY <1>1, <2>1, <2>5
  <2>6. ASSUME accepted' = accepted \cup {a}, NEW c \in Calls, c = h.call
        PROVE  [Rpc!Next]_(Rpc!vars)
    <3>1. a.call = c
      BY <2>6
    <3> HIDE DEF a
    <3>2. executions' = executions \cup {c}
      BY <2>6, <3>1 DEF executions
    <3>3. Rpc!Execute(c)
      BY <2>1, <2>4, <2>6, <3>2 DEF Rpc!Execute, executions
    <3> QED
      BY <3>3 DEF Rpc!Next
  <2> QED
    BY <2>1, <2>2, <2>5, <2>6
<1>9. CASE Server
  <2>1. CASE ServerAccept
    BY <1>8, <2>1
  <2>2. CASE ~ServerAccept
    BY <1>1, <1>9, <2>2 DEF Server, ServerRejectSalt, ServerRejectMessage, ServerReply,
       ServerAck, ServerOther, ServerChangeSalt, ServerUnchanged, queryVars
  <2> QED
    BY <2>1, <2>2
<1>10. CASE ProcessPacket
  <2>1. ASSUME NEW p, WorkOther(p) PROVE [Rpc!Next]_(Rpc!vars)
    BY <1>1, <2>1 DEF WorkOther, Receive, queryVars, serverVars
  <2> QED
    BY <1>4, <1>5, <1>6, <1>7, <1>10, <2>1 DEF ProcessPacket
<1>11. CASE \/ \E mid \in ackTimers : AckTimeout(mid)
            \/ ConnectToServer \/ OnConnected \/ Tick
            \/ \E retried \in BOOLEAN : OnError(retried)
  BY <1>1, <1>11 DEF AckTimeout, ConnectToServer, OnConnected, OnError, Tick,
     queryVars, serverVars
<1>12. CASE UNCHANGED vars
  BY <1>1, <1>12 DEF vars
<1>13. ASSUME NEW c \in Calls, SendQuery(c) PROVE [Rpc!Next]_(Rpc!vars)
  BY <1>2, <1>13 DEF Rpc!Next
<1> QED
  BY <1>3, <1>9, <1>10, <1>11, <1>12, <1>13 DEF Next

\* No packet resynchronises a session whose server sends none.
LEMMA ResyncsBounded == Spec => [](resyncs \in Nat /\ resyncs <= MaxResyncs)
<1>1. Init => resyncs \in Nat /\ resyncs <= MaxResyncs
  BY BoundsAssumption DEF Init
<1>2. (resyncs \in Nat /\ resyncs <= MaxResyncs) /\ [Next]_vars
        => (resyncs \in Nat /\ resyncs <= MaxResyncs)'
  <2> SUFFICES ASSUME resyncs \in Nat, resyncs <= MaxResyncs, [Next]_vars
               PROVE  resyncs' \in Nat /\ resyncs' <= MaxResyncs
    OBVIOUS
  <2>1. resyncs' = resyncs \/ (resyncs' = resyncs + 1 /\ resyncs < MaxResyncs)
    BY DEF Next, SendQuery, QueryTimeout, AckTimeout, ProcessPacket, WorkRpcResult,
       WorkMsgsAck, WorkBadServerSalt, WorkBadMsgNotification, WorkOther, Receive,
       ConnectToServer, OnConnected, OnError, Server, ServerAccept, ServerRejectSalt,
       ServerRejectMessage, ServerReply, ServerAck, ServerOther, ServerChangeSalt,
       Tick, vars, serverVars
  <2> QED
    BY <2>1, BoundsAssumption
<1> QED
  BY <1>1, <1>2, PTL DEF Spec

\* While the server sends no bad_msg_notification, a session implements RpcCalls:
\* at most one outcome for each call, and an answer only to a call that the
\* server executed.
THEOREM Implements == MaxResyncs = 0 => (Spec => RpcSpec)
<1> SUFFICES ASSUME MaxResyncs = 0 PROVE Spec => RpcSpec
  OBVIOUS
<1>1. Init => Rpc!Init
  BY DEF Init, Rpc!Init, NewQuery
<1>2. (resyncs \in Nat /\ resyncs <= MaxResyncs) /\ IInv /\ IInv' /\ [Next]_vars
        => [Rpc!Next]_(Rpc!vars)
  BY RpcStep
<1> QED
  BY <1>1, <1>2, IInvAlways, ResyncsBounded, PTL DEF Spec, RpcSpec, Rpc!Spec
=============================================================================

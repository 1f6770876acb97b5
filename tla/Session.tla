------------------------------- MODULE Session -------------------------------
(***************************************************************************)
(* One MTProto session of libqtelegram-aseman-edition: the Session object  *)
(* (core/session.cpp) on top of its Connection (core/connection.cpp), the  *)
(* Query objects it owns (core/query.cpp), the acknowledgement timers      *)
(* (core/eventtimer.cpp) and the slots of AbstractApi that consume the     *)
(* answers, together with the server and the TCP stream between them.      *)
(*                                                                         *)
(* The client is single threaded: every slot or timer callback is one      *)
(* action.  Packets read from the socket are handed to processRpcAnswer    *)
(* by a queued call, so packets that were read before a disconnection are  *)
(* still processed after it: toClient stands for the stream and the event  *)
(* queue together.                                                         *)
(*                                                                         *)
(* Client message identifiers are multiples of four: the seconds of the    *)
(* corrected clock in the high half, a counter in the low half.  A message *)
(* composed while the socket is not connected gets the identifier Offline. *)
(***************************************************************************)
EXTENDS Integers, Sequences, FiniteSets

CONSTANTS
  Calls,            \* the requests the application may make
  NoCall,           \* not a call
  ResendQueries,    \* Settings::resendQueries()
  MaxResends,       \* MAX_QUERY_RESENDS
  MaxPendingAcks,   \* MAX_PENDING_ACKS
  IdsPerSecond,     \* message identifiers in one second (2^30)
  Skew,             \* seconds the client's clock is ahead of the server's
  FirstTimeDiff,    \* time difference the DC was stored with
  MaxClock,         \* bound: seconds the clocks advance
  MaxPackets,       \* bound: packets the server sends
  MaxDrops,         \* bound: connection losses
  MaxSalts,         \* bound: changes of the server's salt
  MaxResyncs        \* bound: bad_msg_notifications the server sends

ASSUME NoCallAssumption == NoCall \notin Calls
ASSUME ResendQueriesAssumption == ResendQueries \in BOOLEAN
ASSUME MaxResendsAssumption == MaxResends \in Nat
ASSUME MaxPendingAcksAssumption == MaxPendingAcks \in Nat
ASSUME IdsPerSecondAssumption == IdsPerSecond \in Nat \ {0}
ASSUME ClockAssumption == Skew \in Int /\ FirstTimeDiff \in Int
ASSUME BoundsAssumption ==
  /\ MaxClock \in Nat /\ MaxPackets \in Nat /\ MaxDrops \in Nat
  /\ MaxSalts \in Nat /\ MaxResyncs \in Nat

VARIABLES
  \* Connection
  conn,          \* state of the socket
  reconnect,     \* a singleShot connectToServer is scheduled
  \* Session
  lastMsgId,     \* m_clientLastMsgId, shared by the sessions of the process
  timeDiff,      \* mTimeDifference
  seqNo,         \* m_seqNo
  initNeeded,    \* m_initConnectionNeeded
  pending,       \* m_pendingQueries: message identifier -> call
  query,         \* the Query object of each call
  pendingAcks,   \* keys of m_pendingAcks
  ackTimers,     \* those of them whose single-shot timer is still running
  salt,          \* m_dc->serverSalt()
  \* the server, the stream and the clock
  clock,         \* QDateTime::currentDateTime().toTime_t()
  toServer,      \* messages written to the socket and not yet read, in order
  toClient,      \* packets sent to the client and not yet processed
  accepted,      \* queries the server accepted: what it executes, once per id
  initSeen,      \* a message carrying initConnection was written to the socket
  serverSalt, packets, drops, resyncs

connVars   == <<conn, reconnect>>
idVars     == <<lastMsgId, timeDiff, seqNo>>
queryVars  == <<pending, query>>
ackVars    == <<pendingAcks, ackTimers>>
serverVars == <<accepted, serverSalt, packets, resyncs>>

vars == <<conn, reconnect, lastMsgId, timeDiff, seqNo, initNeeded, pending,
          query, pendingAcks, ackTimers, salt, clock, toServer, toClient,
          accepted, initSeen, serverSalt, packets, drops, resyncs>>

-----------------------------------------------------------------------------
(* Message identifiers and sequence numbers                                *)

Offline == -1

PlainNextMsgId(diff) == (clock - diff) * (4 * IdsPerSecond)

\* Mutant: two messages of one second share an identifier.
NextMsgIdUnbumped(last, diff) == PlainNextMsgId(diff)

NextMsgId(last, diff) ==
  IF PlainNextMsgId(diff) <= last THEN last + 4 ELSE PlainNextMsgId(diff)

Connected == conn = "connected"

-----------------------------------------------------------------------------
(* Maps (QMap), queries, messages and packets                              *)

MapInsert(m, k, v) == [x \in DOMAIN m \cup {k} |-> IF x = k THEN v ELSE m[x]]
MapRemove(m, k)    == [x \in DOMAIN m \ {k} |-> m[x]]

QueryStates == {"none", "live", "answered", "failed", "discarded"}

QueryType ==
  [state : QueryStates, msgId : Int, seqNo : Int, acked : BOOLEAN,
   resends : Int, timer : BOOLEAN, init : BOOLEAN, got : Calls \cup {NoCall}]

NewQuery(state, timer, init) ==
  [state |-> state, msgId |-> Offline, seqNo |-> 0, acked |-> FALSE,
   resends |-> MaxResends, timer |-> timer, init |-> init, got |-> NoCall]

\* Query q as the message with identifier k and sequence number s.
Renewed(q, k, s) == [q EXCEPT !.msgId = k, !.seqNo = s, !.acked = FALSE]

\* Query q acknowledged by the server, and settled by the reply in packet p.
Acked(q) == [q EXCEPT !.acked = TRUE]
Settled(q, p) ==
  [Acked(q) EXCEPT !.state = IF p.kind = "result" THEN "answered" ELSE "failed",
                   !.timer = FALSE, !.got = p.call]

\* Query q with one resend less, and without any left.
Resent(q)  == [q EXCEPT !.resends = @ - 1]
Dropped(q) == [Resent(q) EXCEPT !.state = "discarded", !.timer = FALSE]

Live(c) == query[c].state = "live"

\* A query on the wire.  outer is the identifier of the message it travels in:
\* its own, or that of the container a resend wraps it in; init tells whether
\* its data starts with the initConnection header.
Message(outer, id, s, c, i, st) ==
  [outer |-> outer, id |-> id, seqNo |-> s, call |-> c, init |-> i, salt |-> st]

MessageType ==
  [outer : Int, id : Int, seqNo : Int, call : Calls, init : BOOLEAN, salt : Nat]

\* A packet from the server: its kind, its own (odd) identifier counted from 1,
\* the salt in its header, the client identifiers it is about, the call whose
\* reply it carries and the second it was composed at on the server's clock.
PacketKinds == {"result", "error", "ack", "badSalt", "badMsg", "other"}

Packet(k, ids, c) ==
  [kind |-> k, mid |-> packets + 1, salt |-> serverSalt, ids |-> ids,
   call |-> c, time |-> clock - Skew]

PacketType ==
  [kind : PacketKinds, mid : Nat, salt : Nat, ids : Seq(Int),
   call : Calls \cup {NoCall}, time : Int]

-----------------------------------------------------------------------------

Init ==
  /\ conn = "unconnected" /\ reconnect = TRUE
  /\ lastMsgId = 0 /\ timeDiff = FirstTimeDiff /\ seqNo = 0
  /\ initNeeded = TRUE
  /\ pending = [x \in {} |-> NoCall]
  /\ query = [c \in Calls |-> NewQuery("none", FALSE, FALSE)]
  /\ pendingAcks = {} /\ ackTimers = {}
  /\ salt = 0
  /\ clock = 1
  /\ toServer = <<>> /\ toClient = <<>> /\ accepted = {}
  /\ initSeen = FALSE
  /\ serverSalt = 0 /\ packets = 0 /\ drops = 0 /\ resyncs = 0

-----------------------------------------------------------------------------
(* Composing and writing messages                                          *)

\* rpcSendMessage: nothing is written unless the socket is connected.
Write(m) ==
  IF Connected
  THEN toServer' = Append(toServer, m) /\ initSeen' = (initSeen \/ m.init)
  ELSE UNCHANGED <<toServer, initSeen>>

\* sendQuery and recomposeAndSendQuery: compose call c as a new message, given
\* the last identifier, the time difference, the sequence number and the salt
\* in force, and insert it in map m.  Identifier and sequence number are spent
\* even when nothing can be written.
ComposeQuery(c, rec, m, last, diff, seq, st) ==
  LET id  == NextMsgId(last, diff)
      key == IF Connected THEN id ELSE Offline
  IN /\ lastMsgId' = id
     /\ seqNo' = seq + 2
     /\ query' = [query EXCEPT ![c] = Renewed(rec, key, seq + 1)]
     /\ pending' = MapInsert(m, key, c)
     /\ Write(Message(id, id, seq + 1, c, rec.init, st))

\* Mutant: the resend timer is started only if the query could be written.
SendQueryTimedIfWritten(c) ==
  /\ query[c].state = "none"
  /\ ComposeQuery(c, NewQuery("live", ResendQueries /\ Connected, initNeeded),
                  pending, lastMsgId, timeDiff, seqNo, salt)
  /\ initNeeded' = FALSE
  /\ UNCHANGED <<connVars, timeDiff, ackVars, salt, clock, toClient,
                 serverVars, drops>>

SendQuery(c) ==
  /\ query[c].state = "none"
  /\ ComposeQuery(c, NewQuery("live", ResendQueries, initNeeded),
                  pending, lastMsgId, timeDiff, seqNo, salt)
  /\ initNeeded' = FALSE
  /\ UNCHANGED <<connVars, timeDiff, ackVars, salt, clock, toClient,
                 serverVars, drops>>

\* Query::timerEvent and resendQuery.  The message keeps its identifier and
\* travels in a container with an identifier of its own.
QueryTimeout(c) ==
  /\ Live(c) /\ query[c].timer
  /\ IF query[c].acked
     THEN /\ query' = [query EXCEPT ![c].timer = FALSE]
          /\ UNCHANGED <<lastMsgId, seqNo, pending, toServer, initSeen>>
     ELSE IF query[c].resends - 1 < 0
     THEN /\ query' = [query EXCEPT ![c] = Dropped(@)]
          /\ pending' = MapRemove(pending, query[c].msgId)
          /\ UNCHANGED <<lastMsgId, seqNo, toServer, initSeen>>
     ELSE LET outer == NextMsgId(lastMsgId, timeDiff) IN
          /\ query' = [query EXCEPT ![c] = Resent(@)]
          /\ lastMsgId' = outer
          /\ seqNo' = seqNo + 2
          /\ Write(Message(outer, query[c].msgId, query[c].seqNo, c,
                           query[c].init, salt))
          /\ UNCHANGED pending
  /\ UNCHANGED <<connVars, timeDiff, initNeeded, ackVars, salt, clock, toClient,
                 serverVars, drops>>

-----------------------------------------------------------------------------
(* Acknowledgements of server messages                                     *)

\* sendAcks composes one message for all the identifiers it is given, and does
\* nothing when the socket is not connected.
LastAfterAcks == NextMsgId(lastMsgId, timeDiff)

\* ackAll
AckAll ==
  /\ pendingAcks' = {} /\ ackTimers' = {}
  /\ lastMsgId' = LastAfterAcks
  /\ seqNo' = seqNo + 2

\* Mutant: the limit is checked before the insertion.
FlushesAcksLate(mid) == Connected /\ Cardinality(pendingAcks) > MaxPendingAcks

\* addToPendingAcks(mid), and the identifiers its ackAll may spend.
FlushesAcks(mid) ==
  Connected /\ Cardinality(pendingAcks \cup {mid}) > MaxPendingAcks

\* Mutant: the acknowledgements are flushed but their timers left running.
AddToPendingAcksDetached(mid) ==
  IF FlushesAcks(mid)
  THEN pendingAcks' = {} /\ UNCHANGED ackTimers
  ELSE pendingAcks' = pendingAcks \cup {mid} /\ ackTimers' = ackTimers \cup {mid}

AddToPendingAcks(mid) ==
  IF FlushesAcks(mid)
  THEN pendingAcks' = {} /\ ackTimers' = {}
  ELSE pendingAcks' = pendingAcks \cup {mid} /\ ackTimers' = ackTimers \cup {mid}

LastOnReceipt(mid) == IF FlushesAcks(mid) THEN LastAfterAcks ELSE lastMsgId
SeqOnReceipt(mid)  == IF FlushesAcks(mid) THEN seqNo + 2 ELSE seqNo

\* EventTimer::onTimeout and ack: while the socket is not connected the timer
\* is spent and the identifier stays.
AckTimeout(mid) ==
  /\ mid \in ackTimers
  /\ ackTimers' = ackTimers \ {mid}
  /\ IF Connected
     THEN /\ pendingAcks' = pendingAcks \ {mid}
          /\ lastMsgId' = LastAfterAcks
          /\ seqNo' = seqNo + 2
     ELSE UNCHANGED <<pendingAcks, lastMsgId, seqNo>>
  /\ UNCHANGED <<connVars, timeDiff, initNeeded, queryVars, salt, clock, toServer,
                 toClient, serverVars, initSeen, drops>>

-----------------------------------------------------------------------------
(* processRpcMessage and the handlers of rpcExecuteAnswer                  *)

\* What every packet does before its handler runs: the salt of the header is
\* adopted and the packet is noted for acknowledgement.
Receive(kinds, p) ==
  /\ toClient # <<>>
  /\ p = Head(toClient)
  /\ p.kind \in kinds
  /\ toClient' = Tail(toClient)
  /\ AddToPendingAcks(p.mid)
  /\ salt' = p.salt
  /\ UNCHANGED <<connVars, initNeeded, clock, serverVars, drops>>

SpendAcksOnly(p) ==
  /\ lastMsgId' = LastOnReceipt(p.mid)
  /\ seqNo' = SeqOnReceipt(p.mid)
  /\ UNCHANGED <<timeDiff, toServer, initSeen>>

\* Mutant: the query stays pending after its reply.
WorkRpcResultUntaken(p) ==
  LET id == p.ids[1] IN
  /\ Receive({"result", "error"}, p)
  /\ SpendAcksOnly(p)
  /\ UNCHANGED pending
  /\ IF id \in DOMAIN pending
     THEN query' = [query EXCEPT ![pending[id]] = Settled(@, p)]
     ELSE UNCHANGED query

\* queryOnResult and queryOnError, then AbstractApi::onResultReceived and
\* onErrorReceived, which hand the reply to the caller and delete the query.
WorkRpcResult(p) ==
  LET id == p.ids[1] IN
  /\ Receive({"result", "error"}, p)
  /\ SpendAcksOnly(p)
  /\ IF id \in DOMAIN pending
     THEN /\ pending' = MapRemove(pending, id)
          /\ query' = [query EXCEPT ![pending[id]] = Settled(@, p)]
     ELSE UNCHANGED queryVars

\* The identifiers before the first one that is not pending are marked; the
\* rest of the list is not looked at.
AckedPrefix(ids) ==
  {ids[i] : i \in {j \in DOMAIN ids : \A k \in 1..j : ids[k] \in DOMAIN pending}}

WorkMsgsAck(p) ==
  /\ Receive({"ack"}, p)
  /\ SpendAcksOnly(p)
  /\ query' = [c \in Calls |->
                 IF \E id \in AckedPrefix(p.ids) : pending[id] = c
                 THEN Acked(query[c]) ELSE query[c]]
  /\ UNCHANGED pending

\* Mutant: the query is looked up, not taken, and is left under its old identifier.
RecomposeUntaken(p, last, diff, seq) ==
  LET bad == p.ids[1] IN
  IF bad \in DOMAIN pending
  THEN ComposeQuery(pending[bad], query[pending[bad]], pending, last, diff, seq, p.salt)
  ELSE /\ lastMsgId' = last /\ seqNo' = seq
       /\ UNCHANGED <<queryVars, toServer, initSeen>>

\* Mutant: the query is written again but not put back among the pending ones.
RecomposeForgotten(p, last, diff, seq) ==
  LET bad == p.ids[1]
      id  == NextMsgId(last, diff)
      key == IF Connected THEN id ELSE Offline
  IN IF bad \in DOMAIN pending
     THEN /\ lastMsgId' = id /\ seqNo' = seq + 2
          /\ query' = [query EXCEPT ![pending[bad]].msgId = key,
                                    ![pending[bad]].seqNo = seq + 1]
          /\ pending' = MapRemove(pending, bad)
          /\ Write(Message(id, id, seq + 1, pending[bad], FALSE, p.salt))
     ELSE /\ lastMsgId' = last /\ seqNo' = seq
          /\ UNCHANGED <<queryVars, toServer, initSeen>>

\* Mutant: the query keeps the sequence number of its first transmission.
RecomposeOldSeqNo(p, last, diff, seq) ==
  LET bad == p.ids[1] IN
  IF bad \in DOMAIN pending
  THEN LET c   == pending[bad]
           id  == NextMsgId(last, diff)
           key == IF Connected THEN id ELSE Offline
       IN /\ lastMsgId' = id /\ seqNo' = seq + 2
          /\ query' = [query EXCEPT ![c].msgId = key, ![c].acked = FALSE]
          /\ pending' = MapInsert(MapRemove(pending, bad), key, c)
          /\ Write(Message(id, id, query[c].seqNo, c, query[c].init, p.salt))
  ELSE /\ lastMsgId' = last /\ seqNo' = seq
       /\ UNCHANGED <<queryVars, toServer, initSeen>>

\* The query that was rejected, if it is still pending, is composed again.
Recompose(p, last, diff, seq) ==
  LET bad == p.ids[1] IN
  IF bad \in DOMAIN pending
  THEN ComposeQuery(pending[bad], query[pending[bad]], MapRemove(pending, bad),
                    last, diff, seq, p.salt)
  ELSE /\ lastMsgId' = last /\ seqNo' = seq
       /\ UNCHANGED <<queryVars, toServer, initSeen>>

WorkBadServerSalt(p) ==
  /\ Receive({"badSalt"}, p)
  /\ Recompose(p, LastOnReceipt(p.mid), timeDiff, SeqOnReceipt(p.mid))
  /\ UNCHANGED timeDiff

\* Codes 16, 17, 19, 32, 33 and 64: the clock is corrected by the time of the
\* packet and the identifiers start again from the corrected clock, unless the
\* first of them is pending.
WorkBadMsgNotification(p) ==
  LET diff == clock - p.time
      last == IF PlainNextMsgId(diff) \in DOMAIN pending
              THEN LastOnReceipt(p.mid) ELSE 0
  IN /\ Receive({"badMsg"}, p)
     /\ timeDiff' = diff
     /\ Recompose(p, last, diff, SeqOnReceipt(p.mid))

\* Updates, pongs, new_session_created, detailed infos, unknown messages, and
\* notifications with another error code: no query is touched.
WorkOther(p) ==
  /\ Receive({"other"}, p)
  /\ SpendAcksOnly(p)
  /\ UNCHANGED queryVars

-----------------------------------------------------------------------------
(* Connection                                                              *)

ConnectToServer ==
  /\ reconnect
  /\ reconnect' = FALSE
  /\ conn' = IF conn = "unconnected" THEN "connecting" ELSE conn
  /\ UNCHANGED <<idVars, initNeeded, queryVars, ackVars, salt, clock, toServer,
                 toClient, serverVars, initSeen, drops>>

\* Mutant: the pending acknowledgements are not sent on a reconnection.
OnConnectedUnacked ==
  /\ conn = "connecting"
  /\ conn' = "connected"
  /\ UNCHANGED <<reconnect, idVars, initNeeded, queryVars, ackVars, salt, clock,
                 toServer, toClient, serverVars, initSeen, drops>>

\* onConnected and Session::processConnected: acknowledge everything pending.
OnConnected ==
  /\ conn = "connecting"
  /\ conn' = "connected"
  /\ AckAll
  /\ UNCHANGED <<reconnect, timeDiff, initNeeded, queryVars, salt, clock, toServer,
                 toClient, serverVars, initSeen, drops>>

\* onError: the socket ends unconnected and, unless the error is one the code
\* does not retry, a reconnection is scheduled.  The stream is lost but for the
\* packets that were already read.
OnError(retried) ==
  /\ conn \in {"connecting", "connected"}
  /\ drops < MaxDrops
  /\ drops' = drops + 1
  /\ conn' = "unconnected"
  /\ reconnect' = (reconnect \/ retried)
  /\ toServer' = <<>>
  /\ \E n \in 0..Len(toClient) : toClient' = SubSeq(toClient, 1, n)
  /\ UNCHANGED <<idVars, initNeeded, queryVars, ackVars, salt, clock, serverVars,
                 initSeen>>

-----------------------------------------------------------------------------
(* The server and the clock                                                *)

ServerUnchanged ==
  UNCHANGED <<connVars, idVars, initNeeded, queryVars, ackVars, salt, clock,
              initSeen, drops>>

SendPacket(kind, ids, c) ==
  /\ Connected /\ packets < MaxPackets
  /\ packets' = packets + 1
  /\ toClient' = Append(toClient, Packet(kind, ids, c))

\* The server executes a query once per identifier.
ServerAccept ==
  /\ toServer # <<>>
  /\ LET m == Head(toServer) IN
    /\ m.salt = serverSalt /\ m.id # Offline
    /\ toServer' = Tail(toServer)
    /\ accepted' = IF \E a \in accepted : a.id = m.id THEN accepted
                   ELSE accepted \cup {[id |-> m.id, call |-> m.call]}
    /\ ServerUnchanged
    /\ UNCHANGED <<toClient, serverSalt, packets, resyncs>>

ServerRejectSalt ==
  /\ toServer # <<>>
  /\ LET m == Head(toServer) IN
    /\ m.salt # serverSalt
    /\ toServer' = Tail(toServer)
    /\ SendPacket("badSalt", <<m.outer>>, NoCall)
    /\ ServerUnchanged
    /\ UNCHANGED <<accepted, serverSalt, resyncs>>

ServerRejectMessage ==
  /\ toServer # <<>>
  /\ LET m == Head(toServer) IN
    /\ toServer' = Tail(toServer)
    /\ ServerUnchanged
    /\ UNCHANGED <<accepted, serverSalt>>
    /\ \/ /\ resyncs < MaxResyncs
          /\ resyncs' = resyncs + 1
          /\ SendPacket("badMsg", <<m.outer>>, NoCall)
       \/ /\ SendPacket("other", <<>>, NoCall)
          /\ UNCHANGED resyncs

\* A reply may be sent again, in a new message, until it is acknowledged.
ServerReply ==
  \E a \in accepted, kind \in {"result", "error"} :
    /\ SendPacket(kind, <<a.id>>, a.call)
    /\ ServerUnchanged
    /\ UNCHANGED <<toServer, accepted, serverSalt, resyncs>>

ServerAck ==
  \E a, b \in accepted :
    /\ SendPacket("ack", IF a = b THEN <<a.id>> ELSE <<a.id, b.id>>, NoCall)
    /\ ServerUnchanged
    /\ UNCHANGED <<toServer, accepted, serverSalt, resyncs>>

ServerOther ==
  /\ SendPacket("other", <<>>, NoCall)
  /\ ServerUnchanged
  /\ UNCHANGED <<toServer, accepted, serverSalt, resyncs>>

ServerChangeSalt ==
  /\ serverSalt < MaxSalts
  /\ serverSalt' = serverSalt + 1
  /\ ServerUnchanged
  /\ UNCHANGED <<toServer, toClient, accepted, packets, resyncs>>

Tick ==
  /\ clock < MaxClock
  /\ clock' = clock + 1
  /\ UNCHANGED <<connVars, idVars, initNeeded, queryVars, ackVars, salt, toServer,
                 toClient, serverVars, initSeen, drops>>

-----------------------------------------------------------------------------

ProcessPacket ==
  /\ toClient # <<>>
  /\ LET p == Head(toClient) IN
     \/ WorkRpcResult(p)
     \/ WorkMsgsAck(p)
     \/ WorkBadServerSalt(p)
     \/ WorkBadMsgNotification(p)
     \/ WorkOther(p)

Server ==
  \/ ServerAccept \/ ServerRejectSalt \/ ServerRejectMessage \/ ServerReply
  \/ ServerAck \/ ServerOther \/ ServerChangeSalt

Next ==
  \/ \E c \in Calls : SendQuery(c) \/ QueryTimeout(c)
  \/ \E mid \in ackTimers : AckTimeout(mid)
  \/ ProcessPacket
  \/ ConnectToServer \/ OnConnected
  \/ \E retried \in BOOLEAN : OnError(retried)
  \/ Server
  \/ Tick

Spec == Init /\ [][Next]_vars

\* The event loop runs every timer that is due and every queued call, and a
\* scheduled reconnection is made.  The server, the network and the caller owe
\* nothing.
Fairness ==
  /\ \A c \in Calls : WF_vars(QueryTimeout(c))
  /\ \A mid \in 1..MaxPackets : WF_vars(AckTimeout(mid))
  /\ WF_vars(ProcessPacket)
  /\ WF_vars(ConnectToServer)

FairSpec == Spec /\ Fairness

-----------------------------------------------------------------------------
(* Properties                                                              *)

TypeOK ==
  /\ conn \in {"unconnected", "connecting", "connected"} /\ reconnect \in BOOLEAN
  /\ lastMsgId \in Int /\ timeDiff \in Int /\ seqNo \in Nat
  /\ initNeeded \in BOOLEAN /\ initSeen \in BOOLEAN
  /\ DOMAIN pending \subseteq Int
  /\ pending \in [DOMAIN pending -> Calls]
  /\ query \in [Calls -> QueryType]
  /\ pendingAcks \subseteq 1..packets /\ ackTimers \subseteq pendingAcks
  /\ salt \in Nat /\ serverSalt \in Nat
  /\ clock \in Nat /\ packets \in Nat /\ drops \in Nat /\ resyncs \in Nat
  /\ toServer \in Seq(MessageType)
  /\ toClient \in Seq(PacketType)
  /\ accepted \subseteq [id : Int, call : Calls]

\* m_pendingQueries never holds a deleted Query, and holds a query only under
\* the identifier it was last sent with: no handler can use a query after
\* AbstractApi or resendQuery deleted it, and none is answered twice.
PendingIsLive ==
  \A k \in DOMAIN pending : Live(pending[k]) /\ query[pending[k]].msgId = k

\* A query that was written under a real identifier and is neither answered nor
\* discarded can still be found by that identifier: unless the identifiers were
\* restarted, composing, recomposing and resending never lose one.
NoQueryLost ==
  resyncs = 0 =>
    \A c \in Calls : Live(c) /\ query[c].msgId # Offline =>
      query[c].msgId \in DOMAIN pending /\ pending[query[c].msgId] = c

\* Unless the identifiers were restarted by a bad_msg_notification, the reply a
\* caller is handed is the one the server computed for that caller's query,
\* whatever was lost, resent, recomposed, repeated or answered late.
ReplyIsOwn ==
  resyncs = 0 =>
    \A c \in Calls : query[c].state \in {"answered", "failed"} => query[c].got = c

\* The sequence numbers of the outstanding queries are ordered like their
\* message identifiers, as the server demands, also after a recomposition.
SeqNoFollowsMsgId ==
  resyncs = 0 =>
    \A c, d \in Calls :
      /\ Live(c) /\ query[c].msgId # Offline
      /\ Live(d) /\ query[d].msgId # Offline
      /\ query[c].msgId < query[d].msgId
      => query[c].seqNo < query[d].seqNo

\* On a connected socket at most MAX_PENDING_ACKS messages wait for their
\* acknowledgement, whatever accumulated before the connection was made.
AcksBounded ==
  Connected => Cardinality(pendingAcks) <= MaxPendingAcks

\* On a connected socket every message that waits for its acknowledgement has
\* a timer running that will send it: no timer that fired while the socket was
\* not connected leaves its message unacknowledged after the reconnection.
AcksArmed == Connected => pendingAcks \subseteq ackTimers

\* While the connection lasts, a message that was received is acknowledged.
AcksFlushed ==
  <>[]Connected =>
    \A mid \in 1..MaxPackets : mid \in pendingAcks ~> mid \notin pendingAcks

\* With resendQueries, no query that the server has not acknowledged stays
\* outstanding for ever: its timer resends it until it is answered, acknowledged
\* or discarded, whether or not it could be written when it was made.
NoEndlessWait ==
  \A c \in Calls : Live(c) ~> ~Live(c) \/ query[c].acked

\* session.h:110-111 of the initConnection flag: it stays set "until
\* initConnection() operation is executed against this server", because the
\* header is "needed at first operation against a new dc".
InitBeforeQueries == accepted # {} => initSeen

\* What the session promises its callers, while it is not resynchronised.
Rpc == INSTANCE RpcCalls WITH
         outcome  <- [c \in Calls |-> query[c].state],
         executed <- {a.call : a \in accepted}

\* The session implements RpcCalls: at most one outcome per call, and an answer
\* only to a call that the server executed.
RpcSpec == Rpc!Spec
=============================================================================

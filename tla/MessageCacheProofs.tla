------------------------- MODULE MessageCacheProofs -------------------------
(***************************************************************************)
(* Proofs about MessageCache, for any groups, secret chats and bounds.     *)
(***************************************************************************)
EXTENDS MessageCache, SequenceTheorems, WellFoundedInduction, TLAPS

-----------------------------------------------------------------------------
(* The inductive invariant.                                                *)

Ids         == {"none", "temp", "post", "update", "date"} \X Nat
MessageType == [dialog : Dialogs, text : Nat]
EntryType   == [dialog : Groups, top : [post : Ids, text : Nat], unread : BOOLEAN]
Methods     == {"sendMessage", "deleteMessages", "readHistory", "getFullChat",
                "deleteChatUser", "deleteHistory", "discard", "getDialogs"}
CallType    == [method : Methods, id : Nat, dialog : Dialogs \cup {NoDialog}, text : Nat]
AnswerType  == [kind : Methods \cup {"message"}, id : Nat, dialog : Dialogs \cup {NoDialog},
                text : Nat \cup SUBSET EntryType, post : Ids]

\* A cache c.
Shape(c) ==
  DOMAIN c = {"messages", "messages_list", "database", "pend_messages", "dialogs",
              "chats", "unread", "topMessage", "garbages", "freed", "deleteChatIds",
              "read_history_requests", "delete_history_requests"}
Objects == Secrets \cup {Temp(n) : n \in Nat}
GoneOf(c) == c.garbages \cup c.freed
MessagesType(c) ==
  /\ c.messages \in [DOMAIN c.messages -> MessageType] /\ DOMAIN c.messages \subseteq Ids
  /\ c.database \in [DOMAIN c.database -> MessageType] /\ DOMAIN c.database \subseteq Ids
  /\ c.messages_list \in [Dialogs -> SUBSET Ids]
  /\ \A id \in DOMAIN c.database : ~IsTemp(id)
  /\ GoneOf(c) \subseteq Objects
DialogsType(c) ==
  /\ c.dialogs \subseteq Dialogs /\ c.unread \subseteq Dialogs
  /\ c.chats \subseteq Groups /\ c.deleteChatIds \subseteq Groups
FiledType(c, n, requested) ==
  /\ c.pend_messages \in [DOMAIN c.pend_messages -> 1..n]
  /\ DOMAIN c.pend_messages \subseteq {Offline} \cup 1..requested
  /\ DOMAIN c.read_history_requests \subseteq {Offline} \cup 1..requested
  /\ c.delete_history_requests \in [DOMAIN c.delete_history_requests -> Groups]
  /\ DOMAIN c.delete_history_requests \subseteq {Offline} \cup 1..requested
CacheType ==
  Shape(cache) /\ MessagesType(cache) /\ DialogsType(cache) /\ FiledType(cache, texts, requests)

\* Requests and answers under way.
Coming     == Range(toClient)
GroupSteps == {"getFullChat", "deleteChatUser", "deleteHistory"}
CallOK(r) ==
  /\ r \in CallType /\ r.id \in 1..requests
  /\ r.method = "getDialogs" \/ r.dialog \in Dialogs
  /\ r.method \in GroupSteps => r.dialog \in Groups
  /\ r.method \in DeletionSteps => r.text = 0
  /\ r.method = "sendMessage" => r.text \in 1..texts
AnswerOK(a) ==
  /\ a \in AnswerType /\ a.id \in 0..requests
  /\ a.kind = "getDialogs" \/ a.dialog \in Dialogs
  /\ a.kind \in GroupSteps => a.dialog \in Groups
  /\ a.kind = "getDialogs" => a.text \in SUBSET EntryType
  /\ a.kind \in DeletionSteps => a.text \in 0..1
  /\ a.kind \in {"readHistory", "deleteChatUser", "deleteHistory", "discard"} => a.text = 0
  /\ a.kind = "sendMessage" => a.text \in 1..texts
  /\ a.kind = "message" => a.text \in Nat
  /\ a.kind = "deleteChatUser" => IsUpdate(a.post)
  /\ IsUpdate(a.post) => a.dialog \in Groups
NetType ==
  /\ requests \in Nat
  /\ \A r \in calls : CallOK(r)
  /\ toClient \in Seq(AnswerType)
  /\ \A a \in Coming : AnswerOK(a)
ServerType ==
  /\ DOMAIN server = {"history", "members", "unread"}
  /\ server.history \in [Groups -> SUBSET [post : Ids, text : Nat]]
  /\ server.members \subseteq Groups
OtherType ==
  /\ opened \in Dialogs \cup {NoDialog} /\ cleanUpTimer \in BOOLEAN
  /\ fault \in [kind : {"none", "message", "chat", "dialog"}, dialog : Dialogs \cup {NoDialog}]
  /\ held \subseteq Secrets /\ forgotten \subseteq Dialogs
  /\ texts \in Nat /\ stamps \in Nat /\ failures \in Nat /\ collisions \in Nat
  /\ deletions \in Nat /\ others \in Nat

Types == CacheType /\ NetType /\ ServerType /\ OtherType

\* A text that is being sent: the pending message filed under its request, and
\* the message that shows it, are its own.
SendOK(id, d, n) ==
  /\ id \in DOMAIN cache.pend_messages => cache.pend_messages[id] = n
  /\ failures = 0 => id \in DOMAIN cache.pend_messages
  /\ Temp(n) \in GoneOf(cache) => d \in forgotten
  /\ Temp(n) \in DOMAIN cache.messages => cache.messages[Temp(n)].dialog = d
SendOf(id, d, n) == [id |-> id, dialog |-> d, text |-> n]
Sends ==
  {SendOf(r.id, r.dialog, r.text) : r \in {q \in calls : q.method = "sendMessage"}}
    \cup {SendOf(a.id, a.dialog, a.text) : a \in {b \in Coming : b.kind = "sendMessage"}}
SendInv == \A s \in Sends : SendOK(s.id, s.dialog, s.text)

\* A text is sent once, under one request, and answered once.
UniqueSends ==
  /\ \A r, q \in calls :
       r.method = "sendMessage" /\ q.method = "sendMessage" /\ r.text = q.text => r = q
  /\ \A i, j \in DOMAIN toClient :
       toClient[i].kind = "sendMessage" /\ toClient[j].kind = "sendMessage"
         /\ toClient[i].text = toClient[j].text => i = j
  /\ \A r \in calls, a \in Coming :
       ~(r.method = "sendMessage" /\ a.kind = "sendMessage" /\ a.text = r.text)

\* A message shown as pending is in the list of its dialog, and in no other,
\* until it is garbage.
TempInv(c, n) ==
  /\ \A i \in Nat :
       /\ Temp(i) \in DOMAIN c.messages =>
            /\ i <= n /\ Temp(i) \notin GoneOf(c)
            /\ Temp(i) \in c.messages_list[c.messages[Temp(i)].dialog]
       /\ Temp(i) \in GoneOf(c) => i <= n
  /\ \A d \in Dialogs : \A i \in Nat :
       Temp(i) \in c.messages_list[d] =>
         Temp(i) \in DOMAIN c.messages /\ c.messages[Temp(i)].dialog = d

\* What is deleted belongs to a dialog that the user deleted from or left.
FiledIsForgotten(id, d) ==
  id \in DOMAIN cache.delete_history_requests =>
    cache.delete_history_requests[id] = d /\ d \in forgotten
ForgetInv ==
  /\ cache.deleteChatIds \subseteq forgotten /\ GoneOf(cache) \cap Secrets \subseteq forgotten
  /\ \A r \in calls : FiledIsForgotten(r.id, r.dialog)
  /\ \A a \in Coming : FiledIsForgotten(a.id, a.dialog)

\* What is known of the messages of the server: an identifier, a dialog and a
\* text, here, in the database, under way and at the server.
Fact(id, d, t) == [id |-> id, dialog |-> d, text |-> t]
Posting        == {"message", "sendMessage", "deleteChatUser"}
FactsOf(m)     == {Fact(id, m[id].dialog, m[id].text) : id \in {x \in DOMAIN m : ~IsTemp(x)}}
FactsOfList(entries) ==
  {Fact(e.top.post, e.dialog, e.top.text) : e \in {x \in entries : x.top.post # NoId}}
FactsOfAnswer(a) ==
  IF a.kind \in Posting THEN {Fact(a.post, a.dialog, a.text)}
  ELSE IF a.kind = "getDialogs" THEN FactsOfList(a.text) ELSE {}
FactsOfHistory(h) == UNION {{Fact(x.post, d, x.text) : x \in h[d]} : d \in Groups}
Facts ==
  FactsOf(cache.messages) \cup FactsOf(cache.database) \cup FactsOfHistory(server.history)
    \cup UNION {FactsOfAnswer(a) : a \in Coming}
FactsInv ==
  /\ \A f \in Facts : f.id \in {"post", "update", "date"} \X (1..stamps)
  /\ collisions = 0 => \A f, g \in Facts : f.id = g.id => f = g

\* The request that takes the deletion of a chat on.
CallTakesOn(r, d) ==
  /\ r.dialog = d
  /\ \/ /\ r.method \in {"readHistory", "deleteHistory"}
        /\ r.id \in DOMAIN cache.delete_history_requests
     \/ r.method = "getFullChat"
     \/ r.method = "deleteChatUser" /\ d \in server.members
AnswerTakesOn(a, d) ==
  /\ a.dialog = d
  /\ \/ a.kind \in {"readHistory", "deleteHistory"} /\ a.id \in DOMAIN cache.delete_history_requests
     \/ a.kind = "getFullChat" /\ (a.text = 0 \/ d \in server.members)
     \/ a.kind = "deleteChatUser"
TakenOn(d) ==
  \/ \E r \in calls : CallTakesOn(r, d)
  \/ \E a \in Coming : AnswerTakesOn(a, d)
MarksInv == failures = 0 /\ fault = NoFault => \A d \in cache.deleteChatIds : TakenOn(d)

\* The two parts of CacheIsStored: what is listed is stored, or being sent, or
\* came in an update.
Stored(c, lost) ==
  \A d \in Dialogs : \A id \in c.messages_list[d] :
    /\ Has(c.messages, id) /\ c.messages[id].dialog = d
    /\ \/ IsTemp(id) \/ IsUpdate(id) \/ d \in Secrets \cap lost
       \/ Has(c.database, id) /\ c.database[id] = c.messages[id]
Sending(d, n) == \E s \in Sends : s.dialog = d /\ s.text = n
StoredInv ==
  collisions = 0 =>
    /\ Stored(cache, forgotten)
    /\ failures = 0 =>
         \A d \in Dialogs : \A n \in Nat :
           Temp(n) \in cache.messages_list[d] => Sending(d, n)

IInv ==
  /\ Types /\ SendInv /\ UniqueSends /\ TempInv(cache, texts) /\ ForgetInv
  /\ FactsInv /\ MarksInv /\ FaultsNeedForgetting /\ StoredInv

-----------------------------------------------------------------------------
(* Operations on the cache.                                                *)

\* What an operation from cache c to cache r leaves alone.
SameFiled(c, r) ==
  /\ r.pend_messages = c.pend_messages
  /\ r.read_history_requests = c.read_history_requests
  /\ r.delete_history_requests = c.delete_history_requests
SameDialogs(c, r) ==
  /\ r.dialogs = c.dialogs /\ r.chats = c.chats
  /\ r.unread = c.unread /\ r.deleteChatIds = c.deleteChatIds
SameMessages(c, r) ==
  /\ r.messages = c.messages /\ r.messages_list = c.messages_list
  /\ r.database = c.database /\ GoneOf(r) = GoneOf(c)

\* Each message is in the list of its dialog only.
Placed(c) ==
  \A d \in Dialogs : \A id \in c.messages_list[d] :
    id \in DOMAIN c.messages /\ c.messages[id].dialog = d

\* Messages go: those of r are some of those of c, in their lists; what is
\* not in the database of r is not listed, or belongs to a secret chat of lost.
Shrinks(c, r, lost) ==
  /\ IsRestriction(r.messages, c.messages) /\ IsRestriction(r.database, c.database)
  /\ \A d \in Dialogs : r.messages_list[d] \subseteq c.messages_list[d]
  /\ \A d \in Dialogs : \A id \in c.messages_list[d] :
       (IsTemp(id) \/ Placed(c)) /\ id \in DOMAIN c.messages /\ c.messages[id].dialog = d =>
         /\ id \in r.messages_list[d] <=> id \in DOMAIN r.messages
         /\ id \in r.messages_list[d] /\ id \in DOMAIN c.database
              /\ c.database[id] = c.messages[id]
              => id \in DOMAIN r.database \/ d \in Secrets \cap lost
  /\ \A x \in GoneOf(r) \ GoneOf(c) :
       \/ x \in Secrets \cap lost
       \/ IsTemp(x) /\ x \in DOMAIN c.messages \ DOMAIN r.messages

\* Messages of the server come: those of the facts in new, which are stored
\* unless they came in an update.
Gains(c, r, new) ==
  LET ids == {f.id : f \in new}
  IN  /\ DOMAIN r.messages = DOMAIN c.messages \cup ids
      /\ DOMAIN c.database \subseteq DOMAIN r.database
      /\ \A id \in DOMAIN c.messages \ ids : r.messages[id] = c.messages[id]
      /\ \A id \in DOMAIN r.database :
           \/ id \in ids /\ r.database[id] = r.messages[id]
           \/ id \in DOMAIN c.database /\ r.database[id] = c.database[id]
      /\ \A id \in ids : /\ Fact(id, r.messages[id].dialog, r.messages[id].text) \in new
                         /\ \/ IsUpdate(id)
                            \/ id \in DOMAIN r.database /\ r.database[id] = r.messages[id]
      /\ \A d \in Dialogs :
           r.messages_list[d] =
             c.messages_list[d]
               \cup {id \in ids \ DOMAIN c.messages : r.messages[id].dialog = d}
      /\ GoneOf(r) = GoneOf(c)

\* The identifier of a pending message is that of no message of the server,
\* and that of no secret chat's object.
LEMMA TempIds ==
  \A n \in Nat : IsTemp(Temp(n)) /\ Temp(n) \in Ids /\ Temp(n) \in Objects /\ Temp(n) \notin Secrets
BY ObjectsAssumption DEF IsTemp, Temp, Ids, Objects, Dialogs

\* insertMessage of a server's message: the cache gains the fact of it, in
\* memory and in the database, and nothing else changes.
LEMMA Inserted ==
  ASSUME NEW c, Shape(c), MessagesType(c), NEW id \in Ids, NEW d \in Dialogs, NEW t \in Nat,
         ~IsTemp(id)
  PROVE  LET r == InsertMessage(c, id, d, t, FALSE)
         IN  /\ Shape(r) /\ MessagesType(r) /\ SameFiled(c, r) /\ SameDialogs(c, r)
             /\ Gains(c, r, {Fact(id, d, t)})
<1> DEFINE r == InsertMessage(c, id, d, t, FALSE)
<1>1. /\ Shape(r) /\ SameFiled(c, r) /\ SameDialogs(c, r)
      /\ r.messages = Insert(c.messages, id, [dialog |-> d, text |-> t])
      /\ r.messages_list = [c.messages_list EXCEPT
                              ![d] = IF Has(c.messages, id) THEN @ ELSE @ \cup {id}]
      /\ r.database = Insert(c.database, id, [dialog |-> d, text |-> t])
      /\ r.garbages = c.garbages /\ r.freed = c.freed
  BY DEF Shape, InsertMessage, SameFiled, SameDialogs
<1> HIDE DEF r
<1>2. r.messages \in [DOMAIN r.messages -> MessageType] /\ DOMAIN r.messages \subseteq Ids
  BY <1>1 DEF MessagesType, Insert, MessageType
<1>3. r.database \in [DOMAIN r.database -> MessageType] /\ DOMAIN r.database \subseteq Ids
  BY <1>1 DEF MessagesType, Insert, MessageType
<1>4. \A x \in DOMAIN r.database : ~IsTemp(x)
  BY <1>1 DEF MessagesType, Insert
<1>5. r.messages_list \in [Dialogs -> SUBSET Ids]
  BY <1>1 DEF MessagesType
<1>6. MessagesType(r)
  BY <1>1, <1>2, <1>3, <1>4, <1>5 DEF MessagesType, GoneOf
<1>7. Gains(c, r, {Fact(id, d, t)})
  <2> DEFINE new == {Fact(id, d, t)}
             ids == {f.id : f \in new}
  <2>1. ids = {id}
    BY DEF Fact
  <2>2. /\ DOMAIN r.messages = DOMAIN c.messages \cup {id}
        /\ DOMAIN r.database = DOMAIN c.database \cup {id}
        /\ \A x \in DOMAIN c.messages \ {id} : r.messages[x] = c.messages[x]
        /\ \A x \in DOMAIN c.database \ {id} : r.database[x] = c.database[x]
        /\ r.messages[id] = [dialog |-> d, text |-> t] /\ r.database[id] = r.messages[id]
    BY <1>1 DEF Insert
  <2>3. Fact(id, r.messages[id].dialog, r.messages[id].text) \in new
    BY <2>2 DEF Fact
  <2>4. \A e \in Dialogs :
          r.messages_list[e] =
            c.messages_list[e] \cup {x \in {id} \ DOMAIN c.messages : r.messages[x].dialog = e}
    BY <1>1, <2>2 DEF MessagesType, Has
  <2>5. GoneOf(r) = GoneOf(c)
    BY <1>1 DEF GoneOf
  <2>6. \A x \in DOMAIN r.database :
          \/ x \in {id} /\ r.database[x] = r.messages[x]
          \/ x \in DOMAIN c.database /\ r.database[x] = c.database[x]
    BY <2>2
  <2> HIDE DEF new
  <2>7. Gains(c, r, new)
    BY <2>1, <2>2, <2>3, <2>4, <2>5, <2>6 DEF Gains
  <2> QED BY <2>7 DEF new
<1> QED BY <1>1, <1>6, <1>7 DEF r

\* insertMessage of a message that came in an update: it is listed, and what
\* the database holds stays as it is.
LEMMA InsertedUpdate ==
  ASSUME NEW c, Shape(c), MessagesType(c), NEW id \in Ids, NEW d \in Dialogs, NEW t \in Nat,
         IsUpdate(id)
  PROVE  LET r == InsertMessage(c, id, d, t, TRUE)
         IN  /\ Shape(r) /\ MessagesType(r) /\ SameFiled(c, r) /\ SameDialogs(c, r)
             /\ Gains(c, r, {Fact(id, d, t)})
<1> DEFINE r == InsertMessage(c, id, d, t, TRUE)
<1>1. /\ Shape(r) /\ SameFiled(c, r) /\ SameDialogs(c, r)
      /\ r.messages = Insert(c.messages, id, [dialog |-> d, text |-> t])
      /\ r.messages_list = [c.messages_list EXCEPT
                              ![d] = IF Has(c.messages, id) THEN @ ELSE @ \cup {id}]
      /\ r.database = c.database
      /\ r.garbages = c.garbages /\ r.freed = c.freed
  BY DEF Shape, InsertMessage, SameFiled, SameDialogs
<1> HIDE DEF r
<1>2. r.messages \in [DOMAIN r.messages -> MessageType] /\ DOMAIN r.messages \subseteq Ids
  BY <1>1 DEF MessagesType, Insert, MessageType
<1>3. r.messages_list \in [Dialogs -> SUBSET Ids]
  BY <1>1 DEF MessagesType
<1>4. MessagesType(r)
  BY <1>1, <1>2, <1>3 DEF MessagesType, GoneOf
<1>5. Gains(c, r, {Fact(id, d, t)})
  <2> DEFINE new == {Fact(id, d, t)}
             ids == {f.id : f \in new}
  <2>1. ids = {id}
    BY DEF Fact
  <2>2. /\ DOMAIN r.messages = DOMAIN c.messages \cup {id}
        /\ \A x \in DOMAIN c.messages \ {id} : r.messages[x] = c.messages[x]
        /\ r.messages[id] = [dialog |-> d, text |-> t]
    BY <1>1 DEF Insert
  <2>3. Fact(id, r.messages[id].dialog, r.messages[id].text) \in new
    BY <2>2 DEF Fact
  <2>4. \A e \in Dialogs :
          r.messages_list[e] =
            c.messages_list[e] \cup {x \in {id} \ DOMAIN c.messages : r.messages[x].dialog = e}
    BY <1>1, <2>2 DEF MessagesType, Has
  <2>5. GoneOf(r) = GoneOf(c)
    BY <1>1 DEF GoneOf
  <2> HIDE DEF new
  <2>6. Gains(c, r, new)
    BY <1>1, <2>1, <2>2, <2>3, <2>4, <2>5 DEF Gains
  <2> QED BY <2>6 DEF new
<1> QED BY <1>1, <1>4, <1>5 DEF r

\* insertToGarbeges of a message takes it from the map and from its dialog's
\* list; what is freed later is the object of a pending one.
LEMMA ToGarbeges ==
  ASSUME NEW c, Shape(c), MessagesType(c), NEW id \in DOMAIN c.messages, NEW n, TempInv(c, n)
  PROVE  LET r == InsertToGarbeges(c, id)
         IN  /\ Shape(r) /\ MessagesType(r) /\ SameFiled(c, r) /\ SameDialogs(c, r)
             /\ r.messages = [x \in DOMAIN c.messages \ {id} |-> c.messages[x]]
             /\ r.messages_list = [c.messages_list EXCEPT ![c.messages[id].dialog] = @ \ {id}]
             /\ r.database = c.database
             /\ GoneOf(r) = GoneOf(c) \cup (IF IsTemp(id) THEN {id} ELSE {})
<1> DEFINE r == InsertToGarbeges(c, id)
<1>1. /\ Shape(r) /\ SameFiled(c, r) /\ SameDialogs(c, r)
      /\ r.messages = [x \in DOMAIN c.messages \ {id} |-> c.messages[x]]
      /\ r.messages_list = [c.messages_list EXCEPT ![c.messages[id].dialog] = @ \ {id}]
      /\ r.database = c.database
      /\ r.garbages = c.garbages \cup (IF IsTemp(id) THEN {id} ELSE {}) /\ r.freed = c.freed
  BY DEF Shape, InsertToGarbeges, SameFiled, SameDialogs, Has, Remove
<1> HIDE DEF r
<1>2. IsTemp(id) => id \in Objects
  BY DEF MessagesType, Ids, IsTemp, Objects, Temp
<1>3. GoneOf(r) \subseteq Objects
  BY <1>1, <1>2 DEF MessagesType, GoneOf
<1>4. r.messages \in [DOMAIN r.messages -> MessageType] /\ DOMAIN r.messages \subseteq Ids
  BY <1>1 DEF MessagesType
<1>5. r.messages_list \in [Dialogs -> SUBSET Ids]
  BY <1>1 DEF MessagesType
<1>6. MessagesType(r)
  BY <1>1, <1>3, <1>4, <1>5 DEF MessagesType
<1> QED BY <1>1, <1>6 DEF r, GoneOf

\* Taking one message away.
LEMMA OneGoes ==
  ASSUME NEW c, MessagesType(c), NEW id \in DOMAIN c.messages, NEW r,
         r.messages = [x \in DOMAIN c.messages \ {id} |-> c.messages[x]],
         r.messages_list = [c.messages_list EXCEPT ![c.messages[id].dialog] = @ \ {id}],
         IsRestriction(r.database, c.database),
         DOMAIN c.database \subseteq DOMAIN r.database \cup {id},
         GoneOf(r) = GoneOf(c) \cup (IF IsTemp(id) THEN {id} ELSE {})
  PROVE  Shrinks(c, r, {})
<1> DEFINE e == c.messages[id].dialog
<1>1. e \in Dialogs
  BY DEF MessagesType, MessageType
<1>2. /\ r.messages_list[e] = c.messages_list[e] \ {id}
      /\ \A d \in Dialogs : d # e => r.messages_list[d] = c.messages_list[d]
  BY <1>1 DEF MessagesType
<1> HIDE DEF e
<1>3. IsRestriction(r.messages, c.messages)
  BY DEF IsRestriction
<1>4. \A d \in Dialogs : \A x \in c.messages_list[d] :
        x \in DOMAIN c.messages /\ c.messages[x].dialog = d =>
          (x \in r.messages_list[d] <=> x \in DOMAIN r.messages)
  BY <1>2 DEF e
<1>5. \A d \in Dialogs : \A x \in c.messages_list[d] :
        x \in r.messages_list[d] /\ x \in DOMAIN c.database
             /\ x \in DOMAIN c.messages /\ c.messages[x].dialog = d => x \in DOMAIN r.database
  BY <1>2 DEF e
<1>6. \A x \in GoneOf(r) \ GoneOf(c) : IsTemp(x) /\ x \in DOMAIN c.messages \ DOMAIN r.messages
  OBVIOUS
<1> QED BY <1>2, <1>3, <1>4, <1>5, <1>6 DEF Shrinks

\* deleteLocalHistory takes messages of its dialog only, and the mark of the
\* chat; those of a secret chat stay listed without a database entry.
LEMMA Cleared ==
  ASSUME NEW c, Shape(c), MessagesType(c), NEW d \in Dialogs, NEW n, TempInv(c, n)
  PROVE  LET r == DeleteLocalHistory(c, d)
         IN  /\ Shape(r) /\ MessagesType(r) /\ SameFiled(c, r) /\ Shrinks(c, r, {d})
             /\ r.dialogs \subseteq c.dialogs /\ r.chats \subseteq c.chats
             /\ r.unread \subseteq c.unread /\ r.deleteChatIds = c.deleteChatIds \ {d}
             /\ \A x \in DOMAIN c.messages \ DOMAIN r.messages :
                  IsTemp(x) => c.messages[x].dialog = d
<1> DEFINE r == DeleteLocalHistory(c, d)
           gone == IF d \in Secrets THEN {} ELSE c.messages_list[d]
<1>1. /\ Shape(r) /\ SameFiled(c, r)
      /\ r.dialogs \subseteq c.dialogs /\ r.chats \subseteq c.chats
      /\ r.unread \subseteq c.unread /\ r.deleteChatIds = c.deleteChatIds \ {d}
      /\ r.database = [x \in {i \in DOMAIN c.database : c.database[i].dialog # d} |-> c.database[x]]
      /\ r.freed = c.freed
  BY DEF Shape, DeleteLocalHistory, ListToGarbeges, SameFiled
<1>2. r.messages = [x \in DOMAIN c.messages \ gone |-> c.messages[x]]
  BY DEF Shape, DeleteLocalHistory, ListToGarbeges, Restrict, MessagesType
<1>3. r.messages_list = IF d \in Secrets THEN c.messages_list
                        ELSE [c.messages_list EXCEPT ![d] = {}]
  BY DEF Shape, DeleteLocalHistory, ListToGarbeges
<1>4. r.garbages =
        c.garbages \cup {x \in gone : IsTemp(x)}
          \cup {x \in Secrets : x = d /\ d \in c.deleteChatIds}
  BY DEF Shape, DeleteLocalHistory, ListToGarbeges
<1> HIDE DEF r
<1>5. \A x \in gone : IsTemp(x) =>
        x \in Objects /\ x \in DOMAIN c.messages /\ c.messages[x].dialog = d
  BY DEF TempInv, MessagesType, IsTemp, Temp, Ids, Objects
<1>6. r.messages \in [DOMAIN r.messages -> MessageType] /\ DOMAIN r.messages \subseteq Ids
  BY <1>2 DEF MessagesType
<1>7. r.database \in [DOMAIN r.database -> MessageType] /\ DOMAIN r.database \subseteq Ids
      /\ \A x \in DOMAIN r.database : ~IsTemp(x)
  BY <1>1 DEF MessagesType
<1>8. r.messages_list \in [Dialogs -> SUBSET Ids]
  BY <1>3 DEF MessagesType
<1>9. GoneOf(r) \subseteq Objects
  BY <1>1, <1>4, <1>5 DEF MessagesType, Objects, GoneOf
<1>10. MessagesType(r)
  BY <1>6, <1>7, <1>8, <1>9 DEF MessagesType
<1>11. IsRestriction(r.messages, c.messages) /\ IsRestriction(r.database, c.database)
  BY <1>1, <1>2 DEF IsRestriction
<1>12. \A e \in Dialogs :
         r.messages_list[e] = IF e = d /\ d \notin Secrets THEN {} ELSE c.messages_list[e]
  BY <1>3 DEF MessagesType
<1>13. \A e \in Dialogs : \A x \in c.messages_list[e] :
         (IsTemp(x) \/ Placed(c)) /\ x \in DOMAIN c.messages /\ c.messages[x].dialog = e =>
           (x \in r.messages_list[e] <=> x \in DOMAIN r.messages)
  BY <1>2, <1>5, <1>12 DEF Placed
<1>14. \A e \in Dialogs : \A x \in r.messages_list[e] :
         x \in DOMAIN c.messages /\ c.messages[x].dialog = e /\ x \in DOMAIN c.database
            /\ c.database[x] = c.messages[x] => x \in DOMAIN r.database \/ e \in Secrets \cap {d}
  BY <1>1, <1>12
<1>15. \A x \in GoneOf(r) \ GoneOf(c) :
         x \in Secrets \cap {d} \/ (IsTemp(x) /\ x \in DOMAIN c.messages \ DOMAIN r.messages)
  BY <1>1, <1>2, <1>4, <1>5 DEF GoneOf
<1>16. Shrinks(c, r, {d})
  BY <1>11, <1>12, <1>13, <1>14, <1>15 DEF Shrinks
<1>17. \A x \in DOMAIN c.messages \ DOMAIN r.messages : IsTemp(x) => c.messages[x].dialog = d
  BY <1>2, <1>5
<1> QED BY <1>1, <1>10, <1>16, <1>17 DEF r

-----------------------------------------------------------------------------
(* What the invariant says of a cache, under the three kinds of change.      *)

\* An operation that leaves messages alone keeps their types.
LEMMA TypeKept ==
  ASSUME NEW c, NEW r, MessagesType(c), SameMessages(c, r)
  PROVE  MessagesType(r)
BY DEF MessagesType, SameMessages

\* An operation that leaves messages alone loses none.
LEMMA SameShrinks ==
  ASSUME NEW c, NEW r, MessagesType(c), SameMessages(c, r)
  PROVE  Shrinks(c, r, {})
BY DEF MessagesType, SameMessages, Shrinks, IsRestriction

\* When messages go, a pending message that stays is in the list of its
\* dialog still, and one that goes is in no list.
LEMMA TempShrinks ==
  ASSUME NEW c, NEW r, NEW lost, NEW n \in Nat, NEW m \in Nat, n <= m,
         MessagesType(c), Shrinks(c, r, lost), TempInv(c, n)
  PROVE  TempInv(r, m)
<1>1. ASSUME NEW i \in Nat, Temp(i) \in DOMAIN r.messages
      PROVE  /\ i <= m /\ Temp(i) \notin GoneOf(r)
             /\ Temp(i) \in r.messages_list[r.messages[Temp(i)].dialog]
  <2> DEFINE d == c.messages[Temp(i)].dialog
  <2>1. /\ Temp(i) \in DOMAIN c.messages /\ r.messages[Temp(i)] = c.messages[Temp(i)]
    BY <1>1 DEF Shrinks, IsRestriction
  <2>2. i <= n /\ Temp(i) \notin GoneOf(c) /\ Temp(i) \in c.messages_list[d] /\ d \in Dialogs
    BY <2>1 DEF TempInv, MessagesType, MessageType
  <2>3. Temp(i) \in r.messages_list[d]
    BY <1>1, <2>1, <2>2, TempIds DEF Shrinks
  <2>4. Temp(i) \notin GoneOf(r)
    BY <1>1, <2>2, TempIds DEF Shrinks
  <2> QED BY <2>1, <2>2, <2>3, <2>4
<1>2. ASSUME NEW i \in Nat, Temp(i) \in GoneOf(r)
      PROVE  i <= m
  <2>1. Temp(i) \in GoneOf(c) \/ Temp(i) \in DOMAIN c.messages
    BY <1>2, TempIds DEF Shrinks
  <2> QED BY <2>1 DEF TempInv
<1>3. ASSUME NEW d \in Dialogs, NEW i \in Nat, Temp(i) \in r.messages_list[d]
      PROVE  Temp(i) \in DOMAIN r.messages /\ r.messages[Temp(i)].dialog = d
  <2>1. Temp(i) \in c.messages_list[d]
    BY <1>3 DEF Shrinks
  <2>2. Temp(i) \in DOMAIN c.messages /\ c.messages[Temp(i)].dialog = d
    BY <2>1 DEF TempInv
  <2>3. Temp(i) \in DOMAIN r.messages
    BY <1>3, <2>1, <2>2, TempIds DEF Shrinks
  <2> QED BY <2>2, <2>3 DEF Shrinks, IsRestriction
<1> QED BY <1>1, <1>2, <1>3 DEF TempInv

\* When messages of the server come, the pending ones stay as they are.
LEMMA TempGains ==
  ASSUME NEW c, NEW r, NEW new, NEW n \in Nat, NEW m \in Nat, n <= m,
         MessagesType(c), Gains(c, r, new), TempInv(c, n), \A f \in new : ~IsTemp(f.id)
  PROVE  TempInv(r, m)
<1>1. \A i \in Nat : /\ Temp(i) \in DOMAIN r.messages <=> Temp(i) \in DOMAIN c.messages
                     /\ Temp(i) \in DOMAIN c.messages => r.messages[Temp(i)] = c.messages[Temp(i)]
                     /\ Temp(i) \in GoneOf(r) <=> Temp(i) \in GoneOf(c)
  BY TempIds DEF Gains
<1>2. \A d \in Dialogs : \A i \in Nat :
        Temp(i) \in r.messages_list[d] <=> Temp(i) \in c.messages_list[d]
  BY TempIds DEF Gains
<1>3. \A i \in Nat : Temp(i) \in DOMAIN c.messages => c.messages[Temp(i)].dialog \in Dialogs
  BY DEF MessagesType, MessageType
<1> QED BY <1>1, <1>2, <1>3 DEF TempInv

\* When messages go, those that are listed still are in the database still,
\* or belong to a secret chat that was deleted.
LEMMA StoredShrinks ==
  ASSUME NEW c, NEW r, NEW lost, NEW before, NEW after, before \cup lost \subseteq after,
         Shrinks(c, r, lost), Stored(c, before)
  PROVE  Stored(r, after)
<1>1. Placed(c)
  BY DEF Placed, Stored, Has
<1>2. SUFFICES ASSUME NEW d \in Dialogs, NEW id \in r.messages_list[d]
               PROVE  /\ Has(r.messages, id) /\ r.messages[id].dialog = d
                      /\ \/ IsTemp(id) \/ IsUpdate(id) \/ d \in Secrets \cap after
                         \/ Has(r.database, id) /\ r.database[id] = r.messages[id]
  BY DEF Stored
<1>3. id \in c.messages_list[d]
  BY DEF Shrinks
<1>4. id \in DOMAIN c.messages /\ c.messages[id].dialog = d
  BY <1>1, <1>3 DEF Placed
<1>5. id \in DOMAIN r.messages /\ r.messages[id] = c.messages[id]
  BY <1>1, <1>3, <1>4 DEF Shrinks, IsRestriction
<1>6. CASE IsTemp(id) \/ IsUpdate(id) \/ d \in Secrets \cap before
  BY <1>4, <1>5, <1>6 DEF Has
<1>7. CASE id \in DOMAIN c.database /\ c.database[id] = c.messages[id]
  <2>1. id \in DOMAIN r.database \/ d \in Secrets \cap lost
    BY <1>1, <1>3, <1>4, <1>7 DEF Shrinks
  <2>2. id \in DOMAIN r.database => r.database[id] = c.database[id]
    BY <1>7 DEF Shrinks, IsRestriction
  <2> QED BY <1>4, <1>5, <1>7, <2>1, <2>2 DEF Has
<1> QED BY <1>3, <1>6, <1>7 DEF Stored, Has

\* When messages of the server come that agree with those of the same
\* identifier, what is listed is stored as it is shown.
LEMMA StoredGains ==
  ASSUME NEW c, NEW r, NEW new, NEW lost,
         Gains(c, r, new), Stored(c, lost),
         \A f \in new : f.id \in DOMAIN c.messages =>
           c.messages[f.id].dialog = f.dialog /\ c.messages[f.id].text = f.text
  PROVE  Stored(r, lost)
<1> DEFINE ids == {f.id : f \in new}
<1>1. SUFFICES ASSUME NEW d \in Dialogs, NEW id \in r.messages_list[d]
               PROVE  /\ Has(r.messages, id) /\ r.messages[id].dialog = d
                      /\ \/ IsTemp(id) \/ IsUpdate(id) \/ d \in Secrets \cap lost
                         \/ Has(r.database, id) /\ r.database[id] = r.messages[id]
  BY DEF Stored
<1>2. CASE id \in ids
  <2>1. /\ id \in DOMAIN r.messages
        /\ IsUpdate(id) \/ (id \in DOMAIN r.database /\ r.database[id] = r.messages[id])
        /\ Fact(id, r.messages[id].dialog, r.messages[id].text) \in new
    BY <1>2 DEF Gains
  <2>2. CASE id \in DOMAIN c.messages
    <3>1. c.messages[id].dialog = r.messages[id].dialog
      BY <2>1, <2>2 DEF Fact
    <3>2. id \in c.messages_list[d]
      BY <1>2, <2>2 DEF Gains
    <3>3. c.messages[id].dialog = d
      BY <3>2 DEF Stored
    <3> QED BY <2>1, <3>1, <3>3 DEF Has
  <2>3. CASE id \notin DOMAIN c.messages
    <3>1. id \notin c.messages_list[d]
      BY <2>3 DEF Stored, Has
    <3>2. r.messages[id].dialog = d
      BY <1>2, <2>3, <3>1 DEF Gains
    <3> QED BY <2>1, <3>2 DEF Has
  <2> QED BY <2>2, <2>3
<1>3. CASE id \notin ids
  <2>1. id \in c.messages_list[d]
    BY <1>3 DEF Gains
  <2>2. /\ id \in DOMAIN c.messages /\ c.messages[id].dialog = d
        /\ \/ IsTemp(id) \/ IsUpdate(id) \/ d \in Secrets \cap lost
           \/ id \in DOMAIN c.database /\ c.database[id] = c.messages[id]
    BY <2>1 DEF Stored, Has
  <2>3. /\ id \in DOMAIN r.messages /\ r.messages[id] = c.messages[id]
        /\ id \in DOMAIN c.database => id \in DOMAIN r.database /\ r.database[id] = c.database[id]
    BY <1>3, <2>2 DEF Gains
  <2> QED BY <2>2, <2>3 DEF Has
<1> QED BY <1>2, <1>3

\* A part of a map of messages holds a part of its facts.
LEMMA FactsShrink ==
  ASSUME NEW m, NEW k, IsRestriction(k, m)
  PROVE  FactsOf(k) \subseteq FactsOf(m)
BY DEF FactsOf, IsRestriction

\* When messages of the server come, the cache holds their facts and those it
\* held.
LEMMA FactsGain ==
  ASSUME NEW c, NEW r, NEW new, Gains(c, r, new)
  PROVE  /\ FactsOf(r.messages) \subseteq FactsOf(c.messages) \cup new
         /\ FactsOf(r.database) \subseteq FactsOf(c.database) \cup new
BY DEF FactsOf, Gains

-----------------------------------------------------------------------------
(* Requests and answers.                                                   *)

\* Taking the first of the answers leaves the others, each one place nearer.
LEMMA Received ==
  ASSUME toClient \in Seq(AnswerType), toClient # <<>>, toClient' = Tail(toClient)
  PROVE  /\ toClient' \in Seq(AnswerType)
         /\ Head(toClient) \in Coming /\ Coming = Coming' \cup {Head(toClient)}
         /\ Head(toClient) = toClient[1] /\ 1 \in DOMAIN toClient
         /\ \A i \in DOMAIN toClient' :
              i + 1 \in DOMAIN toClient /\ toClient'[i] = toClient[i + 1] /\ i + 1 # 1
<1>1. /\ toClient' \in Seq(AnswerType) /\ Len(toClient') = Len(toClient) - 1
      /\ \A i \in 1..Len(toClient') : toClient'[i] = toClient[i + 1]
      /\ Head(toClient) = toClient[1]
      /\ Len(toClient) \in Nat /\ Len(toClient) # 0
  BY HeadTailProperties, EmptySeq, LenProperties
<1>2. DOMAIN toClient = 1..Len(toClient) /\ DOMAIN toClient' = 1..Len(toClient')
  BY <1>1, LenProperties
<1>3. \A i \in DOMAIN toClient' :
        i + 1 \in DOMAIN toClient /\ toClient'[i] = toClient[i + 1] /\ i + 1 # 1
  BY <1>1, <1>2
<1>4. \A i \in DOMAIN toClient :
        i = 1 \/ (i - 1 \in DOMAIN toClient' /\ toClient'[i - 1] = toClient[i])
  BY <1>1, <1>2
<1>5. 1 \in DOMAIN toClient
  BY <1>1, <1>2
<1>6. Coming = Coming' \cup {Head(toClient)}
  BY <1>1, <1>3, <1>4, <1>5 DEF Coming, Range
<1> QED BY <1>1, <1>3, <1>5, <1>6

\* An answer put last leaves the others in their places.
LEMMA Appended ==
  ASSUME toClient \in Seq(AnswerType), NEW a \in AnswerType, toClient' = Append(toClient, a)
  PROVE  /\ toClient' \in Seq(AnswerType)
         /\ Coming' = Coming \cup {a}
         /\ \A i \in DOMAIN toClient' :
              \/ i \in DOMAIN toClient /\ toClient'[i] = toClient[i]
              \/ i = Len(toClient) + 1 /\ toClient'[i] = a
<1>1. /\ toClient' \in Seq(AnswerType) /\ Len(toClient') = Len(toClient) + 1
      /\ \A i \in 1..Len(toClient) : toClient'[i] = toClient[i]
      /\ toClient'[Len(toClient) + 1] = a
      /\ Len(toClient) \in Nat
  BY AppendProperties, LenProperties
<1>2. DOMAIN toClient = 1..Len(toClient) /\ DOMAIN toClient' = 1..Len(toClient')
  BY <1>1, LenProperties
<1>3. \A i \in DOMAIN toClient' :
        \/ i \in DOMAIN toClient /\ toClient'[i] = toClient[i]
        \/ i = Len(toClient) + 1 /\ toClient'[i] = a
  BY <1>1, <1>2
<1>4. \A i \in DOMAIN toClient : i \in DOMAIN toClient' /\ toClient'[i] = toClient[i]
  BY <1>1, <1>2
<1>5. Len(toClient) + 1 \in DOMAIN toClient'
  BY <1>1, <1>2
<1>6. Coming' = Coming \cup {a}
  BY <1>1, <1>3, <1>4, <1>5 DEF Coming, Range
<1> QED BY <1>1, <1>3, <1>6

\* Each answer in the queue is under way.
LEMMA ComingIs == \A i \in DOMAIN toClient : toClient[i] \in Coming
BY DEF Coming, Range

\* Requests that MakeRequests adds for the dialog d, none of them a text.
Asked(M, d, t) ==
  /\ requests' \in Nat /\ requests <= requests' /\ calls \subseteq calls'
  /\ \A r \in calls' \ calls :
       /\ r.method \in M /\ r.dialog = d /\ r.text = t /\ r.id \in requests + 1 .. requests'
       /\ r = Call(r.method, r.id, d, t)

\* MakeRequests numbers its requests above those made before, the last of
\* them by the new count.
LEMMA Made ==
  ASSUME requests \in Nat, NEW methods \in Seq(Methods), methods # <<>>, NEW d, NEW t,
         MakeRequests(methods, d, t)
  PROVE  /\ Asked(Range(methods), d, t) /\ requests < requests'
         /\ requests' = requests + Len(methods)
         /\ Call(methods[Len(methods)], requests', d, t) \in calls'
<1>1. Len(methods) \in Nat \ {0} /\ DOMAIN methods = 1..Len(methods)
  BY EmptySeq, LenProperties
<1>2. /\ requests' = requests + Len(methods)
      /\ calls' = calls \cup {Call(methods[i], requests + i, d, t) : i \in DOMAIN methods}
  BY DEF MakeRequests
<1>3. \A r \in calls' \ calls :
        /\ r.method \in Range(methods) /\ r.dialog = d /\ r.text = t
        /\ r.id \in requests + 1 .. requests'
        /\ r = Call(r.method, r.id, d, t)
  BY <1>1, <1>2 DEF Call, Range
<1>4. Call(methods[Len(methods)], requests', d, t) \in calls'
  BY <1>1, <1>2
<1> QED BY <1>1, <1>2, <1>3, <1>4 DEF Asked

\* One request is numbered by the new count of requests.
LEMMA MadeOne ==
  ASSUME requests \in Nat, NEW m \in Methods, NEW d, NEW t, MakeRequests(<<m>>, d, t)
  PROVE  Asked({m}, d, t) /\ requests' = requests + 1
<1>1. <<m>> \in Seq(Methods) /\ Len(<<m>>) = 1 /\ <<m>>[1] = m /\ DOMAIN <<m>> = {1}
  OBVIOUS
<1>2. Range(<<m>>) = {m} /\ <<m>> # <<>>
  BY <1>1 DEF Range
<1> QED BY <1>1, <1>2, Made

\* Requests that are made keep the form of requests and answers, and none of
\* them sends a text.
LEMMA AskedNet ==
  ASSUME NetType, texts' = texts, texts \in Nat, NEW M, NEW d, NEW t \in Nat, Asked(M, d, t),
         M \subseteq Methods \ {"sendMessage"},
         d \in Dialogs \/ (M = {"getDialogs"} /\ d = NoDialog),
         M \cap GroupSteps # {} => d \in Groups,
         t = 0 \/ M \cap DeletionSteps = {}
  PROVE  /\ \A r \in calls' : CallOK(r)' /\ (r.method = "sendMessage" => r \in calls)
         /\ \A a \in Coming : AnswerOK(a)'
<1>1. requests \in Nat /\ requests' \in Nat /\ requests <= requests'
  BY DEF NetType, Asked
<1>2. ASSUME NEW r \in calls
      PROVE  CallOK(r)'
  BY <1>1, <1>2 DEF NetType, CallOK
<1>3. ASSUME NEW r \in calls' \ calls
      PROVE  CallOK(r)' /\ r.method # "sendMessage"
  <2>1. r.method \in M /\ r.dialog = d /\ r.text = t /\ r.id \in requests + 1 .. requests'
        /\ r = Call(r.method, r.id, d, t)
    BY <1>3 DEF Asked
  <2>2. r.id \in 1..requests' /\ r.id \in Nat
    BY <1>1, <2>1
  <2>3. r \in CallType
    BY <2>1, <2>2 DEF Call, CallType
  <2> QED BY <2>1, <2>2, <2>3 DEF CallOK, GroupSteps
<1>4. ASSUME NEW a \in Coming
      PROVE  AnswerOK(a)'
  BY <1>1, <1>4 DEF NetType, AnswerOK
<1> QED BY <1>2, <1>3, <1>4

\* A step that sends no text and answers none keeps each text sent once.
LEMMA UniqueKept ==
  ASSUME UniqueSends, toClient \in Seq(AnswerType),
         \A r \in calls' : r.method = "sendMessage" => r \in calls,
         \/ toClient' = toClient
         \/ toClient # <<>> /\ toClient' = Tail(toClient)
         \/ \E a \in AnswerType : a.kind # "sendMessage" /\ toClient' = Append(toClient, a)
  PROVE  UniqueSends'
<1>1. CASE toClient' = toClient
  BY <1>1 DEF UniqueSends, Coming
<1>2. CASE toClient # <<>> /\ toClient' = Tail(toClient)
  BY <1>2, Received DEF UniqueSends
<1>3. CASE \E a \in AnswerType : a.kind # "sendMessage" /\ toClient' = Append(toClient, a)
  BY <1>3, Appended DEF UniqueSends
<1> QED BY <1>1, <1>2, <1>3

\* The text of an answer that is received is not under way any more.
LEMMA ReceivedOnce ==
  ASSUME UniqueSends, toClient \in Seq(AnswerType), toClient # <<>>,
         toClient' = Tail(toClient), Head(toClient).kind = "sendMessage",
         \A r \in calls' : r.method = "sendMessage" => r \in calls
  PROVE  \A s \in Sends' : s.text # Head(toClient).text
<1>1. \A a \in Coming' : a.kind = "sendMessage" => a.text # Head(toClient).text
  BY Received DEF UniqueSends, Coming, Range
<1>2. \A r \in calls : r.method = "sendMessage" => r.text # Head(toClient).text
  BY Received DEF UniqueSends
<1> QED BY <1>1, <1>2 DEF Sends, SendOf

-----------------------------------------------------------------------------
(* What the invariant says of a state, under the kinds of change.            *)

\* No text is added; unless a request fails, none that is listed is lost.
QuietSends ==
  /\ Sends' \subseteq Sends
  /\ failures' = 0 =>
       /\ failures = 0
       /\ \A s \in Sends \ Sends' : \A d \in Dialogs :
            Temp(s.text) \notin cache'.messages_list[d]
  /\ \A s \in Sends' :
       /\ s.id \in DOMAIN cache'.pend_messages <=> s.id \in DOMAIN cache.pend_messages
       /\ s.id \in DOMAIN cache.pend_messages =>
            cache'.pend_messages[s.id] = cache.pend_messages[s.id]
  /\ collisions' = 0 => collisions = 0
  /\ forgotten \subseteq forgotten' /\ forgotten' \subseteq Dialogs
  /\ texts' \in Nat /\ texts <= texts'

\* What follows of a step that changes messages in one of the two ways.
CacheKept ==
  /\ SendInv' /\ TempInv(cache, texts)' /\ StoredInv'
  /\ GoneOf(cache') \cap Secrets \subseteq forgotten'
  /\ FactsOf(cache'.messages) \subseteq Facts /\ FactsOf(cache'.database) \subseteq Facts

\* What sends a text names a request made, a dialog and a text written.
LEMMA SendsType ==
  ASSUME Types
  PROVE  \A s \in Sends : s.id \in 0..requests /\ s.dialog \in Dialogs /\ s.text \in 1..texts
<1>1. \A r \in calls : CallOK(r)
  BY DEF Types, NetType
<1>2. \A a \in Coming : AnswerOK(a)
  BY DEF Types, NetType
<1>3. \A r \in calls : r.method = "sendMessage" =>
        r.id \in 0..requests /\ r.dialog \in Dialogs /\ r.text \in 1..texts
  BY <1>1 DEF CallOK, Types, NetType
<1>4. \A a \in Coming : a.kind = "sendMessage" =>
        a.id \in 0..requests /\ a.dialog \in Dialogs /\ a.text \in 1..texts
  BY <1>2 DEF AnswerOK
<1> QED BY <1>3, <1>4 DEF Sends, SendOf

\* What SendInv needs of a step that leaves the filed requests alone.
TempsKept ==
  \A s \in Sends' :
    LET id == Temp(s.text)
    IN  /\ id \in DOMAIN cache'.messages =>
             /\ id \in DOMAIN cache.messages
             /\ cache'.messages[id].dialog = cache.messages[id].dialog
        /\ id \in GoneOf(cache') =>
             \/ id \in GoneOf(cache)
             \/ id \in DOMAIN cache.messages /\ cache.messages[id].dialog \in forgotten'

\* A step that leaves the filed requests and the pending messages of the
\* texts alone keeps each pending message under the request of its own text.
LEMMA SendKept ==
  ASSUME Types, SendInv, QuietSends, TempsKept
  PROVE  SendInv'
<1>1. SUFFICES ASSUME NEW s \in Sends'
               PROVE  SendOK(s.id, s.dialog, s.text)'
  BY DEF SendInv
<1>2. s \in Sends /\ SendOK(s.id, s.dialog, s.text) /\ s.text \in Nat
  BY SendsType DEF QuietSends, SendInv
<1> QED BY <1>2 DEF SendOK, QuietSends, TempsKept

\* A step by which messages go keeps what the invariant says of the cache, if
\* the pending messages that go are those of forgotten dialogs.
LEMMA ShrinkStep ==
  ASSUME Types, SendInv, TempInv(cache, texts), ForgetInv, StoredInv, QuietSends,
         NEW lost \in SUBSET forgotten', Shrinks(cache, cache', lost),
         \A s \in Sends' :
           Temp(s.text) \in DOMAIN cache.messages \ DOMAIN cache'.messages =>
             cache.messages[Temp(s.text)].dialog \in forgotten'
  PROVE  CacheKept
<1>1. /\ IsRestriction(cache'.messages, cache.messages)
      /\ IsRestriction(cache'.database, cache.database)
  BY DEF Shrinks
<1>2. TempsKept
  <2>1. \A s \in Sends' : s.text \in Nat
    BY SendsType DEF QuietSends
  <2>2. \A s \in Sends' : Temp(s.text) \in DOMAIN cache'.messages =>
          /\ Temp(s.text) \in DOMAIN cache.messages
          /\ cache'.messages[Temp(s.text)].dialog = cache.messages[Temp(s.text)].dialog
    BY <1>1 DEF IsRestriction
  <2>3. \A s \in Sends' : Temp(s.text) \in GoneOf(cache') =>
          \/ Temp(s.text) \in GoneOf(cache)
          \/ /\ Temp(s.text) \in DOMAIN cache.messages
             /\ cache.messages[Temp(s.text)].dialog \in forgotten'
    BY <2>1, TempIds DEF Shrinks
  <2> QED BY <2>2, <2>3 DEF TempsKept
<1>3. SendInv'
  BY <1>2, SendKept
<1>4. TempInv(cache', texts')
  BY TempShrinks DEF Types, CacheType, OtherType, QuietSends
<1>5. ASSUME collisions' = 0
      PROVE  /\ Stored(cache', forgotten')
             /\ failures' = 0 =>
                  \A d \in Dialogs : \A n \in Nat :
                    Temp(n) \in cache'.messages_list[d] => Sending(d, n)'
  <2>1. Stored(cache, forgotten)
    BY <1>5 DEF StoredInv, QuietSends
  <2>2. Stored(cache', forgotten')
    BY <2>1, StoredShrinks DEF QuietSends
  <2>3. \A d \in Dialogs : cache'.messages_list[d] \subseteq cache.messages_list[d]
    BY DEF Shrinks
  <2>4. failures' = 0 => \A d \in Dialogs : \A n \in Nat :
          Temp(n) \in cache.messages_list[d] /\ Temp(n) \in cache'.messages_list[d] =>
            Sending(d, n)'
    BY <1>5 DEF StoredInv, QuietSends, Sending
  <2> QED BY <2>2, <2>3, <2>4
<1>6. GoneOf(cache') \cap Secrets \subseteq forgotten'
  <2>1. \A x \in DOMAIN cache.messages : IsTemp(x) => x \notin Secrets
    BY TempIds DEF Types, CacheType, MessagesType, IsTemp, Ids, Temp
  <2> QED BY <2>1 DEF Shrinks, ForgetInv, QuietSends
<1>7. FactsOf(cache'.messages) \subseteq Facts /\ FactsOf(cache'.database) \subseteq Facts
  BY <1>1, FactsShrink DEF Facts
<1> QED BY <1>3, <1>4, <1>5, <1>6, <1>7 DEF StoredInv, CacheKept

\* A fact is of a message of the server, never of a pending one.
LEMMA FactIds ==
  ASSUME FactsInv
  PROVE  \A f \in Facts : ~IsTemp(f.id) /\ f.id # NoId
BY DEF FactsInv, IsTemp, NoId

\* A message of the cache is what every other source says of its identifier,
\* as long as no two secret messages had one date.
LEMMA SameFact ==
  ASSUME FactsInv, collisions = 0, NEW f \in Facts, f.id \in DOMAIN cache.messages,
         f = Fact(f.id, f.dialog, f.text)
  PROVE  cache.messages[f.id].dialog = f.dialog /\ cache.messages[f.id].text = f.text
<1> DEFINE g == Fact(f.id, cache.messages[f.id].dialog, cache.messages[f.id].text)
<1>1. g \in Facts
  BY FactIds DEF Facts, FactsOf
<1>2. g.id = f.id /\ g.dialog = cache.messages[f.id].dialog /\ g.text = cache.messages[f.id].text
  BY DEF Fact
<1> HIDE DEF g
<1> QED BY <1>1, <1>2 DEF FactsInv

\* A step by which messages of the server come keeps what the invariant says
\* of the cache.
LEMMA GainStep ==
  ASSUME Types, SendInv, TempInv(cache, texts), ForgetInv, StoredInv, FactsInv, QuietSends,
         NEW new \in SUBSET Facts, Gains(cache, cache', new),
         \A f \in new : f = Fact(f.id, f.dialog, f.text)
  PROVE  CacheKept
<1>1. \A f \in new : ~IsTemp(f.id)
  BY FactIds
<1>2. TempsKept
  <2>1. \A s \in Sends' : s.text \in Nat
    BY SendsType DEF QuietSends
  <2> QED BY <1>1, <2>1, TempIds DEF Gains, TempsKept
<1>3. SendInv'
  BY <1>2, SendKept
<1>4. TempInv(cache', texts')
  BY <1>1, TempGains DEF Types, CacheType, OtherType, QuietSends
<1>5. ASSUME collisions' = 0
      PROVE  /\ Stored(cache', forgotten')
             /\ failures' = 0 =>
                  \A d \in Dialogs : \A n \in Nat :
                    Temp(n) \in cache'.messages_list[d] => Sending(d, n)'
  <2>1. Stored(cache, forgotten) /\ collisions = 0
    BY <1>5 DEF StoredInv, QuietSends
  <2>2. Stored(cache', forgotten)
    BY <2>1, StoredGains, SameFact
  <2>3. Stored(cache', forgotten')
    BY <2>2 DEF Stored, QuietSends
  <2>4. \A d \in Dialogs : \A n \in Nat :
          Temp(n) \in cache'.messages_list[d] => Temp(n) \in cache.messages_list[d]
    BY <1>1, TempIds DEF Gains
  <2>5. failures' = 0 => \A d \in Dialogs : \A n \in Nat :
          Temp(n) \in cache.messages_list[d] /\ Temp(n) \in cache'.messages_list[d] =>
            Sending(d, n)'
    BY <1>5 DEF StoredInv, QuietSends, Sending
  <2> QED BY <2>3, <2>4, <2>5
<1>6. GoneOf(cache') \cap Secrets \subseteq forgotten'
  BY DEF Gains, ForgetInv, QuietSends
<1>7. FactsOf(cache'.messages) \subseteq Facts /\ FactsOf(cache'.database) \subseteq Facts
  BY FactsGain DEF Facts
<1> QED BY <1>3, <1>4, <1>5, <1>6, <1>7 DEF StoredInv, CacheKept

\* A step that numbers no message keeps one message per identifier.
LEMMA FactsKept ==
  ASSUME FactsInv, stamps \in Nat, stamps' \in Nat, stamps <= stamps',
         collisions' = 0 => collisions = 0,
         FactsOf(cache'.messages) \subseteq Facts, FactsOf(cache'.database) \subseteq Facts,
         FactsOfHistory(server'.history) \subseteq Facts,
         \A a \in Coming' : FactsOfAnswer(a) \subseteq Facts
  PROVE  FactsInv'
<1>1. Facts' \subseteq Facts
  BY DEF Facts
<1>2. \A f \in Facts' : f.id \in {"post", "update", "date"} \X (1..stamps')
  BY <1>1 DEF FactsInv
<1> QED BY <1>1, <1>2 DEF FactsInv

\* The next message that the server numbers.
LEMMA FactsStamped ==
  ASSUME FactsInv, stamps \in Nat, collisions \in Nat, NEW f, NEW d \in Dialogs,
         Stamped(d, f.id),
         FactsOf(cache'.messages) \subseteq Facts, FactsOf(cache'.database) \subseteq Facts,
         FactsOfHistory(server'.history) \subseteq Facts \cup {f},
         \A a \in Coming' : FactsOfAnswer(a) \subseteq Facts \cup {f}
  PROVE  FactsInv'
<1>1. Facts' \subseteq Facts \cup {f}
  BY DEF Facts
<1>2. CASE stamps' = stamps + 1 /\ collisions' = collisions
           /\ f.id \in Kinds(d) \X {stamps + 1}
  <2>1. \A g \in Facts : g.id \in {"post", "update", "date"} \X (1..stamps') /\ g.id[2] # stamps + 1
    BY <1>2 DEF FactsInv
  <2>2. f.id \in {"post", "update", "date"} \X (1..stamps') /\ f.id[2] = stamps + 1
    BY <1>2 DEF Kinds
  <2> QED BY <1>1, <1>2, <2>1, <2>2 DEF FactsInv
<1>3. CASE stamps' = stamps /\ stamps > 0 /\ collisions' = collisions + 1
           /\ f.id = <<"date", stamps>>
  <2>1. \A g \in Facts' : g.id \in {"post", "update", "date"} \X (1..stamps')
    BY <1>1, <1>3 DEF FactsInv
  <2>2. collisions' # 0
    BY <1>3
  <2> QED BY <2>1, <2>2 DEF FactsInv
<1> QED BY <1>2, <1>3 DEF Stamped

\* A step that files no deletion of a history keeps the filed ones to dialogs
\* that the user deleted from.
LEMMA ForgetKept ==
  ASSUME ForgetInv, forgotten \subseteq forgotten', cache'.deleteChatIds \subseteq forgotten',
         GoneOf(cache') \cap Secrets \subseteq forgotten',
         IsRestriction(cache'.delete_history_requests, cache.delete_history_requests),
         \A r \in calls' : r \in calls \/ r.id \notin DOMAIN cache'.delete_history_requests,
         \A a \in Coming' : \/ a \in Coming \/ a.id \notin DOMAIN cache'.delete_history_requests
                            \/ \E r \in calls : a.id = r.id /\ a.dialog = r.dialog
  PROVE  ForgetInv'
<1>1. \A id, d : FiledIsForgotten(id, d) => FiledIsForgotten(id, d)'
  BY DEF FiledIsForgotten, IsRestriction
<1> QED BY <1>1 DEF ForgetInv, FiledIsForgotten

\* A step that takes no request or answer away leaves the deletion of each
\* chat taken on.
LEMMA TakenKept ==
  ASSUME calls \subseteq calls', Coming \subseteq Coming', server' = server,
         DOMAIN cache.delete_history_requests \subseteq DOMAIN cache'.delete_history_requests,
         NEW d, TakenOn(d)
  PROVE  TakenOn(d)'
BY DEF TakenOn, CallTakesOn, AnswerTakesOn

\* An answer that is received takes the deletion of its own dialog on only.
LEMMA TakenReceived ==
  ASSUME ForgetInv, NEW a \in Coming, Coming = Coming' \cup {a}, calls \subseteq calls',
         server' = server, NEW d, TakenOn(d),
         \/ /\ ~AnswerTakesOn(a, d)
            /\ DOMAIN cache.delete_history_requests \subseteq DOMAIN cache'.delete_history_requests
         \/ /\ d # a.dialog
            /\ DOMAIN cache.delete_history_requests
                 \subseteq DOMAIN cache'.delete_history_requests \cup {a.id}
  PROVE  TakenOn(d)'
<1>1. \A r \in calls : CallTakesOn(r, d) => CallTakesOn(r, d)'
  BY DEF CallTakesOn, AnswerTakesOn, ForgetInv, FiledIsForgotten
<1>2. \A b \in Coming : AnswerTakesOn(b, d) => b # a /\ AnswerTakesOn(b, d)'
  BY DEF AnswerTakesOn, ForgetInv, FiledIsForgotten
<1> QED BY <1>1, <1>2 DEF TakenOn

-----------------------------------------------------------------------------
(* Steps of the client: those of the user and the timers, and those that     *)
(* take an answer.                                                         *)

\* Requests that are made are no texts, and their numbers are new.
CallsKept ==
  /\ requests' \in Nat /\ requests <= requests' /\ calls \subseteq calls'
  /\ \A r \in calls' : CallOK(r)' /\ (r.method = "sendMessage" => r \in calls)
  /\ \A r \in calls' \ calls : r.id \notin DOMAIN cache.delete_history_requests

\* Requests that are made are new, and none of them is filed as a deletion
\* yet.
LEMMA CallsAsked ==
  ASSUME Types, texts' = texts, NEW M, NEW d, NEW t \in Nat, Asked(M, d, t),
         M \subseteq Methods \ {"sendMessage"},
         d \in Dialogs \/ (M = {"getDialogs"} /\ d = NoDialog),
         M \cap GroupSteps # {} => d \in Groups,
         t = 0 \/ M \cap DeletionSteps = {}
  PROVE  CallsKept
<1>1. /\ requests \in Nat /\ requests' \in Nat /\ requests <= requests' /\ calls \subseteq calls'
      /\ \A r \in calls' \ calls : r.id \in requests + 1 .. requests'
  BY DEF Asked, Types, NetType
<1>2. \A r \in calls' : CallOK(r)' /\ (r.method = "sendMessage" => r \in calls)
  BY AskedNet DEF Types, OtherType
<1>3. \A r \in calls' \ calls : r.id \notin DOMAIN cache.delete_history_requests
  BY <1>1 DEF Types, CacheType, FiledType, Offline
<1> QED BY <1>1, <1>2, <1>3 DEF CallsKept

\* A step without a request keeps the requests.
LEMMA NoCalls ==
  ASSUME Types, NoRequest, texts' = texts
  PROVE  CallsKept
<1>1. requests' = requests /\ calls' = calls /\ requests \in Nat
  BY DEF NoRequest, Types, NetType
<1>2. \A r \in calls : CallOK(r)'
  BY <1>1 DEF Types, NetType, CallOK
<1> QED BY <1>1, <1>2 DEF CallsKept

\* The parts of the invariant about the server, the network and the facts
\* follow of any step of the client from what it does to the cache.
LEMMA ClientStep ==
  ASSUME IInv, UNCHANGED <<server, texts, stamps, collisions>>, CacheType', OtherType',
         CacheKept, CallsKept,
         toClient' = toClient \/ (toClient # <<>> /\ toClient' = Tail(toClient)),
         ForgetInv', MarksInv', FaultsNeedForgetting'
  PROVE  IInv'
<1>1. toClient' \in Seq(AnswerType) /\ Coming' \subseteq Coming
  <2>1. CASE toClient' = toClient
    BY <2>1 DEF IInv, Types, NetType, Coming
  <2>2. CASE toClient # <<>> /\ toClient' = Tail(toClient)
    BY <2>2, Received DEF IInv, Types, NetType
  <2> QED BY <2>1, <2>2
<1>2. \A a \in Coming' : AnswerOK(a)'
  BY <1>1 DEF IInv, Types, NetType, AnswerOK, CallsKept
<1>3. NetType'
  BY <1>1, <1>2 DEF NetType, CallsKept
<1>4. ServerType'
  BY DEF IInv, Types, ServerType
<1>5. UniqueSends'
  BY UniqueKept DEF IInv, Types, NetType, CallsKept
<1>6. FactsInv'
  <2>1. FactsOfHistory(server'.history) \subseteq Facts
    BY DEF Facts
  <2>2. \A a \in Coming' : FactsOfAnswer(a) \subseteq Facts
    BY <1>1 DEF Facts
  <2> QED BY <2>1, <2>2, FactsKept DEF IInv, Types, OtherType, CacheKept
<1> QED BY <1>3, <1>4, <1>5, <1>6 DEF IInv, Types, CacheKept

\* Steps of the user and the timers that file no deletion.
LEMMA UserStep ==
  ASSUME IInv, UNCHANGED <<fault, toClient, server, texts, stamps, collisions>>,
         CacheType', OtherType', CallsKept, CacheKept,
         forgotten \subseteq forgotten', failures' = 0 => failures = 0,
         cache'.deleteChatIds \subseteq cache.deleteChatIds,
         cache'.delete_history_requests = cache.delete_history_requests
  PROVE  IInv'
<1>1. Coming' = Coming
  BY DEF Coming
<1>2. ForgetInv'
  BY <1>1, ForgetKept DEF IInv, ForgetInv, CallsKept, CacheKept, IsRestriction
<1>3. MarksInv'
  BY <1>1, TakenKept DEF IInv, MarksInv, CallsKept
<1>4. FaultsNeedForgetting'
  BY DEF IInv, FaultsNeedForgetting
<1> QED BY <1>2, <1>3, <1>4, ClientStep

\* Texts under way are left alone, but for those a step takes from its front.
LEMMA QuietAsked ==
  ASSUME IInv, UNCHANGED <<toClient, texts, collisions>>, CallsKept,
         forgotten \subseteq forgotten', forgotten' \subseteq Dialogs,
         failures' = 0 => failures = 0,
         cache'.pend_messages = cache.pend_messages
  PROVE  QuietSends
<1>1. Sends' = Sends
  BY DEF Sends, Coming, CallsKept
<1> QED BY <1>1 DEF QuietSends, IInv, Types, OtherType

\* An answer that is not to a text leaves the texts under way.
LEMMA QuietReceived ==
  ASSUME IInv, UNCHANGED <<texts, collisions, forgotten>>, CallsKept,
         toClient # <<>>, toClient' = Tail(toClient), Head(toClient).kind # "sendMessage",
         failures' = 0 => failures = 0,
         cache'.pend_messages = cache.pend_messages
  PROVE  QuietSends
<1>1. Coming = Coming' \cup {Head(toClient)}
  BY Received DEF IInv, Types, NetType
<1>2. Sends' = Sends
  BY <1>1 DEF Sends, CallsKept
<1> QED BY <1>2 DEF QuietSends, IInv, Types, OtherType

\* A handler uses a missing object of a dialog that was deleted from or left.
LEMMA Faulted ==
  ASSUME IInv, NEW kind \in {"message", "chat", "dialog"}, NEW d \in forgotten', Fault(kind, d),
         UNCHANGED <<server, texts, stamps, collisions>>, OtherType', QuietSends,
         toClient' = toClient \/ (toClient # <<>> /\ toClient' = Tail(toClient))
  PROVE  IInv'
<1>1. cache' = cache /\ requests' = requests /\ fault' # NoFault /\ fault'.dialog = d
  BY DEF Fault, NoRequest, NoFault
<1>2. CallsKept
  BY NoCalls DEF IInv, Fault
<1>3. CacheType'
  BY <1>1 DEF IInv, Types, CacheType
<1>4. Shrinks(cache, cache', {})
  BY <1>1, SameShrinks DEF SameMessages, IInv, Types, CacheType
<1>5. CacheKept
  BY <1>1, <1>4, ShrinkStep DEF IInv
<1>6. Coming' \subseteq Coming
  BY Received DEF IInv, Types, NetType, Coming
<1>7. ForgetInv'
  BY <1>1, <1>2, <1>5, <1>6, ForgetKept
     DEF IInv, ForgetInv, CallsKept, CacheKept, IsRestriction, QuietSends
<1>8. MarksInv' /\ FaultsNeedForgetting'
  BY <1>1 DEF MarksInv, FaultsNeedForgetting
<1> QED BY <1>2, <1>3, <1>5, <1>7, <1>8, ClientStep

-----------------------------------------------------------------------------
(* The deletion of a group's history.                                      *)

\* What DeleteHistory makes of the cache c, when it does not fail: the marks
\* become those given, and unless the request is made offline, one that takes
\* the deletion of d on is under way, filed under its number if need be.
Deleting(c, d, marks) ==
  /\ fault' = fault
  /\ Shape(cache') /\ SameMessages(c, cache') /\ cache'.pend_messages = c.pend_messages
  /\ cache'.dialogs = c.dialogs /\ cache'.chats = c.chats /\ cache'.unread = c.unread
  /\ cache'.deleteChatIds = marks
  /\ Asked({"deleteChatUser", "readHistory", "getFullChat", "deleteHistory"}, d, 0)
  /\ requests < requests'
  /\ \E filed \in {requests', Offline} :
       /\ \/ cache'.delete_history_requests = c.delete_history_requests
          \/ cache'.delete_history_requests = Insert(c.delete_history_requests, filed, d)
       /\ DOMAIN cache'.read_history_requests \subseteq DOMAIN c.read_history_requests \cup {filed}
  /\ failures' \in {failures, failures + 1}
  /\ failures' = failures => \E r \in calls' : CallTakesOn(r, d)'

\* messagesDeleteHistory fails because the dialog is missing, or a request
\* that carries the deletion on is made and filed.
LEMMA Deletes ==
  ASSUME Types, NEW c, Shape(c), NEW d \in Groups,
         NEW asked \in {<<>>, <<"deleteChatUser">>}, NEW deleteChat \in BOOLEAN,
         NEW userRemoved \in BOOLEAN, DeleteHistory(c, d, deleteChat, userRemoved, asked)
  PROVE  \/ Fault("dialog", d)
         \/ Deleting(c, d, IF deleteChat THEN c.deleteChatIds \cup {d} ELSE c.deleteChatIds)
<1> DEFINE m == IF deleteChat THEN [c EXCEPT !.deleteChatIds = @ \cup {d}] ELSE c
           marks == IF deleteChat THEN c.deleteChatIds \cup {d} ELSE c.deleteChatIds
           leave == d \in m.chats /\ d \in m.deleteChatIds /\ ~userRemoved
           Filed(id) == [m EXCEPT !.delete_history_requests = Insert(@, id, d)]
           M == {"deleteChatUser", "readHistory", "getFullChat", "deleteHistory"}
<1>1. /\ Shape(m) /\ SameMessages(c, m) /\ m.pend_messages = c.pend_messages
      /\ m.dialogs = c.dialogs /\ m.chats = c.chats /\ m.unread = c.unread
      /\ m.read_history_requests = c.read_history_requests
      /\ m.delete_history_requests = c.delete_history_requests
      /\ m.deleteChatIds = marks
  <2>1. CASE deleteChat
    BY <2>1 DEF Shape, SameMessages, GoneOf
  <2>2. CASE ~deleteChat
    BY <2>2 DEF SameMessages
  <2> QED BY <2>1, <2>2
<1>2. \/ Fault("dialog", d)
      \/ LET read == asked \o <<"readHistory">>
         IN  \E told \in Told(read) : AskThen(read, d, 0, told, DeleteAfterReading(m, told, d))
      \/ Ask(asked \o <<"getFullChat">>, d, 0, m)
      \/ LET delete == asked \o <<"deleteHistory">>
         IN  \E told \in Told(delete) : AskThen(delete, d, 0, told, Filed(told))
  BY DEF DeleteHistory
<1> HIDE DEF m, marks
<1>3. requests \in Nat /\ failures \in Nat
  BY DEF Types, NetType, OtherType
<1>4. ASSUME NEW last \in {"readHistory", "getFullChat", "deleteHistory"},
             MakeRequests(asked \o <<last>>, d, 0)
      PROVE  /\ Asked(M, d, 0) /\ requests < requests'
             /\ requests' = requests + Len(asked \o <<last>>)
             /\ Call(last, requests', d, 0) \in calls'
  <2> DEFINE methods == asked \o <<last>>
  <2>1. /\ methods \in Seq(Methods) /\ methods # <<>> /\ Range(methods) \subseteq M
        /\ methods[Len(methods)] = last
    <3>0. <<last>> \in Seq(Methods) /\ Len(<<last>>) = 1 /\ <<last>>[1] = last
      BY DEF Methods
    <3>1. CASE asked = <<>>
      <4>1. methods = <<last>>
        BY <3>0, <3>1, ConcatEmptySeq
      <4> HIDE DEF methods
      <4>2. methods \in Seq(Methods) /\ Len(methods) = 1 /\ methods[1] = last
        BY <3>0, <4>1
      <4>3. DOMAIN methods = {1}
        BY <4>2, LenProperties
      <4>4. Range(methods) = {last}
        BY <4>2, <4>3 DEF Range
      <4>5. methods # <<>>
        BY <4>2, EmptySeq
      <4>6. last \in M
        OBVIOUS
      <4> QED BY <4>2, <4>4, <4>5, <4>6
    <3>2. CASE asked = <<"deleteChatUser">>
      <4>1. asked \in Seq(Methods) /\ <<last>> \in Seq(Methods) /\ Len(asked) = 1
            /\ asked[1] = "deleteChatUser" /\ Len(<<last>>) = 1 /\ <<last>>[1] = last
        BY <3>2 DEF Methods
      <4>2. /\ methods \in Seq(Methods) /\ Len(methods) = 2
            /\ methods[1] = "deleteChatUser" /\ methods[2] = last
        BY <4>1, ConcatProperties
      <4>3. DOMAIN methods = {1, 2}
        BY <4>2, LenProperties
      <4> QED BY <4>2, <4>3 DEF Range
    <3> QED BY <3>1, <3>2
  <2> HIDE DEF methods
  <2>2. /\ Asked(Range(methods), d, 0) /\ requests < requests'
        /\ requests' = requests + Len(methods)
        /\ Call(methods[Len(methods)], requests', d, 0) \in calls'
    BY <1>3, <1>4, <2>1, Made DEF methods
  <2> QED BY <2>1, <2>2 DEF Asked, methods
<1>5. ASSUME NEW last \in {"readHistory", "deleteHistory"}, NEW told \in Told(asked \o <<last>>),
             NEW filed, AskThen(asked \o <<last>>, d, 0, told, filed),
             Shape(filed), SameMessages(c, filed), filed.pend_messages = c.pend_messages,
             filed.dialogs = c.dialogs, filed.chats = c.chats, filed.unread = c.unread,
             filed.deleteChatIds = marks,
             filed.delete_history_requests = Insert(c.delete_history_requests, told, d),
             DOMAIN filed.read_history_requests \subseteq DOMAIN c.read_history_requests \cup {told}
      PROVE  Deleting(c, d, marks)
  <2>1. /\ MakeRequests(asked \o <<last>>, d, 0) /\ cache' = filed /\ fault' = fault
        /\ failures' = IF told = Offline THEN failures + 1 ELSE failures
    BY <1>5 DEF AskThen
  <2>2. /\ Asked(M, d, 0) /\ requests < requests'
        /\ requests' = requests + Len(asked \o <<last>>)
        /\ Call(last, requests', d, 0) \in calls'
    BY <1>4, <2>1
  <2>3. told \in {requests', Offline}
    BY <2>2 DEF Told
  <2>4. PICK r \in calls' : r = Call(last, requests', d, 0)
    BY <2>2
  <2>5. failures' = failures => told = requests' /\ told \in DOMAIN filed.delete_history_requests
    BY <1>3, <1>5, <2>1, <2>3 DEF Insert
  <2>6. failures' = failures => CallTakesOn(r, d)'
    BY <1>5, <2>1, <2>4, <2>5 DEF CallTakesOn, Call
  <2> QED BY <1>3, <1>5, <2>1, <2>2, <2>3, <2>4, <2>6 DEF Deleting
<1>6. CASE Fault("dialog", d)
  BY <1>6
<1>7. CASE LET read == asked \o <<"readHistory">>
           IN  \E told \in Told(read) : AskThen(read, d, 0, told, DeleteAfterReading(m, told, d))
  <2>1. PICK told \in Told(asked \o <<"readHistory">>) :
          AskThen(asked \o <<"readHistory">>, d, 0, told, DeleteAfterReading(m, told, d))
    BY <1>7
  <2> DEFINE filed == DeleteAfterReading(m, told, d)
  <2>2. /\ Shape(filed) /\ SameMessages(c, filed) /\ filed.pend_messages = c.pend_messages
        /\ filed.dialogs = c.dialogs /\ filed.chats = c.chats /\ filed.unread = c.unread
        /\ filed.deleteChatIds = marks
        /\ filed.delete_history_requests = Insert(c.delete_history_requests, told, d)
        /\ filed.read_history_requests = Insert(c.read_history_requests, told, d)
    BY <1>1 DEF DeleteAfterReading, Shape, SameMessages, GoneOf
  <2>3. DOMAIN filed.read_history_requests \subseteq DOMAIN c.read_history_requests \cup {told}
    BY <2>2 DEF Insert
  <2> HIDE DEF filed
  <2> QED BY <1>5, <2>1, <2>2, <2>3 DEF filed, marks
<1>8. CASE Ask(asked \o <<"getFullChat">>, d, 0, m)
  <2>1. /\ MakeRequests(asked \o <<"getFullChat">>, d, 0) /\ cache' = m
        /\ failures' = failures /\ fault' = fault
    BY <1>8 DEF Ask
  <2>2. /\ Asked(M, d, 0) /\ requests < requests'
        /\ Call("getFullChat", requests', d, 0) \in calls'
    BY <1>4, <2>1
  <2>3. PICK r \in calls' : r = Call("getFullChat", requests', d, 0)
    BY <2>2
  <2>4. CallTakesOn(r, d)'
    BY <2>3 DEF CallTakesOn, Call
  <2> QED BY <1>1, <1>3, <2>1, <2>2, <2>3, <2>4 DEF Deleting, marks
<1>9. CASE LET delete == asked \o <<"deleteHistory">>
           IN  \E told \in Told(delete) : AskThen(delete, d, 0, told, Filed(told))
  <2>1. PICK told \in Told(asked \o <<"deleteHistory">>) :
          AskThen(asked \o <<"deleteHistory">>, d, 0, told, Filed(told))
    BY <1>9
  <2> DEFINE filed == Filed(told)
  <2>2. /\ Shape(filed) /\ SameMessages(c, filed) /\ filed.pend_messages = c.pend_messages
        /\ filed.dialogs = c.dialogs /\ filed.chats = c.chats /\ filed.unread = c.unread
        /\ filed.deleteChatIds = marks
        /\ filed.delete_history_requests = Insert(c.delete_history_requests, told, d)
        /\ filed.read_history_requests = c.read_history_requests
    BY <1>1 DEF Shape, SameMessages, GoneOf
  <2> HIDE DEF filed
  <2> QED BY <1>5, <2>1, <2>2 DEF filed, marks
<1> QED BY <1>2, <1>6, <1>7, <1>8, <1>9

\* A step that deletes, from a cache c that holds the messages of the one
\* before.
LEMMA DeletionStep ==
  ASSUME IInv, UNCHANGED <<server, texts, stamps, collisions>>, OtherType', fault = NoFault,
         toClient' = toClient \/ (toClient # <<>> /\ toClient' = Tail(toClient)),
         forgotten \subseteq forgotten',
         NEW d \in Groups \cap forgotten', NEW c, NEW marks, Deleting(c, d, marks),
         MessagesType(c), DialogsType(c), FiledType(c, texts, requests),
         marks = cache.deleteChatIds \/ marks = cache.deleteChatIds \cup {d},
         IsRestriction(c.delete_history_requests, cache.delete_history_requests),
         CacheKept,
         \A e \in Dialogs \ {d} : TakenOn(e) => TakenOn(e)'
  PROVE  IInv'
<1>1. /\ fault' = fault /\ Shape(cache') /\ SameMessages(c, cache')
      /\ cache'.pend_messages = c.pend_messages
      /\ cache'.dialogs = c.dialogs /\ cache'.chats = c.chats /\ cache'.unread = c.unread
      /\ cache'.deleteChatIds = marks
      /\ Asked({"deleteChatUser", "readHistory", "getFullChat", "deleteHistory"}, d, 0)
      /\ requests < requests' /\ failures' \in {failures, failures + 1}
      /\ failures' = failures => \E r \in calls' : CallTakesOn(r, d)'
  BY DEF Deleting
<1>2. PICK filed \in {requests', Offline} :
        /\ \/ cache'.delete_history_requests = c.delete_history_requests
           \/ cache'.delete_history_requests = Insert(c.delete_history_requests, filed, d)
        /\ DOMAIN cache'.read_history_requests \subseteq DOMAIN c.read_history_requests \cup {filed}
  BY DEF Deleting
<1>3. CallsKept
  <2>1. /\ {"deleteChatUser", "readHistory", "getFullChat", "deleteHistory"}
             \subseteq Methods \ {"sendMessage"}
        /\ d \in Dialogs
    BY DEF Methods, Dialogs
  <2> QED BY <1>1, <2>1, CallsAsked DEF IInv
<1>4. requests \in Nat /\ requests' \in Nat /\ requests < requests' /\ texts' = texts
  BY <1>1, <1>3 DEF IInv, Types, NetType, CallsKept
<1>5. FiledType(cache', texts', requests')
  <2>1. /\ cache'.delete_history_requests \in [DOMAIN cache'.delete_history_requests -> Groups]
        /\ DOMAIN cache'.delete_history_requests \subseteq {Offline} \cup 1..requests'
    BY <1>2, <1>4 DEF FiledType, Insert, Offline
  <2>2. /\ cache'.pend_messages \in [DOMAIN cache'.pend_messages -> 1..texts]
        /\ DOMAIN cache'.pend_messages \subseteq {Offline} \cup 1..requests'
        /\ DOMAIN cache'.read_history_requests \subseteq {Offline} \cup 1..requests'
    BY <1>1, <1>2, <1>4 DEF FiledType, Offline
  <2> QED BY <1>4, <2>1, <2>2 DEF FiledType
<1>6. DialogsType(cache')
  BY <1>1 DEF DialogsType, IInv, Types, CacheType
<1>7. CacheType'
  BY <1>1, <1>5, <1>6, TypeKept DEF CacheType
<1>8. ForgetInv'
  <2>1. Coming' \subseteq Coming
    BY Received DEF IInv, Types, NetType, Coming
  <2>2. \A id \in 0..requests :
          id \in DOMAIN cache'.delete_history_requests =>
            /\ id \in DOMAIN cache.delete_history_requests
            /\ cache'.delete_history_requests[id] = cache.delete_history_requests[id]
    BY <1>2, <1>4 DEF Insert, Offline, IsRestriction
  <2>3. \A r \in calls : r.id \in 0..requests
    BY DEF IInv, Types, NetType, CallOK
  <2>4. \A a \in Coming : a.id \in 0..requests
    BY DEF IInv, Types, NetType, AnswerOK
  <2>5. \A r \in calls' \ calls : r.dialog = d /\ r.id \in requests + 1 .. requests'
    BY <1>1 DEF Asked
  <2>6. \A id \in requests + 1 .. requests' :
          id \in DOMAIN cache'.delete_history_requests => cache'.delete_history_requests[id] = d
    BY <1>2, <1>4 DEF Insert, FiledType, Offline
  <2>7. \A r \in calls' : FiledIsForgotten(r.id, r.dialog)'
    BY <2>2, <2>3, <2>5, <2>6 DEF IInv, ForgetInv, FiledIsForgotten
  <2>8. \A a \in Coming' : FiledIsForgotten(a.id, a.dialog)'
    BY <2>1, <2>2, <2>4 DEF IInv, ForgetInv, FiledIsForgotten
  <2>9. cache'.deleteChatIds \subseteq forgotten'
    BY <1>1 DEF IInv, ForgetInv
  <2> QED BY <2>7, <2>8, <2>9 DEF ForgetInv, CacheKept
<1>9. MarksInv'
  <2>1. SUFFICES ASSUME failures' = 0, NEW e \in cache'.deleteChatIds
                 PROVE  TakenOn(e)'
    BY DEF MarksInv
  <2>2. failures = 0 /\ failures' = failures
    BY <1>1, <2>1 DEF IInv, Types, OtherType
  <2>3. CASE e = d
    BY <1>1, <2>2, <2>3 DEF TakenOn
  <2>4. CASE e # d
    BY <1>1, <2>2, <2>4 DEF IInv, MarksInv, Types, CacheType, DialogsType, Dialogs
  <2> QED BY <2>3, <2>4
<1>10. FaultsNeedForgetting'
  BY <1>1 DEF FaultsNeedForgetting
<1> QED BY <1>3, <1>7, <1>8, <1>9, <1>10, ClientStep

\* The user deletes a chat or a history, or leaves.
LEMMA UserDeletes ==
  ASSUME IInv, NEW d \in Groups, Wish(d), NEW c \in {cache, Seen(d)},
         fault = NoFault, NEW asked \in {<<>>, <<"deleteChatUser">>}, NEW deleteChat \in BOOLEAN,
         DeleteHistory(c, d, deleteChat, FALSE, asked)
  PROVE  IInv'
<1>1. /\ Shape(c) /\ SameMessages(cache, c) /\ SameFiled(cache, c)
      /\ c.dialogs = cache.dialogs /\ c.chats = cache.chats
      /\ c.unread \subseteq cache.unread /\ c.deleteChatIds = cache.deleteChatIds
  <2>1. CASE c = cache
    BY <2>1 DEF IInv, Types, CacheType, SameMessages, SameFiled
  <2>2. CASE c = Seen(d)
    BY <2>2 DEF IInv, Types, CacheType, SameMessages, SameFiled, Shape, Seen, GoneOf
  <2> QED BY <2>1, <2>2
<1>2. MessagesType(c) /\ DialogsType(c) /\ FiledType(c, texts, requests)
  BY <1>1, TypeKept DEF IInv, Types, CacheType, DialogsType, FiledType, SameFiled
<1>3. /\ UNCHANGED <<opened, cleanUpTimer, toClient, server, held, texts, stamps,
                      collisions, others>>
      /\ deletions' = deletions + 1 /\ forgotten' = forgotten \cup {d} /\ d \in Dialogs
  BY DEF Wish, Dialogs
<1>4. CASE Fault("dialog", d)
  <2>1. OtherType'
    BY <1>3, <1>4 DEF IInv, Types, OtherType, Fault, NoRequest
  <2>2. QuietSends
    BY <1>3, <1>4, <2>1, QuietAsked, NoCalls DEF IInv, Fault, NoRequest, OtherType
  <2> QED BY <1>3, <1>4, <2>1, <2>2, Faulted
<1>5. CASE Deleting(c, d, IF deleteChat THEN c.deleteChatIds \cup {d} ELSE c.deleteChatIds)
  <2> DEFINE marks == IF deleteChat THEN c.deleteChatIds \cup {d} ELSE c.deleteChatIds
  <2>1. /\ fault' = fault /\ SameMessages(c, cache') /\ failures' \in {failures, failures + 1}
        /\ cache'.pend_messages = c.pend_messages /\ calls \subseteq calls'
        /\ Asked({"deleteChatUser", "readHistory", "getFullChat", "deleteHistory"}, d, 0)
        /\ DOMAIN c.delete_history_requests \subseteq DOMAIN cache'.delete_history_requests
    BY <1>5 DEF Deleting, Asked, Insert
  <2>2. OtherType'
    BY <1>3, <2>1 DEF IInv, Types, OtherType
  <2>3. CallsKept
    <3>1. {"deleteChatUser", "readHistory", "getFullChat", "deleteHistory"}
             \subseteq Methods \ {"sendMessage"}
      BY DEF Methods
    <3> QED BY <1>3, <2>1, <3>1, CallsAsked DEF IInv
  <2>4. QuietSends
    BY <1>1, <1>3, <2>1, <2>2, <2>3, QuietAsked DEF OtherType, SameFiled, IInv, Types
  <2>5. Shrinks(cache, cache', {})
    BY <1>1, <2>1, SameShrinks DEF SameMessages, IInv, Types, CacheType
  <2>6. CacheKept
    BY <1>1, <2>1, <2>4, <2>5, ShrinkStep DEF IInv, SameMessages
  <2>7. \A e \in Dialogs \ {d} : TakenOn(e) => TakenOn(e)'
    BY <1>1, <1>3, <2>1, TakenKept DEF SameFiled, Coming
  <2>8. IsRestriction(c.delete_history_requests, cache.delete_history_requests)
    BY <1>1 DEF SameFiled, IsRestriction
  <2>9. /\ Deleting(c, d, marks)
        /\ marks = cache.deleteChatIds \/ marks = cache.deleteChatIds \cup {d}
    BY <1>1, <1>5
  <2> HIDE DEF marks
  <2> QED BY <1>2, <1>3, <2>2, <2>6, <2>7, <2>8, <2>9, DeletionStep
<1>6. FALSE \in BOOLEAN
  OBVIOUS
<1> QED BY <1>1, <1>4, <1>5, <1>6, Deletes DEF IInv

-----------------------------------------------------------------------------
(* The user's steps.                                                       *)

\* sendMessage keeps the invariant: the new pending message is listed in its
\* dialog, filed under the request of its text, or the request failed.
LEMMA SendsText ==
  ASSUME IInv, NEW d \in Dialogs, fault = NoFault, SendMessage(d)
  PROVE  IInv'
<1> PICK n : n = texts + 1
  OBVIOUS
<1> PICK k : k = requests + 1
  OBVIOUS
<1> PICK new : new = Call("sendMessage", k, d, n)
  OBVIOUS
<1> DEFINE shown == InsertMessage(cache, Temp(n), d, n, TRUE)
           c == IF d \in Secrets THEN UpdateEncryptedTop(shown, d) ELSE shown
<1>1. /\ fault' = fault /\ texts' = n
      /\ UNCHANGED <<opened, cleanUpTimer, held, toClient, server, stamps, collisions,
                     forgotten, deletions, others>>
  BY DEF SendMessage, AskThen
<1>2. PICK told \in Told(<<"sendMessage">>) :
        AskThen(<<"sendMessage">>, d, n, told, [c EXCEPT !.pend_messages = Insert(@, told, n)])
  BY DEF SendMessage
<1>3. /\ n = texts + 1 /\ k = requests + 1 /\ n \in Nat /\ k \in Nat
      /\ requests \in Nat /\ texts \in Nat /\ failures \in Nat
  BY DEF IInv, Types, NetType, OtherType
<1>4. /\ requests' = requests + 1 /\ calls' = calls \cup {new}
      /\ told \in {requests + 1, Offline}
      /\ failures' = IF told = Offline THEN failures + 1 ELSE failures
  BY <1>2, <1>3 DEF AskThen, MakeRequests, Told
<1>5. /\ Shape(cache) /\ MessagesType(cache) /\ DialogsType(cache)
      /\ FiledType(cache, texts, requests)
  BY DEF IInv, Types, CacheType
<1>6. Temp(n) \notin DOMAIN cache.messages /\ Temp(n) \notin GoneOf(cache)
  BY <1>3 DEF IInv, TempInv
<1>7. /\ Shape(c) /\ SameDialogs(cache, c) /\ SameFiled(cache, c)
      /\ c.messages = Insert(cache.messages, Temp(n), [dialog |-> d, text |-> n])
      /\ c.messages_list = [cache.messages_list EXCEPT ![d] = @ \cup {Temp(n)}]
      /\ c.database = cache.database /\ GoneOf(c) = GoneOf(cache)
  <2>1. /\ Shape(shown) /\ SameDialogs(cache, shown) /\ SameFiled(cache, shown)
        /\ shown.messages = Insert(cache.messages, Temp(n), [dialog |-> d, text |-> n])
        /\ shown.messages_list = [cache.messages_list EXCEPT ![d] = @ \cup {Temp(n)}]
        /\ shown.database = cache.database /\ GoneOf(shown) = GoneOf(cache)
    BY <1>5, <1>6 DEF InsertMessage, Shape, SameDialogs, SameFiled, GoneOf, Has
  <2> HIDE DEF shown
  <2> QED BY <2>1 DEF UpdateEncryptedTop, Shape, SameDialogs, SameFiled, GoneOf
<1> HIDE DEF c
<1>8. /\ Shape(cache') /\ SameDialogs(cache, cache')
      /\ cache'.messages = Insert(cache.messages, Temp(n), [dialog |-> d, text |-> n])
      /\ cache'.messages_list = [cache.messages_list EXCEPT ![d] = @ \cup {Temp(n)}]
      /\ cache'.database = cache.database /\ GoneOf(cache') = GoneOf(cache)
      /\ cache'.pend_messages = Insert(cache.pend_messages, told, n)
      /\ cache'.read_history_requests = cache.read_history_requests
      /\ cache'.delete_history_requests = cache.delete_history_requests
  BY <1>2, <1>7 DEF AskThen, Shape, SameDialogs, SameFiled, GoneOf
<1>9. CacheType'
  <2>1. Temp(n) \in Ids /\ [dialog |-> d, text |-> n] \in MessageType
    BY <1>3 DEF Temp, Ids, MessageType
  <2>2. /\ cache'.messages \in [DOMAIN cache'.messages -> MessageType]
        /\ DOMAIN cache'.messages \subseteq Ids
    BY <1>5, <1>8, <2>1 DEF MessagesType, Insert
  <2>3. cache'.messages_list \in [Dialogs -> SUBSET Ids]
    BY <1>5, <1>8, <2>1 DEF MessagesType
  <2>4. MessagesType(cache')
    BY <1>5, <1>8, <2>2, <2>3 DEF MessagesType
  <2>5. FiledType(cache', texts', requests')
    BY <1>1, <1>3, <1>4, <1>5, <1>8 DEF FiledType, Insert, Offline
  <2> QED BY <1>5, <1>8, <2>4, <2>5 DEF CacheType, DialogsType, SameDialogs
<1>10. OtherType'
  BY <1>1, <1>3, <1>4 DEF IInv, Types, OtherType
<1>11. NetType'
  <2>1. CallOK(new)'
    BY <1>1, <1>3, <1>4 DEF CallOK, Call, CallType, Methods, GroupSteps, DeletionSteps
  <2>2. \A r \in calls : CallOK(r)'
    BY <1>1, <1>3, <1>4 DEF IInv, Types, NetType, CallOK
  <2>3. \A a \in Coming : AnswerOK(a)'
    BY <1>1, <1>3, <1>4 DEF IInv, Types, NetType, AnswerOK
  <2> QED BY <1>1, <1>3, <1>4, <2>1, <2>2, <2>3 DEF IInv, Types, NetType, Coming
<1>12. Types'
  BY <1>1, <1>9, <1>10, <1>11 DEF IInv, Types, ServerType
<1>13. \A s \in Sends : s.id \in 0..requests /\ s.text \in 1..texts
  BY SendsType DEF IInv
<1>14. Sends' = Sends \cup {SendOf(k, d, n)}
  BY <1>1, <1>4 DEF Sends, Call, Coming
<1>15. SendInv'
  <2>1. ASSUME NEW s \in Sends
        PROVE  SendOK(s.id, s.dialog, s.text)'
    <3>1. SendOK(s.id, s.dialog, s.text) /\ s.id \in 0..requests /\ s.text \in 1..texts
      BY <1>13 DEF IInv, SendInv
    <3>2. s.id # told /\ Temp(s.text) # Temp(n)
      BY <1>3, <1>4, <3>1 DEF Offline, Temp
    <3> QED BY <1>1, <1>3, <1>4, <1>8, <3>1, <3>2 DEF SendOK, Insert
  <2>2. SendOK(k, d, n)'
    <3>1. k \in DOMAIN cache'.pend_messages => cache'.pend_messages[k] = n
      BY <1>3, <1>4, <1>5, <1>8 DEF Insert, FiledType, Offline
    <3>2. failures' = 0 => k \in DOMAIN cache'.pend_messages
      BY <1>3, <1>4, <1>8 DEF Insert, Offline
    <3> QED BY <1>6, <1>8, <3>1, <3>2 DEF SendOK, Insert
  <2>3. \A s \in Sends' : SendOK(s.id, s.dialog, s.text)'
    BY <1>14, <2>1, <2>2 DEF SendOf
  <2> QED BY <2>3 DEF SendInv
<1>16. UniqueSends'
  <2>1. \A r \in calls : r.method = "sendMessage" => r.text # n
    BY <1>3 DEF IInv, Types, NetType, CallOK
  <2>2. \A a \in Coming : a.kind = "sendMessage" => a.text # n
    BY <1>3 DEF IInv, Types, NetType, AnswerOK
  <2>3. new.text = n /\ Coming' = Coming
    BY <1>1 DEF Call, Coming
  <2> QED BY <1>1, <1>4, <2>1, <2>2, <2>3 DEF IInv, UniqueSends
<1>17. TempInv(cache', texts')
  <2>1. \A i \in Nat : i # n => Temp(i) # Temp(n)
    BY DEF Temp
  <2>2. \A i \in Nat :
          /\ Temp(i) \in DOMAIN cache'.messages <=> Temp(i) \in DOMAIN cache.messages \/ i = n
          /\ i # n /\ Temp(i) \in DOMAIN cache.messages =>
               cache'.messages[Temp(i)] = cache.messages[Temp(i)]
          /\ i = n => cache'.messages[Temp(i)].dialog = d
    BY <1>8, <2>1 DEF Insert
  <2>3. \A e \in Dialogs : \A i \in Nat :
          Temp(i) \in cache'.messages_list[e] <=>
            Temp(i) \in cache.messages_list[e] \/ (i = n /\ e = d)
    BY <1>5, <1>8, <2>1 DEF MessagesType
  <2>4. \A i \in Nat : Temp(i) \in DOMAIN cache.messages =>
          cache.messages[Temp(i)].dialog \in Dialogs
    BY <1>5 DEF MessagesType, MessageType
  <2>5. \A i \in Nat :
          /\ Temp(i) \in DOMAIN cache'.messages =>
               /\ i <= n /\ Temp(i) \notin GoneOf(cache')
               /\ Temp(i) \in cache'.messages_list[cache'.messages[Temp(i)].dialog]
          /\ Temp(i) \in GoneOf(cache') => i <= n
    BY <1>3, <1>6, <1>8, <2>2, <2>3, <2>4 DEF IInv, TempInv
  <2>6. \A e \in Dialogs : \A i \in Nat :
          Temp(i) \in cache'.messages_list[e] =>
            Temp(i) \in DOMAIN cache'.messages /\ cache'.messages[Temp(i)].dialog = e
    BY <1>6, <2>2, <2>3 DEF IInv, TempInv
  <2> QED BY <1>1, <2>5, <2>6 DEF TempInv
<1>18. ForgetInv'
  <2>1. requests + 1 \notin DOMAIN cache.delete_history_requests
    BY <1>3, <1>5 DEF FiledType, Offline
  <2>2. \A r \in calls' : r \in calls \/ r.id = requests + 1
    BY <1>4 DEF Call
  <2> QED BY <1>1, <1>8, <2>1, <2>2, ForgetKept
          DEF IInv, ForgetInv, Coming, IsRestriction, SameDialogs
<1>19. FactsInv'
  <2>1. FactsOf(cache'.messages) = FactsOf(cache.messages)
    BY <1>3, <1>8, TempIds DEF FactsOf, Insert
  <2> QED BY <1>1, <1>8, <2>1 DEF IInv, FactsInv, Facts, Coming
<1>20. MarksInv'
  BY <1>1, <1>3, <1>4, <1>8, TakenKept DEF IInv, MarksInv, Coming, SameDialogs
<1>21. FaultsNeedForgetting'
  BY <1>1 DEF IInv, FaultsNeedForgetting
<1>22. StoredInv'
  <2>1. SUFFICES ASSUME collisions = 0
                 PROVE  /\ Stored(cache', forgotten)
                        /\ failures' = 0 =>
                             \A e \in Dialogs : \A i \in Nat :
                               Temp(i) \in cache'.messages_list[e] => Sending(e, i)'
    BY <1>1 DEF StoredInv
  <2>2. Stored(cache', forgotten)
    <3>1. \A id \in DOMAIN cache.messages :
            id \in DOMAIN cache'.messages /\ cache'.messages[id] = cache.messages[id]
      BY <1>6, <1>8 DEF Insert
    <3>2. \A e \in Dialogs : \A id \in cache'.messages_list[e] :
            id \in cache.messages_list[e] \/ (id = Temp(n) /\ e = d)
      BY <1>5, <1>8 DEF MessagesType
    <3>3. /\ Temp(n) \in DOMAIN cache'.messages
          /\ cache'.messages[Temp(n)].dialog = d
          /\ IsTemp(Temp(n))
      BY <1>3, <1>8, TempIds DEF Insert
    <3> QED BY <1>8, <2>1, <3>1, <3>2, <3>3 DEF IInv, StoredInv, Stored, Has
  <2>3. ASSUME failures' = 0, NEW e \in Dialogs, NEW i \in Nat, Temp(i) \in cache'.messages_list[e]
        PROVE  Sending(e, i)'
    <3>1. CASE Temp(i) \in cache.messages_list[e]
      BY <1>3, <1>4, <1>14, <2>1, <2>3, <3>1 DEF IInv, StoredInv, Sending
    <3>2. CASE Temp(i) \notin cache.messages_list[e]
      <4>1. Temp(i) = Temp(n) /\ e = d
        BY <1>5, <1>8, <2>3, <3>2 DEF MessagesType
      <4>2. i = n
        BY <4>1 DEF Temp
      <4>3. SendOf(k, d, n) \in Sends'
        BY <1>14
      <4>4. SendOf(k, d, n).dialog = d /\ SendOf(k, d, n).text = n
        BY DEF SendOf
      <4> QED BY <4>1, <4>2, <4>3, <4>4 DEF Sending
    <3> QED BY <3>1, <3>2
  <2> QED BY <2>2, <2>3
<1> QED BY <1>1, <1>12, <1>15, <1>16, <1>17, <1>18, <1>19, <1>20, <1>21, <1>22 DEF IInv

\* Steps of the user and the timers that take messages away or none.
LEMMA UserShrinks ==
  ASSUME IInv, UNCHANGED <<fault, toClient, server, texts, stamps, collisions>>,
         CacheType', OtherType', CallsKept, forgotten \subseteq forgotten',
         failures' = 0 => failures = 0, SameFiled(cache, cache')
           \/ (/\ cache'.pend_messages = cache.pend_messages
               /\ cache'.delete_history_requests = cache.delete_history_requests),
         cache'.deleteChatIds \subseteq cache.deleteChatIds,
         NEW lost \in SUBSET forgotten', Shrinks(cache, cache', lost),
         \A x \in DOMAIN cache.messages \ DOMAIN cache'.messages :
           IsTemp(x) => cache.messages[x].dialog \in forgotten'
  PROVE  IInv'
<1>1. /\ cache'.pend_messages = cache.pend_messages
      /\ cache'.delete_history_requests = cache.delete_history_requests
  BY DEF SameFiled
<1>2. QuietSends
  BY <1>1, QuietAsked DEF OtherType
<1>3. \A s \in Sends' : IsTemp(Temp(s.text))
  BY <1>2, SendsType, TempIds DEF QuietSends, IInv
<1>4. CacheKept
  BY <1>2, <1>3, ShrinkStep DEF IInv
<1> QED BY <1>1, <1>4, UserStep

\* What loses messages after an operation that leaves them alone has lost the
\* same messages.
LEMMA ShrinksFrom ==
  ASSUME NEW b, NEW c, NEW r, NEW lost, SameMessages(b, c), Shrinks(c, r, lost)
  PROVE  Shrinks(b, r, lost)
BY DEF SameMessages, Shrinks, Placed

\* Deleting a message keeps the invariant: a pending one goes from the list,
\* and its dialog counts as forgotten.
LEMMA DeletesMessage ==
  ASSUME IInv, fault = NoFault, NEW id, DeleteMessage(id)
  PROVE  IInv'
<1> DEFINE c == [cache EXCEPT !.database = Remove(@, id)]
           r == InsertToGarbeges(c, id)
           t == cache.messages[id].text
<1>1. /\ opened \in Dialogs /\ id \in cache.messages_list[opened] /\ id \in DOMAIN cache.messages
      /\ Wish(opened) /\ cache' = r
      /\ MakeRequests(<<"deleteMessages">>, opened, t)
      /\ UNCHANGED <<failures, fault>>
  BY DEF DeleteMessage, Ask, Has, IInv, Types, OtherType
<1>2. /\ UNCHANGED <<opened, cleanUpTimer, toClient, server, held, texts, stamps,
                      collisions, others>>
      /\ deletions' = deletions + 1 /\ forgotten' = forgotten \cup {opened}
  BY <1>1 DEF Wish
<1>3. Shape(cache) /\ MessagesType(cache) /\ DialogsType(cache) /\ FiledType(cache, texts, requests)
      /\ TempInv(cache, texts) /\ requests \in Nat
  BY DEF IInv, Types, CacheType, NetType
<1>4. /\ Shape(c) /\ c.messages = cache.messages /\ c.messages_list = cache.messages_list
      /\ c.database = [x \in DOMAIN cache.database \ {id} |-> cache.database[x]]
      /\ GoneOf(c) = GoneOf(cache) /\ SameFiled(cache, c) /\ SameDialogs(cache, c)
  BY <1>3 DEF Shape, Remove, GoneOf, SameFiled, SameDialogs
<1> HIDE DEF c
<1>5. MessagesType(c)
  BY <1>3, <1>4 DEF MessagesType
<1>6. TempInv(c, texts)
  BY <1>3, <1>4 DEF TempInv
<1>7. /\ Shape(r) /\ MessagesType(r) /\ SameFiled(c, r) /\ SameDialogs(c, r)
      /\ r.messages = [x \in DOMAIN c.messages \ {id} |-> c.messages[x]]
      /\ r.messages_list = [c.messages_list EXCEPT ![c.messages[id].dialog] = @ \ {id}]
      /\ r.database = c.database
      /\ GoneOf(r) = GoneOf(c) \cup (IF IsTemp(id) THEN {id} ELSE {})
  BY <1>1, <1>4, <1>5, <1>6, ToGarbeges
<1> HIDE DEF r
<1>8. Shrinks(cache, r, {})
  <2>1. /\ IsRestriction(r.database, cache.database)
        /\ DOMAIN cache.database \subseteq DOMAIN r.database \cup {id}
    BY <1>4, <1>7 DEF IsRestriction
  <2>2. /\ r.messages = [x \in DOMAIN cache.messages \ {id} |-> cache.messages[x]]
        /\ r.messages_list = [cache.messages_list EXCEPT ![cache.messages[id].dialog] = @ \ {id}]
        /\ GoneOf(r) = GoneOf(cache) \cup (IF IsTemp(id) THEN {id} ELSE {})
    BY <1>4, <1>7
  <2> QED BY <1>1, <1>3, <2>1, <2>2, OneGoes
<1>9. \A x \in DOMAIN cache.messages \ DOMAIN r.messages :
        IsTemp(x) => cache.messages[x].dialog \in forgotten'
  <2>1. IsTemp(id) => cache.messages[id].dialog = opened
    BY <1>1, <1>3 DEF TempInv, MessagesType, IsTemp, Ids, Temp
  <2> QED BY <1>2, <1>4, <1>7, <2>1
<1>10. CallsKept
  <2>2. PICK u \in Nat : u = t
    BY <1>1, <1>3 DEF MessagesType, MessageType
  <2>3. PICK d \in Dialogs : d = opened
    BY <1>1
  <2>4. Asked({"deleteMessages"}, d, u)
    BY <1>1, <1>3, <2>2, <2>3, MadeOne DEF Methods
  <2>5. /\ {"deleteMessages"} \subseteq Methods \ {"sendMessage"}
        /\ {"deleteMessages"} \cap GroupSteps = {}
        /\ {"deleteMessages"} \cap DeletionSteps = {}
    BY DEF Methods, GroupSteps, DeletionSteps
  <2> QED BY <1>2, <2>4, <2>5, CallsAsked DEF IInv
<1>11. SameFiled(cache, r) /\ SameDialogs(cache, r)
  BY <1>4, <1>7 DEF SameFiled, SameDialogs
<1>12. CacheType'
  <2>1. requests <= requests' /\ requests' \in Nat
    BY <1>10 DEF CallsKept
  <2>2. FiledType(r, texts, requests')
    BY <1>3, <1>11, <2>1 DEF FiledType, SameFiled
  <2> QED BY <1>1, <1>2, <1>3, <1>7, <1>11, <2>2 DEF CacheType, DialogsType, SameDialogs
<1>13. OtherType'
  BY <1>1, <1>2 DEF IInv, Types, OtherType
<1> QED BY <1>1, <1>2, <1>8, <1>9, <1>10, <1>11, <1>12, <1>13, UserShrinks DEF SameDialogs

\* A secret chat is discarded, with or without its history.
LEMMA Discards ==
  ASSUME IInv, fault = NoFault, NEW d \in Secrets, Wish(d), NEW c, Discard(d, c),
         Shape(c), MessagesType(c), SameFiled(cache, c), Shrinks(cache, c, {d}),
         c.dialogs \subseteq cache.dialogs, c.chats \subseteq cache.chats,
         c.unread \subseteq cache.unread, c.deleteChatIds \subseteq cache.deleteChatIds,
         \A x \in DOMAIN cache.messages \ DOMAIN c.messages :
           IsTemp(x) => cache.messages[x].dialog = d
  PROVE  IInv'
<1>1. /\ UNCHANGED <<opened, cleanUpTimer, toClient, server, held, texts, stamps,
                      collisions, others>>
      /\ deletions' = deletions + 1 /\ forgotten' = forgotten \cup {d} /\ d \in Dialogs
      /\ cache' = c /\ MakeRequests(<<"discard">>, d, 0)
      /\ UNCHANGED <<failures, fault>>
  BY DEF Wish, Discard, Ask, Dialogs
<1>2. DialogsType(cache) /\ FiledType(cache, texts, requests) /\ requests \in Nat
  BY DEF IInv, Types, CacheType, NetType
<1>3. CallsKept
  <2>1. Asked({"discard"}, d, 0)
    BY <1>1, <1>2, MadeOne DEF Methods
  <2>2. {"discard"} \subseteq Methods \ {"sendMessage"} /\ {"discard"} \cap GroupSteps = {}
    BY DEF Methods, GroupSteps
  <2> QED BY <1>1, <2>1, <2>2, CallsAsked DEF IInv
<1>4. CacheType'
  <2>1. requests <= requests' /\ requests' \in Nat
    BY <1>3 DEF CallsKept
  <2>2. FiledType(c, texts, requests')
    BY <1>2, <2>1 DEF FiledType, SameFiled
  <2> QED BY <1>1, <1>2, <2>2 DEF CacheType, DialogsType
<1>5. OtherType'
  BY <1>1 DEF IInv, Types, OtherType
<1> QED BY <1>1, <1>3, <1>4, <1>5, UserShrinks

\* Deleting a chat keeps the invariant: a group is marked and a request
\* carries the deletion on; a secret chat is discarded at once.
LEMMA DeletesChat ==
  ASSUME IInv, fault = NoFault, NEW d \in Dialogs, DeleteChat(d)
  PROVE  IInv'
<1>1. CASE d \in Groups
  <2>1. Wish(d) /\ DeleteHistory(Seen(d), d, TRUE, FALSE, <<>>)
    BY <1>1, DialogsAssumption DEF DeleteChat
  <2> QED BY <1>1, <2>1, UserDeletes
<1>2. CASE d \in Secrets
  <2> DEFINE c == [Seen(d) EXCEPT !.deleteChatIds = @ \cup {d}]
             r == DeleteLocalHistory(c, d)
  <2>1. Wish(d) /\ Discard(d, r)
    BY <1>2 DEF DeleteChat
  <2>2. Shape(cache) /\ MessagesType(cache) /\ DialogsType(cache) /\ TempInv(cache, texts)
    BY DEF IInv, Types, CacheType
  <2>3. /\ Shape(c) /\ SameMessages(cache, c) /\ SameFiled(cache, c)
        /\ c.dialogs = cache.dialogs /\ c.chats = cache.chats /\ c.unread \subseteq cache.unread
        /\ c.deleteChatIds = cache.deleteChatIds \cup {d}
    BY <2>2 DEF Shape, SameMessages, SameFiled, Seen, GoneOf
  <2> HIDE DEF c
  <2>4. MessagesType(c) /\ TempInv(c, texts)
    BY <2>2, <2>3, TypeKept DEF TempInv, SameMessages
  <2>5. /\ Shape(r) /\ MessagesType(r) /\ SameFiled(c, r) /\ Shrinks(c, r, {d})
        /\ r.dialogs \subseteq c.dialogs /\ r.chats \subseteq c.chats
        /\ r.unread \subseteq c.unread /\ r.deleteChatIds = c.deleteChatIds \ {d}
        /\ \A x \in DOMAIN c.messages \ DOMAIN r.messages :
             IsTemp(x) => c.messages[x].dialog = d
    BY <2>3, <2>4, Cleared
  <2> HIDE DEF r
  <2>6. Shrinks(cache, r, {d}) /\ SameFiled(cache, r)
    BY <2>3, <2>5, ShrinksFrom DEF SameFiled
  <2>7. \A x \in DOMAIN cache.messages \ DOMAIN r.messages :
          IsTemp(x) => cache.messages[x].dialog = d
    BY <2>3, <2>5 DEF SameMessages
  <2> QED BY <1>2, <2>1, <2>3, <2>5, <2>6, <2>7, Discards
<1> QED BY <1>1, <1>2 DEF Dialogs

\* Clearing a history keeps the invariant.
LEMMA ClearsHistory ==
  ASSUME IInv, fault = NoFault, NEW d \in Dialogs, ClearHistory(d)
  PROVE  IInv'
<1>1. CASE d \in Groups
  <2>1. Wish(d) /\ DeleteHistory(Seen(d), d, FALSE, FALSE, <<>>)
    BY <1>1, DialogsAssumption DEF ClearHistory
  <2> QED BY <1>1, <2>1, UserDeletes
<1>2. CASE d \in Secrets
  <2> DEFINE c == Seen(d)
  <2>1. Wish(d) /\ Discard(d, c)
    BY <1>2 DEF ClearHistory
  <2>2. Shape(cache) /\ MessagesType(cache)
    BY DEF IInv, Types, CacheType
  <2>3. /\ Shape(c) /\ SameMessages(cache, c) /\ SameFiled(cache, c)
        /\ c.dialogs = cache.dialogs /\ c.chats = cache.chats /\ c.unread \subseteq cache.unread
        /\ c.deleteChatIds = cache.deleteChatIds
    BY <2>2 DEF Shape, SameMessages, SameFiled, Seen, GoneOf
  <2> HIDE DEF c
  <2>4. MessagesType(c) /\ Shrinks(cache, c, {})
    BY <2>2, <2>3, TypeKept, SameShrinks
  <2>5. Shrinks(cache, c, {d})
    BY <2>4 DEF Shrinks
  <2> QED BY <1>2, <2>1, <2>3, <2>4, <2>5, Discards DEF SameMessages
<1> QED BY <1>1, <1>2 DEF Dialogs

\* Leaving a group, which deletes its history in the same handler, keeps the
\* invariant.
LEMMA LeavesGroup ==
  ASSUME IInv, fault = NoFault, NEW d \in Dialogs, LeaveGroup(d)
  PROVE  IInv'
<1>1. d \in Groups /\ Wish(d) /\ DeleteHistory(cache, d, FALSE, FALSE, <<"deleteChatUser">>)
  BY DEF LeaveGroup
<1> QED BY <1>1, UserDeletes

\* Marking a dialog as read keeps the invariant.
LEMMA MarksRead ==
  ASSUME IInv, fault = NoFault, NEW d \in Dialogs, MarkRead(d)
  PROVE  IInv'
<1>1. /\ UNCHANGED <<opened, cleanUpTimer, toClient, server, held, texts, stamps, collisions,
                     deletions, forgotten, fault>>
      /\ others' = others + 1
  BY DEF MarkRead, AskThen
<1>2. PICK told \in Told(<<"readHistory">>) :
        AskThen(<<"readHistory">>, d, 0, told,
                [cache EXCEPT !.read_history_requests = Insert(@, told, d)])
  BY DEF MarkRead
<1>3. Shape(cache) /\ MessagesType(cache) /\ DialogsType(cache) /\ FiledType(cache, texts, requests)
      /\ requests \in Nat /\ failures \in Nat
  BY DEF IInv, Types, CacheType, NetType, OtherType
<1>4. /\ MakeRequests(<<"readHistory">>, d, 0) /\ failures' \in {failures, failures + 1}
      /\ told \in {requests + 1, Offline}
  BY <1>2, <1>3 DEF AskThen, Told
<1>5. /\ Shape(cache') /\ SameMessages(cache, cache') /\ SameDialogs(cache, cache')
      /\ cache'.pend_messages = cache.pend_messages
      /\ cache'.delete_history_requests = cache.delete_history_requests
      /\ DOMAIN cache'.read_history_requests = DOMAIN cache.read_history_requests \cup {told}
  BY <1>2, <1>3 DEF AskThen, Shape, SameMessages, SameDialogs, GoneOf, Insert
<1>6. Asked({"readHistory"}, d, 0) /\ requests' = requests + 1
  BY <1>3, <1>4, MadeOne DEF Methods
<1>7. CallsKept
  <2>1. {"readHistory"} \subseteq Methods \ {"sendMessage"} /\ {"readHistory"} \cap GroupSteps = {}
    BY DEF Methods, GroupSteps
  <2> QED BY <1>1, <1>6, <2>1, CallsAsked DEF IInv
<1>8. CacheType'
  <2>1. FiledType(cache', texts', requests')
    BY <1>1, <1>3, <1>4, <1>5, <1>6 DEF FiledType, Offline
  <2> QED BY <1>3, <1>5, <2>1, TypeKept DEF CacheType, DialogsType, SameDialogs
<1>9. OtherType'
  BY <1>1, <1>4 DEF IInv, Types, OtherType
<1>10. Shrinks(cache, cache', {}) /\ cache'.messages = cache.messages
  BY <1>3, <1>5, SameShrinks DEF SameMessages
<1>11. failures' = 0 => failures = 0
  BY <1>3, <1>4
<1> QED BY <1>1, <1>5, <1>7, <1>8, <1>9, <1>10, <1>11, UserShrinks DEF SameDialogs

-----------------------------------------------------------------------------
(* The timers, and the dialog that is shown.                               *)

\* Opening a dialog keeps the invariant.
LEMMA Opens ==
  ASSUME IInv, fault = NoFault, NEW d \in Dialogs \cup {NoDialog}, Open(d)
  PROVE  IInv'
<1>1. /\ UNCHANGED <<cache, fault, requests, calls, toClient, server, held, failures, texts,
                     stamps, collisions, deletions, forgotten>>
      /\ opened' = d /\ cleanUpTimer' = TRUE /\ others' = others + 1
  BY DEF Open, netVars
<1>2. CacheType'
  BY <1>1 DEF IInv, Types, CacheType
<1>3. OtherType'
  BY <1>1 DEF IInv, Types, OtherType
<1>4. CallsKept
  BY <1>1, NoCalls DEF NoRequest, IInv
<1>5. Shrinks(cache, cache', {})
  BY <1>1, SameShrinks DEF IInv, Types, CacheType, SameMessages
<1> QED BY <1>1, <1>2, <1>3, <1>4, <1>5, UserShrinks

\* Freeing the garbage keeps the invariant: what was garbage is gone still.
LEMMA FreesGarbages ==
  ASSUME IInv, fault = NoFault, FreeGarbages
  PROVE  IInv'
<1>1. /\ UNCHANGED <<fault, requests, calls, toClient, server, held, failures, texts,
                     stamps, collisions, deletions, forgotten, opened, cleanUpTimer, others>>
      /\ cache' = [cache EXCEPT !.garbages = {}, !.freed = @ \cup cache.garbages]
  BY DEF FreeGarbages, netVars, countVars
<1>2. Shape(cache) /\ MessagesType(cache) /\ DialogsType(cache) /\ FiledType(cache, texts, requests)
  BY DEF IInv, Types, CacheType
<1>3. /\ Shape(cache') /\ SameMessages(cache, cache') /\ SameDialogs(cache, cache')
      /\ SameFiled(cache, cache')
  BY <1>1, <1>2 DEF Shape, SameMessages, SameDialogs, SameFiled, GoneOf
<1>4. CacheType'
  BY <1>1, <1>2, <1>3, TypeKept DEF CacheType, DialogsType, SameDialogs, FiledType, SameFiled
<1>5. OtherType'
  BY <1>1 DEF IInv, Types, OtherType
<1>6. CallsKept
  BY <1>1, NoCalls DEF NoRequest, IInv
<1>7. Shrinks(cache, cache', {}) /\ cache'.messages = cache.messages
  BY <1>2, <1>3, SameShrinks DEF SameMessages
<1> QED BY <1>1, <1>3, <1>4, <1>5, <1>6, <1>7, UserShrinks DEF SameDialogs

\* The clean-up keeps the invariant: the messages that are neither locked nor
\* of the opened dialog go from map and lists alike, and their dialogs count
\* as forgotten.
LEMMA CleansUp ==
  ASSUME IInv, fault = NoFault, CleanUp
  PROVE  IInv'
<1> DEFINE kept == DOMAIN cache.messages \cap Locked
<1>1. /\ UNCHANGED <<opened, fault, requests, calls, toClient, server, held, failures, texts,
                     stamps, collisions, deletions, others>>
      /\ cleanUpTimer' = FALSE /\ forgotten' = forgotten \cup (Dialogs \ {opened})
  BY DEF CleanUp, netVars, countVars
<1>2. Shape(cache) /\ MessagesType(cache) /\ DialogsType(cache) /\ FiledType(cache, texts, requests)
      /\ TempInv(cache, texts)
  BY DEF IInv, Types, CacheType
<1>3. /\ Shape(cache') /\ SameDialogs(cache, cache') /\ SameFiled(cache, cache')
      /\ cache'.messages = [x \in kept |-> cache.messages[x]]
      /\ cache'.messages_list = [d \in Dialogs |-> cache.messages_list[d] \cap Locked]
      /\ cache'.database = cache.database
      /\ GoneOf(cache') = GoneOf(cache) \cup {x \in DOMAIN cache.messages \ Locked : IsTemp(x)}
  BY <1>2 DEF CleanUp, Shape, SameDialogs, SameFiled, GoneOf, Restrict
<1> HIDE DEF kept
<1>4. \A x \in DOMAIN cache.messages : IsTemp(x) => x \in Objects
  BY <1>2 DEF MessagesType, Ids, IsTemp, Temp, Objects
<1>5. MessagesType(cache')
  BY <1>2, <1>3, <1>4 DEF MessagesType, kept
<1>6. CacheType'
  BY <1>1, <1>2, <1>3, <1>5 DEF CacheType, DialogsType, SameDialogs, FiledType, SameFiled
<1>7. OtherType'
  BY <1>1 DEF IInv, Types, OtherType
<1>8. CallsKept
  BY <1>1, NoCalls DEF NoRequest, IInv
<1>9. Shrinks(cache, cache', {})
  <2>1. /\ IsRestriction(cache'.messages, cache.messages)
        /\ IsRestriction(cache'.database, cache.database)
    BY <1>3 DEF IsRestriction, kept
  <2>2. \A d \in Dialogs : \A id \in cache.messages_list[d] :
          id \in DOMAIN cache.messages =>
            (id \in cache'.messages_list[d] <=> id \in DOMAIN cache'.messages)
    BY <1>3 DEF kept
  <2>3. \A d \in Dialogs : cache'.messages_list[d] \subseteq cache.messages_list[d]
    BY <1>3
  <2>4. \A x \in GoneOf(cache') \ GoneOf(cache) :
          IsTemp(x) /\ x \in DOMAIN cache.messages \ DOMAIN cache'.messages
    BY <1>3 DEF kept
  <2> QED BY <1>3, <2>1, <2>2, <2>3, <2>4 DEF Shrinks
<1>10. \A x \in DOMAIN cache.messages \ DOMAIN cache'.messages :
         IsTemp(x) => cache.messages[x].dialog \in forgotten'
  <2>1. SUFFICES ASSUME NEW x \in DOMAIN cache.messages \ DOMAIN cache'.messages, IsTemp(x)
                 PROVE  cache.messages[x].dialog \in forgotten'
    OBVIOUS
  <2>2. cache.messages[x].dialog \in Dialogs /\ x \in cache.messages_list[cache.messages[x].dialog]
    BY <1>2, <2>1 DEF MessagesType, MessageType, TempInv, IsTemp, Ids, Temp
  <2>3. x \notin Locked
    BY <1>3 DEF kept
  <2>4. opened \in Dialogs => x \notin cache.messages_list[opened]
    BY <2>3, DialogsAssumption DEF Locked
  <2> QED BY <1>1, <2>2, <2>4
<1> QED BY <1>1, <1>3, <1>6, <1>7, <1>8, <1>9, <1>10, UserShrinks DEF SameDialogs

\* Asking for the list of dialogs keeps the invariant.
LEMMA UpdatesDialogs ==
  ASSUME IInv, fault = NoFault, UpdateDialogs
  PROVE  IInv'
<1>1. /\ UNCHANGED <<cache, opened, cleanUpTimer, fault, toClient, server, held, failures, texts,
                     stamps, collisions, deletions, forgotten>>
      /\ others' = others + 1 /\ MakeRequests(<<"getDialogs">>, NoDialog, 0)
  BY DEF UpdateDialogs
<1>2. Asked({"getDialogs"}, NoDialog, 0)
  BY <1>1, MadeOne DEF IInv, Types, NetType, Methods
<1>3. CallsKept
  <2>1. {"getDialogs"} \subseteq Methods \ {"sendMessage"} /\ {"getDialogs"} \cap GroupSteps = {}
    BY DEF Methods, GroupSteps
  <2> QED BY <1>1, <1>2, <2>1, CallsAsked DEF IInv
<1>4. CacheType'
  <2>1. requests \in Nat /\ requests <= requests' /\ requests' \in Nat
    BY <1>3 DEF CallsKept, IInv, Types, NetType
  <2> QED BY <1>1, <2>1 DEF IInv, Types, CacheType, FiledType
<1>5. OtherType'
  BY <1>1 DEF IInv, Types, OtherType
<1>6. Shrinks(cache, cache', {})
  BY <1>1, SameShrinks DEF IInv, Types, CacheType, SameMessages
<1> QED BY <1>1, <1>3, <1>4, <1>5, <1>6, UserShrinks

-----------------------------------------------------------------------------
(* ExecutesOther and updates.                                                    *)

\* What Receive does whatever the answer a.
Receiving(a) ==
  /\ toClient # <<>> /\ a = Head(toClient) /\ toClient' = Tail(toClient)
  /\ UNCHANGED <<opened, cleanUpTimer, server, texts, stamps, collisions, deletions, others,
                 forgotten>>
  /\ held' \subseteq held

\* The answer that is received is well formed, its facts are known, and what
\* is filed under its request is its own.
LEMMA AnswerKnown ==
  ASSUME IInv, NEW a, Receiving(a)
  PROVE  /\ a \in Coming /\ Coming = Coming' \cup {a} /\ AnswerOK(a)
         /\ FactsOfAnswer(a) \subseteq Facts /\ FiledIsForgotten(a.id, a.dialog)
<1>1. a \in Coming /\ Coming = Coming' \cup {a}
  BY Received DEF Receiving, IInv, Types, NetType
<1> QED BY <1>1 DEF IInv, Types, NetType, Facts, ForgetInv

\* ExecutesOther that make no request.
LEMMA ReceiveQuiet ==
  ASSUME IInv, NEW a, Receiving(a), UNCHANGED fault, NoRequest, CacheType', CacheKept,
         cache'.deleteChatIds \subseteq cache.deleteChatIds,
         IsRestriction(cache'.delete_history_requests, cache.delete_history_requests),
         DOMAIN cache.delete_history_requests
           \subseteq DOMAIN cache'.delete_history_requests \cup {a.id},
         \/ a.dialog \notin cache'.deleteChatIds
         \/ /\ ~AnswerTakesOn(a, a.dialog)
            /\ DOMAIN cache.delete_history_requests \subseteq DOMAIN cache'.delete_history_requests
  PROVE  IInv'
<1>1. /\ a \in Coming /\ Coming = Coming' \cup {a} /\ calls' = calls /\ failures' = failures
      /\ UNCHANGED <<server, texts, stamps, collisions, forgotten>>
  BY AnswerKnown DEF Receiving, NoRequest
<1>2. CallsKept
  BY <1>1, NoCalls DEF IInv
<1>3. OtherType'
  BY <1>1 DEF IInv, Types, OtherType, Receiving
<1>4. ForgetInv'
  BY <1>1, ForgetKept DEF IInv, ForgetInv, CacheKept
<1>5. MarksInv'
  <2>1. SUFFICES ASSUME failures = 0, fault = NoFault, NEW e \in cache'.deleteChatIds
                 PROVE  TakenOn(e)'
    BY <1>1 DEF MarksInv
  <2>2. TakenOn(e)
    BY <2>1 DEF IInv, MarksInv
  <2>3. \/ /\ ~AnswerTakesOn(a, e)
           /\ DOMAIN cache.delete_history_requests \subseteq DOMAIN cache'.delete_history_requests
        \/ /\ e # a.dialog
           /\ DOMAIN cache.delete_history_requests
                \subseteq DOMAIN cache'.delete_history_requests \cup {a.id}
    OBVIOUS
  <2> QED BY <1>1, <2>2, <2>3, TakenReceived DEF IInv
<1>6. FaultsNeedForgetting'
  BY <1>1 DEF IInv, FaultsNeedForgetting
<1> QED BY <1>1, <1>2, <1>3, <1>4, <1>5, <1>6, ClientStep DEF Receiving

\* What an operation leaves alone after messages came leaves them come.
LEMMA GainsTo ==
  ASSUME NEW b, NEW c, NEW r, NEW new, Gains(b, c, new), SameMessages(c, r)
  PROVE  Gains(b, r, new)
BY DEF Gains, SameMessages

\* An operation that leaves messages alone gains none.
LEMMA SameGains ==
  ASSUME NEW c, NEW r, MessagesType(c), SameMessages(c, r)
  PROVE  Gains(c, r, {})
BY DEF Gains, SameMessages, MessagesType

\* ExecutesOther that delete again, from a cache c that may have got a message.
LEMMA ReceiveDeletes ==
  ASSUME IInv, fault = NoFault, NEW a, Receiving(a), a.kind # "sendMessage",
         a.dialog \in Groups \cap forgotten,
         NEW c, Shape(c), MessagesType(c), DialogsType(c), FiledType(c, texts, requests),
         c.deleteChatIds = cache.deleteChatIds, c.pend_messages = cache.pend_messages,
         IsRestriction(c.delete_history_requests, cache.delete_history_requests),
         DOMAIN cache.delete_history_requests
           \subseteq DOMAIN c.delete_history_requests \cup {a.id},
         NEW new \in SUBSET Facts, Gains(cache, c, new),
         \A f \in new : f = Fact(f.id, f.dialog, f.text),
         NEW deleteChat \in BOOLEAN, NEW userRemoved \in BOOLEAN,
         DeleteHistory(c, a.dialog, deleteChat, userRemoved, <<>>)
  PROVE  IInv'
<1> DEFINE d == a.dialog
<1>1. /\ a \in Coming /\ Coming = Coming' \cup {a}
      /\ UNCHANGED <<server, texts, stamps, collisions, forgotten>>
      /\ toClient # <<>> /\ toClient' = Tail(toClient) /\ a = Head(toClient)
  BY AnswerKnown DEF Receiving
<1>2. CASE Fault("dialog", d)
  <2>1. OtherType'
    BY <1>1, <1>2 DEF IInv, Types, OtherType, Fault, NoRequest, Receiving, Dialogs
  <2>2. CallsKept /\ failures' = failures /\ cache' = cache
    BY <1>1, <1>2, NoCalls DEF Fault, NoRequest, IInv
  <2>3. QuietSends
    BY <1>1, <2>2, QuietReceived
  <2> QED BY <1>1, <1>2, <2>1, <2>3, Faulted
<1>3. CASE Deleting(c, d, IF deleteChat THEN c.deleteChatIds \cup {d} ELSE c.deleteChatIds)
  <2> DEFINE marks == IF deleteChat THEN c.deleteChatIds \cup {d} ELSE c.deleteChatIds
  <2>1. /\ fault' = fault /\ SameMessages(c, cache') /\ failures' \in {failures, failures + 1}
        /\ cache'.pend_messages = c.pend_messages /\ calls \subseteq calls'
        /\ Asked({"deleteChatUser", "readHistory", "getFullChat", "deleteHistory"}, d, 0)
        /\ DOMAIN c.delete_history_requests \subseteq DOMAIN cache'.delete_history_requests
    BY <1>3 DEF Deleting, Asked, Insert
  <2>2. OtherType'
    BY <1>1, <2>1 DEF IInv, Types, OtherType, Receiving
  <2>3. CallsKept
    <3>1. {"deleteChatUser", "readHistory", "getFullChat", "deleteHistory"}
             \subseteq Methods \ {"sendMessage"} /\ d \in Dialogs
      BY DEF Methods, Dialogs
    <3> QED BY <1>1, <2>1, <3>1, CallsAsked DEF IInv
  <2>4. QuietSends
    BY <1>1, <2>1, <2>3, QuietReceived DEF IInv, Types, OtherType
  <2>5. Gains(cache, cache', new)
    BY <2>1, GainsTo
  <2>6. CacheKept
    BY <2>4, <2>5, GainStep DEF IInv
  <2>7. ASSUME NEW e \in Dialogs \ {d}, TakenOn(e)
        PROVE  TakenOn(e)'
    <3>1. DOMAIN cache.delete_history_requests
            \subseteq DOMAIN cache'.delete_history_requests \cup {a.id}
      BY <2>1
    <3> QED BY <1>1, <2>1, <2>7, <3>1, TakenReceived DEF IInv
  <2>8. /\ Deleting(c, d, marks)
        /\ marks = cache.deleteChatIds \/ marks = cache.deleteChatIds \cup {d}
    BY <1>3
  <2> HIDE DEF marks
  <2> QED BY <1>1, <2>2, <2>6, <2>7, <2>8, DeletionStep
<1> QED BY <1>2, <1>3, Deletes DEF IInv

\* A message of the server comes into the cache, and nothing is requested.
LEMMA ReceiveGains ==
  ASSUME IInv, NEW a, Receiving(a), a.kind # "sendMessage", UNCHANGED fault, NoRequest,
         Shape(cache'), MessagesType(cache'), DialogsType(cache'),
         cache'.pend_messages = cache.pend_messages,
         cache'.delete_history_requests = cache.delete_history_requests,
         DOMAIN cache'.read_history_requests \subseteq DOMAIN cache.read_history_requests,
         cache'.deleteChatIds = cache.deleteChatIds,
         a.dialog \notin cache.deleteChatIds \/ ~AnswerTakesOn(a, a.dialog),
         NEW new \in SUBSET Facts, Gains(cache, cache', new),
         \A f \in new : f = Fact(f.id, f.dialog, f.text)
  PROVE  IInv'
<1>1. /\ toClient # <<>> /\ toClient' = Tail(toClient) /\ a = Head(toClient)
      /\ UNCHANGED <<texts, collisions, forgotten, requests, failures>>
  BY DEF Receiving, NoRequest
<1>2. CallsKept
  BY <1>1, NoCalls DEF IInv
<1>3. QuietSends
  BY <1>1, <1>2, QuietReceived
<1>4. CacheKept
  BY <1>3, GainStep DEF IInv
<1>5. CacheType'
  BY <1>1 DEF IInv, Types, CacheType, FiledType
<1> QED BY <1>4, <1>5, ReceiveQuiet DEF IsRestriction

\* An incoming message keeps the invariant, also when the secret chat's
\* object was freed and the handler fails.
LEMMA ReceivesMessage ==
  ASSUME IInv, fault = NoFault, NEW a, Receiving(a), OnMessage(a)
  PROVE  IInv'
<1> DEFINE d == a.dialog
           c == InsertMessage(cache, a.post, d, a.text, FALSE)
           new == {Fact(a.post, d, a.text)}
<1>1. /\ a \in Coming /\ AnswerOK(a) /\ FactsOfAnswer(a) \subseteq Facts /\ a.kind = "message"
  BY AnswerKnown DEF OnMessage
<1>2. /\ d \in Dialogs /\ a.post \in Ids /\ a.text \in Nat /\ a.kind # "sendMessage"
      /\ ~AnswerTakesOn(a, d)
  BY <1>1, DialogsAssumption DEF AnswerOK, AnswerType, AnswerTakesOn, Dialogs
<1>3. new \subseteq Facts /\ ~IsTemp(a.post)
  <2>1. Fact(a.post, d, a.text) \in Facts
    BY <1>1 DEF FactsOfAnswer, Posting
  <2> QED BY <2>1, FactIds DEF IInv, Fact
<1>4. Shape(cache) /\ MessagesType(cache) /\ DialogsType(cache)
  BY DEF IInv, Types, CacheType
<1>5. CASE Becomes(cache)
  <2>1. Gains(cache, cache', {})
    BY <1>4, <1>5, SameGains DEF Becomes, SameMessages
  <2> QED BY <1>2, <1>4, <1>5, <2>1, ReceiveGains DEF Becomes
<1>6. CASE d \in Secrets /\ d \in cache.freed /\ Fault("chat", d)
  <2>1. d \in forgotten /\ forgotten' = forgotten
    BY <1>6 DEF IInv, ForgetInv, GoneOf, Receiving
  <2>2. CallsKept /\ failures' = failures /\ cache' = cache
    BY <1>6, NoCalls DEF Fault, NoRequest, IInv, Receiving
  <2>3. QuietSends
    BY <1>2, <2>2, QuietReceived DEF Receiving
  <2>4. OtherType'
    BY <1>2, <1>6 DEF IInv, Types, OtherType, Fault, NoRequest, Receiving
  <2> QED BY <1>6, <2>1, <2>3, <2>4, Faulted DEF Receiving
<1>7. CASE Becomes([c EXCEPT !.dialogs = @ \cup {d}, !.topMessage[d] = a.post,
                             !.unread = @ \cup {d}])
  <2>1. /\ Shape(c) /\ MessagesType(c) /\ SameFiled(cache, c) /\ SameDialogs(cache, c)
        /\ Gains(cache, c, new)
    BY <1>2, <1>3, <1>4, Inserted
  <2> HIDE DEF c
  <2>2. /\ UNCHANGED fault /\ NoRequest
        /\ Shape(cache') /\ SameMessages(c, cache') /\ SameFiled(c, cache')
        /\ cache'.dialogs = c.dialogs \cup {d} /\ cache'.unread = c.unread \cup {d}
        /\ cache'.chats = c.chats /\ cache'.deleteChatIds = c.deleteChatIds
    BY <1>7, <2>1 DEF Becomes, Shape, SameMessages, SameFiled, GoneOf
  <2>3. MessagesType(cache') /\ Gains(cache, cache', new)
    BY <2>1, <2>2, TypeKept, GainsTo
  <2>4. DialogsType(cache')
    BY <1>2, <1>4, <2>1, <2>2 DEF DialogsType, SameDialogs
  <2>5. \A f \in new : f = Fact(f.id, f.dialog, f.text)
    BY DEF Fact
  <2> HIDE DEF new
  <2> QED BY <1>2, <1>3, <2>1, <2>2, <2>3, <2>4, <2>5, ReceiveGains DEF SameFiled, SameDialogs
<1> QED BY <1>5, <1>6, <1>7 DEF OnMessage

\* The answer to readHistory keeps the invariant: the deletion that waited
\* for it is carried on by another request.
LEMMA ReceivesRead ==
  ASSUME IInv, fault = NoFault, NEW a, Receiving(a), OnRead(a)
  PROVE  IInv'
<1> DEFINE d == a.dialog
           Read(c) ==
             [c EXCEPT !.unread = IF Has(c.read_history_requests, a.id) THEN @ \ {d} ELSE @,
                       !.read_history_requests = Remove(@, a.id)]
           c == [Read(cache) EXCEPT !.delete_history_requests = Remove(@, a.id)]
<1>1. /\ a \in Coming /\ AnswerOK(a) /\ a.kind = "readHistory" /\ FiledIsForgotten(a.id, d)
  BY AnswerKnown DEF OnRead
<1>2. Shape(cache) /\ MessagesType(cache) /\ DialogsType(cache) /\ FiledType(cache, texts, requests)
  BY DEF IInv, Types, CacheType
<1>3. /\ Shape(Read(cache)) /\ SameMessages(cache, Read(cache))
      /\ Read(cache).dialogs = cache.dialogs /\ Read(cache).chats = cache.chats
      /\ Read(cache).unread \subseteq cache.unread
      /\ Read(cache).deleteChatIds = cache.deleteChatIds
      /\ Read(cache).pend_messages = cache.pend_messages
      /\ Read(cache).delete_history_requests = cache.delete_history_requests
      /\ DOMAIN Read(cache).read_history_requests \subseteq DOMAIN cache.read_history_requests
  BY <1>2 DEF Shape, SameMessages, GoneOf, Remove
<1>4. CASE Has(cache.delete_history_requests, a.id)
  <2>1. DeleteHistory(c, d, FALSE, FALSE, <<>>)
    BY <1>4 DEF OnRead
  <2>2. d \in Groups \cap forgotten
    BY <1>1, <1>2, <1>4 DEF FiledIsForgotten, FiledType, Has
  <2>3. /\ Shape(c) /\ SameMessages(cache, c)
        /\ c.dialogs = cache.dialogs /\ c.chats = cache.chats /\ c.unread \subseteq cache.unread
        /\ c.deleteChatIds = cache.deleteChatIds /\ c.pend_messages = cache.pend_messages
        /\ c.delete_history_requests =
             [x \in DOMAIN cache.delete_history_requests \ {a.id} |->
                cache.delete_history_requests[x]]
        /\ DOMAIN c.read_history_requests \subseteq DOMAIN cache.read_history_requests
    BY <1>3 DEF Shape, SameMessages, GoneOf, Remove
  <2> HIDE DEF c
  <2>4. /\ MessagesType(c) /\ DialogsType(c) /\ FiledType(c, texts, requests)
        /\ IsRestriction(c.delete_history_requests, cache.delete_history_requests)
        /\ DOMAIN cache.delete_history_requests
             \subseteq DOMAIN c.delete_history_requests \cup {a.id}
    BY <1>2, <2>3, TypeKept DEF DialogsType, FiledType, IsRestriction
  <2>5. Gains(cache, c, {}) /\ FALSE \in BOOLEAN
    BY <1>2, <2>3, SameGains
  <2>6. {} \in SUBSET Facts /\ \A f \in {} : f = Fact(f.id, f.dialog, f.text)
    OBVIOUS
  <2>7. a.kind # "sendMessage"
    BY <1>1
  <2> QED BY <2>1, <2>2, <2>3, <2>4, <2>5, <2>6, <2>7, ReceiveDeletes
<1>5. CASE ~Has(cache.delete_history_requests, a.id)
  <2>1. cache' = Read(cache) /\ UNCHANGED fault /\ NoRequest
    BY <1>5 DEF OnRead, Becomes
  <2> HIDE DEF Read
  <2>2. MessagesType(cache') /\ Gains(cache, cache', {})
    BY <1>2, <1>3, <2>1, TypeKept, SameGains
  <2>3. ~AnswerTakesOn(a, d)
    BY <1>1, <1>5 DEF AnswerTakesOn, Has
  <2>4. DialogsType(cache')
    BY <1>2, <1>3, <2>1 DEF DialogsType
  <2> QED BY <1>1, <1>3, <2>1, <2>2, <2>3, <2>4, ReceiveGains
<1> QED BY <1>4, <1>5

\* The answer to getFullChat keeps the invariant: a marked chat is left
\* first, or its history is deleted.
LEMMA ReceivesFullChat ==
  ASSUME IInv, fault = NoFault, NEW a, Receiving(a), OnFullChat(a)
  PROVE  IInv'
<1> DEFINE d == a.dialog
           c == [cache EXCEPT !.chats = @ \cup {d}]
<1>1. /\ a \in Coming /\ Coming = Coming' \cup {a} /\ AnswerOK(a) /\ a.kind = "getFullChat"
      /\ d \in Groups /\ a.kind # "sendMessage"
  BY AnswerKnown DEF OnFullChat, AnswerOK, GroupSteps
<1>2. Shape(cache) /\ MessagesType(cache) /\ DialogsType(cache) /\ FiledType(cache, texts, requests)
  BY DEF IInv, Types, CacheType
<1>3. /\ Shape(c) /\ SameMessages(cache, c) /\ SameFiled(cache, c)
      /\ c.dialogs = cache.dialogs /\ c.unread = cache.unread
      /\ c.chats = cache.chats \cup {d} /\ c.deleteChatIds = cache.deleteChatIds
  BY <1>2 DEF Shape, SameMessages, SameFiled, GoneOf
<1>4. /\ d \notin cache.deleteChatIds /\ Becomes(c)
      \/ /\ d \in cache.deleteChatIds /\ a.text = 1 /\ Ask(<<"deleteChatUser">>, d, 0, c)
      \/ /\ d \in cache.deleteChatIds /\ DeleteHistory(c, d, TRUE, TRUE, <<>>)
  BY DEF OnFullChat
<1> HIDE DEF c
<1>5. /\ MessagesType(c) /\ DialogsType(c) /\ FiledType(c, texts, requests)
      /\ Gains(cache, c, {}) /\ Shrinks(cache, c, {})
  BY <1>1, <1>2, <1>3, TypeKept, SameGains, SameShrinks DEF DialogsType, FiledType, SameFiled
<1>6. CASE d \notin cache.deleteChatIds /\ Becomes(c)
  <2>1. cache' = c /\ UNCHANGED fault /\ NoRequest
    BY <1>6 DEF Becomes
  <2> QED BY <1>1, <1>3, <1>5, <1>6, <2>1, ReceiveGains DEF SameFiled
<1>7. CASE d \in cache.deleteChatIds /\ DeleteHistory(c, d, TRUE, TRUE, <<>>)
  <2>1. d \in forgotten
    BY <1>7 DEF IInv, ForgetInv
  <2>2. /\ IsRestriction(c.delete_history_requests, cache.delete_history_requests)
        /\ DOMAIN cache.delete_history_requests
             \subseteq DOMAIN c.delete_history_requests \cup {a.id}
        /\ c.pend_messages = cache.pend_messages /\ TRUE \in BOOLEAN
    BY <1>3 DEF SameFiled, IsRestriction
  <2>3. {} \in SUBSET Facts /\ \A f \in {} : f = Fact(f.id, f.dialog, f.text)
    OBVIOUS
  <2> QED BY <1>1, <1>3, <1>5, <1>7, <2>1, <2>2, <2>3, ReceiveDeletes
<1>8. CASE d \in cache.deleteChatIds /\ a.text = 1 /\ Ask(<<"deleteChatUser">>, d, 0, c)
  <2>1. /\ MakeRequests(<<"deleteChatUser">>, d, 0) /\ cache' = c /\ UNCHANGED <<failures, fault>>
        /\ UNCHANGED <<server, texts, stamps, collisions, forgotten>>
        /\ toClient # <<>> /\ toClient' = Tail(toClient) /\ a = Head(toClient)
    BY <1>8 DEF Ask, Receiving
  <2>2. requests \in Nat
    BY DEF IInv, Types, NetType
  <2>3. /\ Asked({"deleteChatUser"}, d, 0)
        /\ calls' = calls \cup {Call("deleteChatUser", requests + 1, d, 0)}
    <3>1. calls' = calls \cup {Call("deleteChatUser", requests + 1, d, 0)}
      BY <2>1 DEF MakeRequests
    <3> QED BY <2>1, <2>2, <3>1, MadeOne DEF Methods
  <2>4. CallsKept
    <3>1. {"deleteChatUser"} \subseteq Methods \ {"sendMessage"} /\ d \in Dialogs
      BY <1>1 DEF Methods, Dialogs
    <3> QED BY <1>1, <2>1, <2>3, <3>1, CallsAsked DEF IInv
  <2>5. OtherType'
    BY <2>1 DEF IInv, Types, OtherType, Receiving
  <2>6. CacheType'
    <3>1. FiledType(c, texts, requests')
      BY <1>5, <2>2, <2>4 DEF FiledType, CallsKept
    <3> QED BY <1>3, <1>5, <2>1, <3>1 DEF CacheType
  <2>7. QuietSends
    BY <1>1, <1>3, <2>1, <2>4, QuietReceived DEF SameFiled
  <2>8. CacheKept
    BY <1>3, <1>5, <2>1, <2>7, ShrinkStep DEF IInv, SameMessages
  <2>9. ForgetInv'
    BY <1>1, <1>3, <2>1, <2>4, <2>8, ForgetKept
       DEF IInv, ForgetInv, CallsKept, CacheKept, SameFiled, IsRestriction
  <2>10. MarksInv'
    <3>1. SUFFICES ASSUME failures = 0, NEW e \in cache.deleteChatIds
                   PROVE  TakenOn(e)'
      BY <1>3, <2>1 DEF MarksInv
    <3>2. TakenOn(e)
      BY <3>1 DEF IInv, MarksInv
    <3>3. DOMAIN cache.delete_history_requests \subseteq DOMAIN cache'.delete_history_requests
      BY <1>3, <2>1 DEF SameFiled
    <3>4. CASE e # d \/ ~AnswerTakesOn(a, d)
      BY <1>1, <2>1, <2>3, <3>2, <3>3, <3>4, TakenReceived DEF IInv
    <3>5. CASE e = d /\ AnswerTakesOn(a, d)
      <4>1. d \in server.members
        BY <1>1, <1>8, <3>5 DEF AnswerTakesOn
      <4>2. PICK r \in calls' : r = Call("deleteChatUser", requests + 1, d, 0)
        BY <2>3
      <4>3. r.method = "deleteChatUser" /\ r.dialog = d
        BY <4>2 DEF Call
      <4> QED BY <2>1, <3>5, <4>1, <4>3 DEF TakenOn, CallTakesOn
    <3> QED BY <3>4, <3>5
  <2>11. FaultsNeedForgetting'
    BY <2>1 DEF IInv, FaultsNeedForgetting
  <2> QED BY <2>1, <2>4, <2>5, <2>6, <2>8, <2>9, <2>10, <2>11, ClientStep
<1> QED BY <1>4, <1>6, <1>7, <1>8

\* An update with a message: the cache gains the fact of it, and the chat.
LEMMA Updated ==
  ASSUME IInv, NEW a, Receiving(a), a.kind \in {"message", "deleteChatUser"}, IsUpdate(a.post)
  PROVE  LET c   == WithUpdate(cache, a)
             new == {Fact(a.post, a.dialog, a.text)}
         IN  /\ Shape(c) /\ MessagesType(c) /\ DialogsType(c) /\ FiledType(c, texts, requests)
             /\ Gains(cache, c, new) /\ SameFiled(cache, c)
             /\ c.deleteChatIds = cache.deleteChatIds
             /\ new \in SUBSET Facts /\ \A f \in new : f = Fact(f.id, f.dialog, f.text)
<1> DEFINE d == a.dialog
           b == InsertMessage(cache, a.post, d, a.text, TRUE)
           c == [b EXCEPT !.chats = @ \cup {d}]
           new == {Fact(a.post, d, a.text)}
<1>1. /\ a \in Coming /\ AnswerOK(a) /\ FactsOfAnswer(a) \subseteq Facts
  BY AnswerKnown
<1>2. d \in Groups /\ d \in Dialogs /\ a.post \in Ids /\ a.text \in Nat
  BY <1>1 DEF AnswerOK, AnswerType, DeletionSteps, Dialogs
<1>3. new \in SUBSET Facts /\ \A f \in new : f = Fact(f.id, f.dialog, f.text)
  <2>1. Fact(a.post, d, a.text) \in Facts
    BY <1>1 DEF FactsOfAnswer, Posting
  <2> QED BY <2>1 DEF Fact
<1>4. Shape(cache) /\ MessagesType(cache) /\ DialogsType(cache) /\ FiledType(cache, texts, requests)
  BY DEF IInv, Types, CacheType
<1>5. /\ Shape(b) /\ MessagesType(b) /\ SameFiled(cache, b) /\ SameDialogs(cache, b)
      /\ Gains(cache, b, new)
  BY <1>2, <1>4, InsertedUpdate
<1>6. c = WithUpdate(cache, a)
  BY DEF WithUpdate
<1> HIDE DEF b
<1>7. /\ Shape(c) /\ SameMessages(b, c) /\ SameFiled(b, c)
      /\ c.dialogs = b.dialogs /\ c.unread = b.unread
      /\ c.chats = b.chats \cup {d} /\ c.deleteChatIds = b.deleteChatIds
  BY <1>5 DEF Shape, SameMessages, SameFiled, GoneOf
<1> HIDE DEF c, new
<1>8. /\ MessagesType(c) /\ DialogsType(c) /\ FiledType(c, texts, requests)
      /\ Gains(cache, c, new) /\ SameFiled(cache, c) /\ c.deleteChatIds = cache.deleteChatIds
  BY <1>2, <1>4, <1>5, <1>7, TypeKept, GainsTo DEF DialogsType, FiledType, SameFiled, SameDialogs
<1> QED BY <1>3, <1>6, <1>7, <1>8 DEF new

\* A message that comes in an update keeps the invariant: it is only listed.
LEMMA ReceivesUpdate ==
  ASSUME IInv, NEW a, Receiving(a), OnUpdate(a)
  PROVE  IInv'
<1> DEFINE c == WithUpdate(cache, a)
           new == {Fact(a.post, a.dialog, a.text)}
<1>1. /\ a.kind = "message" /\ a.kind # "sendMessage" /\ IsUpdate(a.post)
      /\ cache' = c /\ UNCHANGED fault /\ NoRequest /\ ~AnswerTakesOn(a, a.dialog)
  BY DEF OnUpdate, Becomes, AnswerTakesOn
<1>2. /\ Shape(c) /\ MessagesType(c) /\ DialogsType(c)
      /\ Gains(cache, c, new) /\ SameFiled(cache, c) /\ c.deleteChatIds = cache.deleteChatIds
      /\ new \in SUBSET Facts /\ \A f \in new : f = Fact(f.id, f.dialog, f.text)
  BY <1>1, Updated
<1> HIDE DEF c, new
<1> QED BY <1>1, <1>2, ReceiveGains DEF SameFiled

\* The answer to deleteChatUser keeps the invariant: its message is listed,
\* and a marked chat's history is deleted.
LEMMA ReceivesLeft ==
  ASSUME IInv, fault = NoFault, NEW a, Receiving(a), OnLeft(a)
  PROVE  IInv'
<1> DEFINE d == a.dialog
           c == WithUpdate(cache, a)
           new == {Fact(a.post, d, a.text)}
<1>1. /\ a \in Coming /\ AnswerOK(a) /\ a.kind = "deleteChatUser" /\ a.kind # "sendMessage"
  BY AnswerKnown DEF OnLeft
<1>2. d \in Groups /\ d \in Dialogs /\ IsUpdate(a.post)
  BY <1>1 DEF AnswerOK, GroupSteps, Dialogs
<1>3. \/ d \in cache.deleteChatIds /\ DeleteHistory(c, d, TRUE, TRUE, <<>>)
      \/ d \notin cache.deleteChatIds /\ Becomes(c)
  BY DEF OnLeft
<1>4. /\ Shape(c) /\ MessagesType(c) /\ DialogsType(c) /\ FiledType(c, texts, requests)
      /\ Gains(cache, c, new) /\ SameFiled(cache, c) /\ c.deleteChatIds = cache.deleteChatIds
  BY <1>1, <1>2, Updated
<1>5. new \in SUBSET Facts /\ \A f \in new : f = Fact(f.id, f.dialog, f.text)
  BY <1>1, <1>2, Updated
<1> HIDE DEF c, new
<1>6. CASE d \in cache.deleteChatIds /\ DeleteHistory(c, d, TRUE, TRUE, <<>>)
  <2>1. d \in forgotten
    BY <1>6 DEF IInv, ForgetInv
  <2>2. /\ IsRestriction(c.delete_history_requests, cache.delete_history_requests)
        /\ DOMAIN cache.delete_history_requests
             \subseteq DOMAIN c.delete_history_requests \cup {a.id}
        /\ c.pend_messages = cache.pend_messages /\ TRUE \in BOOLEAN
    BY <1>4 DEF SameFiled, IsRestriction
  <2> QED BY <1>1, <1>2, <1>5, <1>4, <1>6, <2>1, <2>2, ReceiveDeletes
<1>7. CASE d \notin cache.deleteChatIds /\ Becomes(c)
  <2>1. cache' = c /\ UNCHANGED fault /\ NoRequest
    BY <1>7 DEF Becomes
  <2> QED BY <1>1, <1>5, <1>4, <1>7, <2>1, ReceiveGains DEF SameFiled
<1> QED BY <1>3, <1>6, <1>7

\* The history of a dialog is taken out of the cache, from a cache c that
\* differs from the one before in what is filed for the answer.
LEMMA ReceiveClears ==
  ASSUME IInv, fault = NoFault, NEW a, Receiving(a), a.kind # "sendMessage",
         a.dialog \in Dialogs \cap forgotten,
         NEW c, Shape(c), SameMessages(cache, c), SameDialogs(cache, c),
         c.pend_messages = cache.pend_messages,
         DOMAIN c.read_history_requests \subseteq DOMAIN cache.read_history_requests,
         IsRestriction(c.delete_history_requests, cache.delete_history_requests),
         c.delete_history_requests \in [DOMAIN c.delete_history_requests -> Groups],
         DOMAIN cache.delete_history_requests
           \subseteq DOMAIN c.delete_history_requests \cup {a.id},
         Becomes(DeleteLocalHistory(c, a.dialog))
  PROVE  IInv'
<1> DEFINE d == a.dialog
           r == DeleteLocalHistory(c, d)
<1>1. MessagesType(cache) /\ DialogsType(cache) /\ FiledType(cache, texts, requests)
      /\ TempInv(cache, texts)
  BY DEF IInv, Types, CacheType
<1>2. MessagesType(c) /\ TempInv(c, texts)
  BY <1>1, TypeKept DEF TempInv, SameMessages
<1>3. /\ Shape(r) /\ MessagesType(r) /\ SameFiled(c, r) /\ Shrinks(c, r, {d})
      /\ r.dialogs \subseteq c.dialogs /\ r.chats \subseteq c.chats
      /\ r.unread \subseteq c.unread /\ r.deleteChatIds = c.deleteChatIds \ {d}
      /\ \A x \in DOMAIN c.messages \ DOMAIN r.messages : IsTemp(x) => c.messages[x].dialog = d
  BY <1>2, Cleared
<1>4. cache' = r /\ UNCHANGED fault /\ NoRequest
  BY DEF Becomes
<1> HIDE DEF r
<1>5. /\ UNCHANGED <<texts, collisions, forgotten, requests, failures>>
      /\ toClient # <<>> /\ toClient' = Tail(toClient) /\ a = Head(toClient)
  BY <1>4 DEF Receiving, NoRequest
<1>6. CallsKept
  BY <1>4, <1>5, NoCalls DEF IInv
<1>7. QuietSends
  BY <1>3, <1>4, <1>5, <1>6, QuietReceived DEF SameFiled
<1>8. Shrinks(cache, cache', {d}) /\ {d} \subseteq forgotten'
  BY <1>3, <1>4, <1>5, ShrinksFrom
<1>9. \A s \in Sends' : Temp(s.text) \in DOMAIN cache.messages \ DOMAIN cache'.messages =>
        cache.messages[Temp(s.text)].dialog \in forgotten'
  <2>1. \A s \in Sends' : IsTemp(Temp(s.text))
    BY <1>7, SendsType, TempIds DEF QuietSends, IInv
  <2> QED BY <1>3, <1>4, <1>5, <2>1 DEF SameMessages
<1>10. CacheKept
  BY <1>7, <1>8, <1>9, ShrinkStep DEF IInv
<1>11. CacheType'
  <2>1. FiledType(cache', texts', requests')
    BY <1>1, <1>3, <1>4, <1>5 DEF FiledType, SameFiled, IsRestriction
  <2>2. DialogsType(cache')
    BY <1>1, <1>3, <1>4 DEF DialogsType, SameDialogs
  <2> QED BY <1>3, <1>4, <2>1, <2>2 DEF CacheType
<1>12. /\ cache'.deleteChatIds \subseteq cache.deleteChatIds /\ d \notin cache'.deleteChatIds
       /\ cache'.delete_history_requests = c.delete_history_requests
  BY <1>3, <1>4 DEF SameDialogs, SameFiled
<1> QED BY <1>4, <1>10, <1>11, <1>12, ReceiveQuiet

\* The answer to deleteHistory keeps the invariant: the history goes, and the
\* mark with it.
LEMMA ReceivesHistoryDeleted ==
  ASSUME IInv, fault = NoFault, NEW a, Receiving(a), OnHistoryDeleted(a)
  PROVE  IInv'
<1> DEFINE c == [cache EXCEPT !.delete_history_requests = Remove(@, a.id)]
<1>1. /\ a \in Coming /\ AnswerOK(a) /\ a.kind = "deleteHistory"
      /\ a.kind # "sendMessage" /\ FiledIsForgotten(a.id, a.dialog)
  BY AnswerKnown DEF OnHistoryDeleted
<1>2. a.dialog \in Dialogs
  BY <1>1 DEF AnswerOK
<1>3. Shape(cache) /\ MessagesType(cache) /\ DialogsType(cache) /\ FiledType(cache, texts, requests)
  BY DEF IInv, Types, CacheType
<1>4. CASE Has(cache.delete_history_requests, a.id)
  <2>1. Becomes(DeleteLocalHistory(c, a.dialog))
    BY <1>4 DEF OnHistoryDeleted
  <2>2. /\ Shape(c) /\ SameMessages(cache, c) /\ SameDialogs(cache, c)
        /\ c.pend_messages = cache.pend_messages
        /\ c.read_history_requests = cache.read_history_requests
        /\ c.delete_history_requests =
             [x \in DOMAIN cache.delete_history_requests \ {a.id} |->
                cache.delete_history_requests[x]]
    BY <1>3 DEF Shape, SameMessages, SameDialogs, GoneOf, Remove
  <2> HIDE DEF c
  <2>3. /\ IsRestriction(c.delete_history_requests, cache.delete_history_requests)
        /\ c.delete_history_requests \in [DOMAIN c.delete_history_requests -> Groups]
        /\ DOMAIN cache.delete_history_requests
             \subseteq DOMAIN c.delete_history_requests \cup {a.id}
    BY <1>3, <2>2 DEF FiledType, IsRestriction
  <2>4. a.dialog \in forgotten
    BY <1>1, <1>4 DEF FiledIsForgotten, Has
  <2> QED BY <1>1, <1>2, <2>1, <2>2, <2>3, <2>4, ReceiveClears
<1>5. CASE ~Has(cache.delete_history_requests, a.id)
  <2>1. cache' = cache /\ UNCHANGED fault /\ NoRequest
    BY <1>5 DEF OnHistoryDeleted, Becomes
  <2>2. Gains(cache, cache', {})
    BY <1>3, <2>1, SameGains DEF SameMessages
  <2>3. ~AnswerTakesOn(a, a.dialog)
    BY <1>1, <1>5 DEF AnswerTakesOn, Has
  <2> QED BY <1>1, <1>3, <2>1, <2>2, <2>3, ReceiveGains
<1> QED BY <1>4, <1>5

\* The answer to the discarding of a secret chat keeps the invariant.
LEMMA ReceivesDiscarded ==
  ASSUME IInv, fault = NoFault, NEW a, Receiving(a), OnDiscarded(a)
  PROVE  IInv'
<1>1. /\ a \in Coming /\ AnswerOK(a) /\ a.kind = "discard" /\ a.kind # "sendMessage"
  BY AnswerKnown DEF OnDiscarded
<1>2. a.dialog \in Dialogs
  BY <1>1 DEF AnswerOK
<1>3. Shape(cache) /\ MessagesType(cache) /\ DialogsType(cache) /\ FiledType(cache, texts, requests)
  BY DEF IInv, Types, CacheType
<1>4. CASE a.dialog \in cache.freed /\ Fault("chat", a.dialog)
  <2>1. a.dialog \in forgotten /\ forgotten' = forgotten
    <3>1. a.dialog \in Secrets
      BY <1>2, <1>3, <1>4, ObjectsAssumption DEF MessagesType, GoneOf, Objects, Temp
    <3> QED BY <1>4, <3>1 DEF IInv, ForgetInv, GoneOf, Receiving
  <2>2. CallsKept /\ failures' = failures /\ cache' = cache
    BY <1>4, NoCalls DEF Fault, NoRequest, IInv, Receiving
  <2>3. QuietSends
    BY <1>1, <2>2, QuietReceived DEF Receiving
  <2>4. OtherType'
    BY <1>2, <1>4 DEF IInv, Types, OtherType, Fault, NoRequest, Receiving
  <2> QED BY <1>4, <2>1, <2>3, <2>4, Faulted DEF Receiving
<1>5. CASE a.dialog \in cache.deleteChatIds /\ Becomes(DeleteLocalHistory(cache, a.dialog))
  <2>1. a.dialog \in forgotten
    BY <1>5 DEF IInv, ForgetInv
  <2>2. /\ SameMessages(cache, cache) /\ SameDialogs(cache, cache)
        /\ IsRestriction(cache.delete_history_requests, cache.delete_history_requests)
        /\ cache.delete_history_requests \in [DOMAIN cache.delete_history_requests -> Groups]
    BY <1>3 DEF SameMessages, SameDialogs, IsRestriction, FiledType
  <2> QED BY <1>1, <1>2, <1>3, <1>5, <2>1, <2>2, ReceiveClears
<1>6. CASE Becomes(cache)
  <2>1. cache' = cache /\ UNCHANGED fault /\ NoRequest
    BY <1>6 DEF Becomes
  <2>2. Gains(cache, cache', {})
    BY <1>3, <2>1, SameGains DEF SameMessages
  <2>3. ~AnswerTakesOn(a, a.dialog)
    BY <1>1 DEF AnswerTakesOn
  <2> QED BY <1>1, <1>3, <2>1, <2>2, <2>3, ReceiveGains
<1> QED BY <1>4, <1>5, <1>6 DEF OnDiscarded

\* The messages on top of the dialogs that the server lists.
LEMMA ToppedGains ==
  ASSUME IInv, NEW c, Shape(c), MessagesType(c), NEW entries \in SUBSET EntryType,
         FactsOfList(entries) \subseteq Facts
  PROVE  LET r == InsertTops(c, entries)
         IN  /\ Shape(r) /\ MessagesType(r) /\ SameFiled(c, r) /\ SameDialogs(c, r)
             /\ Gains(c, r, FactsOfList(entries))
<1> DEFINE tops == {[dialog |-> e.dialog, text |-> e.top.text, post |-> e.top.post] :
                      e \in {x \in entries : x.top.post # NoId}}
           Top(id) == CHOOSE t \in tops : t.post = id
           ids == {t.post : t \in tops}
           all == [id \in ids |-> [dialog |-> Top(id).dialog, text |-> Top(id).text]]
           Merge(m) == [id \in DOMAIN m \cup ids |-> IF id \in ids THEN all[id] ELSE m[id]]
           r == InsertTops(c, entries)
           new == FactsOfList(entries)
<1>1. /\ Shape(r) /\ SameFiled(c, r) /\ SameDialogs(c, r)
      /\ r.messages = Merge(c.messages) /\ r.database = Merge(c.database)
      /\ r.messages_list =
           [d \in Dialogs |->
              c.messages_list[d] \cup {id \in ids \ DOMAIN c.messages : all[id].dialog = d}]
      /\ GoneOf(r) = GoneOf(c)
  BY DEF InsertTops, Shape, SameFiled, SameDialogs, GoneOf
<1>2. \A t \in tops : /\ t.dialog \in Dialogs /\ t.text \in Nat /\ t.post \in Ids
                      /\ Fact(t.post, t.dialog, t.text) \in new
  BY DEF EntryType, Dialogs, FactsOfList
<1>3. ids = {f.id : f \in new}
  <2>1. ASSUME NEW t \in tops
        PROVE  t.post \in {f.id : f \in new}
    <3>1. Fact(t.post, t.dialog, t.text) \in new /\ Fact(t.post, t.dialog, t.text).id = t.post
      BY <1>2 DEF Fact
    <3> QED BY <3>1
  <2>2. ASSUME NEW f \in new
        PROVE  f.id \in ids
    <3>1. PICK e \in {x \in entries : x.top.post # NoId} :
            f = Fact(e.top.post, e.dialog, e.top.text)
      BY DEF FactsOfList
    <3>2. [dialog |-> e.dialog, text |-> e.top.text, post |-> e.top.post] \in tops
      BY <3>1
    <3>3. e.top.post \in ids
      BY <3>2
    <3> QED BY <3>1, <3>3 DEF Fact
  <2> QED BY <2>1, <2>2
<1> HIDE DEF tops, r, new
<1>4. \A id \in ids : Top(id) \in tops /\ Top(id).post = id
  OBVIOUS
<1>5. \A id \in ids : all[id] \in MessageType /\ Fact(id, all[id].dialog, all[id].text) \in new
                      /\ id \in Ids
  BY <1>2, <1>4 DEF MessageType
<1>6. \A id \in ids : ~IsTemp(id)
  BY <1>3, FactIds DEF IInv, new
<1> HIDE DEF all, ids
<1>7. /\ DOMAIN r.messages = DOMAIN c.messages \cup ids
      /\ DOMAIN r.database = DOMAIN c.database \cup ids
      /\ \A id \in DOMAIN c.messages \ ids : r.messages[id] = c.messages[id]
      /\ \A id \in DOMAIN c.database \ ids : r.database[id] = c.database[id]
      /\ \A id \in ids : r.messages[id] = all[id] /\ r.database[id] = all[id]
  BY <1>1
<1>8. MessagesType(r)
  <2>1. r.messages \in [DOMAIN r.messages -> MessageType] /\ DOMAIN r.messages \subseteq Ids
    BY <1>1, <1>5 DEF MessagesType
  <2>2. r.database \in [DOMAIN r.database -> MessageType] /\ DOMAIN r.database \subseteq Ids
        /\ \A id \in DOMAIN r.database : ~IsTemp(id)
    BY <1>1, <1>5, <1>6 DEF MessagesType
  <2>3. r.messages_list \in [Dialogs -> SUBSET Ids]
    BY <1>1, <1>5 DEF MessagesType
  <2> QED BY <1>1, <2>1, <2>2, <2>3 DEF MessagesType
<1>9. \A d \in Dialogs :
        r.messages_list[d] =
          c.messages_list[d] \cup {id \in ids \ DOMAIN c.messages : r.messages[id].dialog = d}
  BY <1>1, <1>7
<1>10. Gains(c, r, new)
  BY <1>1, <1>3, <1>5, <1>7, <1>9 DEF Gains
<1> QED BY <1>1, <1>8, <1>10 DEF r, new

\* The list of dialogs keeps the invariant: its messages are facts known
\* already.
LEMMA ReceivesDialogs ==
  ASSUME IInv, fault = NoFault, NEW a, Receiving(a), OnDialogs(a)
  PROVE  IInv'
<1> DEFINE named == {e.dialog : e \in a.text}
           t == InsertTops(cache, a.text)
           new == FactsOfList(a.text)
<1>1. /\ a \in Coming /\ AnswerOK(a) /\ FactsOfAnswer(a) \subseteq Facts
      /\ a.kind = "getDialogs" /\ a.kind # "sendMessage"
  BY AnswerKnown DEF OnDialogs
<1>2. a.text \in SUBSET EntryType /\ new \subseteq Facts
  BY <1>1 DEF AnswerOK, FactsOfAnswer, Posting
<1>3. Shape(cache) /\ MessagesType(cache) /\ DialogsType(cache) /\ held \subseteq Secrets
  BY DEF IInv, Types, CacheType, OtherType
<1>4. CASE held \cap cache.freed # {}
           /\ Fault("chat", CHOOSE s \in held \cap cache.freed : TRUE)
  <2>1. PICK s \in held \cap cache.freed : Fault("chat", s)
    BY <1>4
  <2>2. s \in forgotten /\ forgotten' = forgotten /\ s \in Dialogs
    BY <1>3 DEF IInv, ForgetInv, GoneOf, Receiving, Dialogs
  <2>3. CallsKept /\ failures' = failures /\ cache' = cache
    BY <2>1, NoCalls DEF Fault, NoRequest, IInv, Receiving
  <2>4. QuietSends
    BY <1>1, <2>3, QuietReceived DEF Receiving
  <2>5. OtherType'
    BY <2>1, <2>2 DEF IInv, Types, OtherType, Fault, NoRequest, Receiving
  <2> QED BY <2>1, <2>2, <2>4, <2>5, Faulted DEF Receiving
<1>5. CASE Becomes([t EXCEPT
              !.dialogs = (@ \cap Secrets) \cup named \cup held,
              !.chats = @ \cup named,
              !.unread = {e.dialog : e \in {x \in a.text : x.unread}}
                           \cup ((@ \cap Secrets) \ held)])
  <2>1. /\ Shape(t) /\ MessagesType(t) /\ SameFiled(cache, t) /\ SameDialogs(cache, t)
        /\ Gains(cache, t, new)
    BY <1>2, <1>3, ToppedGains
  <2> HIDE DEF t
  <2>2. /\ UNCHANGED fault /\ NoRequest
        /\ Shape(cache') /\ SameMessages(t, cache') /\ SameFiled(t, cache')
        /\ cache'.dialogs = (t.dialogs \cap Secrets) \cup named \cup held
        /\ cache'.chats = t.chats \cup named /\ cache'.deleteChatIds = t.deleteChatIds
        /\ cache'.unread = {e.dialog : e \in {x \in a.text : x.unread}}
                             \cup ((t.unread \cap Secrets) \ held)
    BY <1>5, <2>1 DEF Becomes, Shape, SameMessages, SameFiled, GoneOf
  <2>3. MessagesType(cache') /\ Gains(cache, cache', new)
    BY <2>1, <2>2, TypeKept, GainsTo
  <2>4. named \subseteq Groups /\ {e.dialog : e \in {x \in a.text : x.unread}} \subseteq Groups
    BY <1>2 DEF EntryType
  <2>5. DialogsType(cache')
    BY <1>3, <2>1, <2>2, <2>4 DEF DialogsType, SameDialogs, Dialogs
  <2>6. \A f \in new : f = Fact(f.id, f.dialog, f.text)
    BY DEF FactsOfList, Fact
  <2>7. ~AnswerTakesOn(a, a.dialog)
    BY <1>1 DEF AnswerTakesOn
  <2> HIDE DEF new
  <2> QED BY <1>1, <1>2, <2>1, <2>2, <2>3, <2>5, <2>6, <2>7, ReceiveGains DEF SameFiled, SameDialogs
<1> QED BY <1>4, <1>5 DEF OnDialogs

\* The answer to a text: the pending message goes and the server's comes.
LEMMA ReceivesSent ==
  ASSUME IInv, fault = NoFault, NEW a, Receiving(a), OnSent(a)
  PROVE  IInv'
<1> PICK d : d = a.dialog
  OBVIOUS
<1> PICK n : n = a.text
  OBVIOUS
<1> DEFINE gone == [cache EXCEPT !.pend_messages = Remove(@, a.id)]
           b == InsertToGarbeges(gone, Temp(n))
           c == InsertMessage(b, a.post, d, n, FALSE)
           new == {Fact(a.post, d, n)}
<1>1. /\ a \in Coming /\ Coming = Coming' \cup {a} /\ AnswerOK(a) /\ a.kind = "sendMessage"
      /\ FactsOfAnswer(a) \subseteq Facts
  BY AnswerKnown DEF OnSent
<1>2. /\ d \in Dialogs /\ n \in 1..texts /\ n \in Nat /\ a.post \in Ids /\ texts \in Nat
  BY <1>1 DEF AnswerOK, AnswerType, IInv, Types, OtherType
<1>3. /\ UNCHANGED <<server, texts, stamps, collisions, forgotten, requests, calls, failures>>
      /\ toClient # <<>> /\ toClient' = Tail(toClient) /\ a = Head(toClient)
      /\ NoRequest
  BY DEF Receiving, OnSent, Becomes, Fault, NoRequest
<1>4. CallsKept
  BY <1>3, NoCalls DEF IInv
<1>5. /\ Sends = Sends' \cup {SendOf(a.id, d, n)} /\ SendOf(a.id, d, n) \in Sends
      /\ \A s \in Sends' : s.text # n /\ s.text \in Nat
  <2>1. \A s \in Sends' : s.text # n
    BY <1>1, <1>3, ReceivedOnce DEF IInv, Types, NetType
  <2>2. Sends = Sends' \cup {SendOf(a.id, d, n)}
    BY <1>1, <1>3 DEF Sends
  <2> QED BY <2>1, <2>2, SendsType DEF IInv
<1>6. SendOK(a.id, d, n)
  BY <1>5 DEF IInv, SendInv, SendOf
<1>7. Shape(cache) /\ MessagesType(cache) /\ DialogsType(cache) /\ FiledType(cache, texts, requests)
      /\ TempInv(cache, texts) /\ failures \in Nat
  BY DEF IInv, Types, CacheType, OtherType
<1>8. CASE ~Has(cache.pend_messages, a.id)
  <2>1. cache' = cache /\ UNCHANGED fault
    BY <1>8 DEF OnSent, Becomes
  <2>2. failures # 0
    BY <1>6, <1>8 DEF SendOK, Has
  <2>3. QuietSends
    BY <1>2, <1>3, <1>5, <2>1, <2>2 DEF QuietSends, IInv, Types, OtherType
  <2>4. Shrinks(cache, cache', {})
    BY <1>7, <2>1, SameShrinks DEF SameMessages
  <2>5. CacheKept
    BY <2>1, <2>3, <2>4, ShrinkStep DEF IInv
  <2>6. CacheType'
    BY <1>3, <2>1 DEF IInv, Types, CacheType
  <2>7. ~AnswerTakesOn(a, d)
    BY <1>1 DEF AnswerTakesOn
  <2> QED BY <1>3, <2>1, <2>5, <2>6, <2>7, ReceiveQuiet DEF IsRestriction
<1>9. CASE /\ Has(cache.pend_messages, a.id) /\ Temp(cache.pend_messages[a.id]) \in cache.freed
           /\ Fault("message", d)
  <2>1. cache.pend_messages[a.id] = n /\ Temp(n) \in GoneOf(cache) /\ cache' = cache
    BY <1>6, <1>9 DEF SendOK, Has, GoneOf, Fault
  <2>2. d \in forgotten /\ forgotten' = forgotten
    BY <1>3, <1>6, <2>1 DEF SendOK
  <2>3. \A e \in Dialogs : Temp(n) \notin cache.messages_list[e]
    BY <1>2, <1>7, <2>1 DEF TempInv
  <2>4. QuietSends
    <3>1. \A s \in Sends \ Sends' : s.text = n
      BY <1>5 DEF SendOf
    <3> QED BY <1>2, <1>3, <1>5, <2>1, <2>3, <3>1 DEF QuietSends, IInv, Types, OtherType
  <2>5. OtherType'
    BY <1>2, <1>3, <1>9 DEF IInv, Types, OtherType, Fault, Receiving
  <2> QED BY <1>3, <1>9, <2>2, <2>4, <2>5, Faulted
<1>10. CASE Becomes(c)
  <2>1. /\ Shape(gone) /\ SameMessages(cache, gone) /\ SameDialogs(cache, gone)
        /\ gone.pend_messages =
             [x \in DOMAIN cache.pend_messages \ {a.id} |-> cache.pend_messages[x]]
        /\ gone.read_history_requests = cache.read_history_requests
        /\ gone.delete_history_requests = cache.delete_history_requests
    BY <1>7 DEF Shape, SameMessages, SameDialogs, GoneOf, Remove
  <2> HIDE DEF gone
  <2>2. MessagesType(gone) /\ TempInv(gone, texts)
    BY <1>7, <2>1, TypeKept DEF TempInv, SameMessages
  <2>3. /\ Shape(b) /\ MessagesType(b) /\ SameFiled(gone, b) /\ SameDialogs(gone, b)
        /\ Shrinks(gone, b, {})
        /\ \A x \in Ids : x # Temp(n) =>
             /\ x \in DOMAIN b.messages <=> x \in DOMAIN gone.messages
             /\ x \in DOMAIN gone.messages => b.messages[x] = gone.messages[x]
             /\ x \in GoneOf(b) <=> x \in GoneOf(gone)
        /\ Temp(n) \notin DOMAIN b.messages
    <3>1. CASE Temp(n) \in DOMAIN gone.messages
      <4>1. /\ Shape(b) /\ MessagesType(b) /\ SameFiled(gone, b) /\ SameDialogs(gone, b)
            /\ b.messages = [x \in DOMAIN gone.messages \ {Temp(n)} |-> gone.messages[x]]
            /\ b.messages_list =
                 [gone.messages_list EXCEPT ![gone.messages[Temp(n)].dialog] = @ \ {Temp(n)}]
            /\ b.database = gone.database
            /\ GoneOf(b) = GoneOf(gone) \cup (IF IsTemp(Temp(n)) THEN {Temp(n)} ELSE {})
        BY <2>1, <2>2, <3>1, ToGarbeges
      <4> HIDE DEF b
      <4>2. /\ IsRestriction(b.database, gone.database)
            /\ DOMAIN gone.database \subseteq DOMAIN b.database \cup {Temp(n)}
        BY <4>1 DEF IsRestriction
      <4>3. Shrinks(gone, b, {})
        BY <2>2, <3>1, <4>1, <4>2, OneGoes
      <4> QED BY <4>1, <4>3
    <3>2. CASE Temp(n) \notin DOMAIN gone.messages
      <4>1. b = gone
        BY <3>2 DEF InsertToGarbeges, Has
      <4> QED BY <2>1, <2>2, <3>2, <4>1, SameShrinks DEF SameMessages, SameFiled, SameDialogs
    <3> QED BY <3>1, <3>2
  <2> HIDE DEF b
  <2>4. Fact(a.post, d, n) \in Facts /\ ~IsTemp(a.post) /\ new \subseteq Facts
    <3>1. Fact(a.post, d, n) \in Facts
      BY <1>1 DEF FactsOfAnswer, Posting
    <3> QED BY <3>1, FactIds DEF IInv, Fact
  <2>5. /\ Shape(c) /\ MessagesType(c) /\ SameFiled(b, c) /\ SameDialogs(b, c) /\ Gains(b, c, new)
    BY <1>2, <2>3, <2>4, Inserted
  <2>6. \A f \in new :
          f = Fact(f.id, f.dialog, f.text) /\ f.id = a.post /\ f.dialog = d /\ f.text = n
    BY DEF Fact
  <2>7. cache' = c /\ UNCHANGED fault
    BY <1>10 DEF Becomes
  <2> HIDE DEF c, new
  <2>8. Shrinks(cache, b, {})
    BY <2>1, <2>3, ShrinksFrom
  <2>9. TempInv(b, texts) /\ TempInv(c, texts)
    BY <1>2, <1>7, <2>3, <2>4, <2>5, <2>6, <2>8, TempShrinks, TempGains
  <2>10. /\ cache'.pend_messages = gone.pend_messages
         /\ cache'.read_history_requests = cache.read_history_requests
         /\ cache'.delete_history_requests = cache.delete_history_requests
         /\ SameDialogs(cache, cache')
    BY <2>1, <2>3, <2>5, <2>7 DEF SameFiled, SameDialogs
  <2>11. SendInv'
    <3>1. SUFFICES ASSUME NEW s \in Sends'
                   PROVE  SendOK(s.id, s.dialog, s.text)'
      BY DEF SendInv
    <3>2. SendOK(s.id, s.dialog, s.text) /\ s.text # n /\ s.text \in Nat
      BY <1>5 DEF IInv, SendInv
    <3>3. s.id # a.id \/ failures # 0
      BY <1>6, <3>2 DEF SendOK
    <3>4. s.id = a.id => s.id \notin DOMAIN cache.pend_messages
      BY <1>6, <3>2 DEF SendOK
    <3>5. Temp(s.text) # Temp(n) /\ Temp(s.text) \in Ids /\ IsTemp(Temp(s.text))
      BY <3>2, TempIds DEF Temp
    <3>6. /\ Temp(s.text) \in DOMAIN c.messages => Temp(s.text) \in DOMAIN cache.messages
                             /\ c.messages[Temp(s.text)] = cache.messages[Temp(s.text)]
          /\ Temp(s.text) \in GoneOf(c) => Temp(s.text) \in GoneOf(cache)
      BY <2>1, <2>3, <2>4, <2>5, <2>6, <3>5 DEF Gains, SameMessages
    <3> QED BY <1>3, <2>1, <2>7, <2>10, <3>2, <3>3, <3>4, <3>6 DEF SendOK
  <2>12. StoredInv'
    <3>1. SUFFICES ASSUME collisions = 0
                   PROVE  /\ Stored(c, forgotten)
                          /\ failures = 0 =>
                               \A e \in Dialogs : \A i \in Nat :
                                 Temp(i) \in c.messages_list[e] => Sending(e, i)'
      BY <1>3, <2>7 DEF StoredInv
    <3>2. Stored(b, forgotten)
      BY <2>8, <3>1, StoredShrinks DEF IInv, StoredInv
    <3>3. \A f \in new : f.id \in DOMAIN b.messages =>
            b.messages[f.id].dialog = f.dialog /\ b.messages[f.id].text = f.text
      <4>1. \A f \in new : f \in Facts
        BY <2>4
      <4>2. \A f \in new : f.id \in DOMAIN b.messages =>
              f.id \in DOMAIN cache.messages /\ b.messages[f.id] = cache.messages[f.id]
        BY <2>8 DEF Shrinks, IsRestriction
      <4> QED BY <2>6, <3>1, <4>1, <4>2, SameFact DEF IInv
    <3>4. Stored(c, forgotten)
      BY <2>5, <3>2, <3>3, StoredGains
    <3>5. ASSUME failures = 0, NEW e \in Dialogs, NEW i \in Nat, Temp(i) \in c.messages_list[e]
          PROVE  Sending(e, i)'
      <4>1. Temp(i) \in b.messages_list[e]
        BY <2>4, <2>5, <2>6, <3>5, TempIds DEF Gains
      <4>2. Temp(i) \in cache.messages_list[e] /\ i # n
        BY <2>3, <2>8, <2>9, <4>1 DEF Shrinks, TempInv
      <4>3. Sending(e, i)
        BY <3>1, <3>5, <4>2 DEF IInv, StoredInv
      <4> QED BY <1>5, <4>2, <4>3 DEF Sending, SendOf
    <3> QED BY <3>4, <3>5
  <2>13. GoneOf(cache') \cap Secrets \subseteq forgotten'
    <3>1. GoneOf(c) = GoneOf(b)
      BY <2>5 DEF Gains
    <3>2. \A x \in GoneOf(b) \ GoneOf(cache) : x \notin Secrets
      BY <1>7, <2>8, TempIds DEF Shrinks, MessagesType, IsTemp, Ids, Temp
    <3> QED BY <1>3, <2>7, <3>1, <3>2 DEF IInv, ForgetInv
  <2>14. FactsOf(cache'.messages) \subseteq Facts /\ FactsOf(cache'.database) \subseteq Facts
    <3>1. FactsOf(b.messages) \subseteq Facts /\ FactsOf(b.database) \subseteq Facts
      BY <2>8, FactsShrink DEF Shrinks, Facts
    <3> QED BY <2>4, <2>5, <2>7, <3>1, FactsGain
  <2>15. CacheKept
    BY <1>3, <2>7, <2>9, <2>11, <2>12, <2>13, <2>14 DEF CacheKept
  <2>16. CacheType'
    <3>1. FiledType(cache', texts', requests')
      BY <1>3, <1>7, <2>1, <2>10 DEF FiledType
    <3> QED BY <1>7, <2>5, <2>7, <2>10, <3>1 DEF CacheType, DialogsType, SameDialogs
  <2>17. ~AnswerTakesOn(a, d)
    BY <1>1 DEF AnswerTakesOn
  <2> QED BY <1>3, <2>7, <2>10, <2>15, <2>16, <2>17, ReceiveQuiet DEF SameDialogs, IsRestriction
<1> QED
  <2>1. \/ ~Has(cache.pend_messages, a.id)
        \/ Has(cache.pend_messages, a.id) /\ Temp(cache.pend_messages[a.id]) \in cache.freed
             /\ Fault("message", d)
        \/ Becomes(Sent(cache, a))
    BY DEF OnSent
  <2>2. Sent(cache, a) = c
    BY DEF Sent
  <2> QED BY <1>8, <1>9, <1>10, <2>1, <2>2

\* Taking an answer or update keeps the invariant, whichever it is.
LEMMA Receives ==
  ASSUME IInv, fault = NoFault, Receive
  PROVE  IInv'
<1>1. PICK a : a = Head(toClient)
  OBVIOUS
<1>2. /\ toClient # <<>> /\ toClient' = Tail(toClient)
      /\ UNCHANGED <<opened, cleanUpTimer, server, countVars, forgotten>>
      /\ held' = IF a.kind = "discard" THEN held \ {a.dialog} ELSE held
      /\ \/ OnSent(a) \/ OnUpdate(a) \/ OnMessage(a) \/ OnRead(a) \/ OnFullChat(a) \/ OnLeft(a)
         \/ OnHistoryDeleted(a) \/ OnDiscarded(a) \/ OnDialogs(a)
  BY <1>1 DEF Receive
<1>3. held' \subseteq held
  BY <1>2
<1>4. Receiving(a)
  BY <1>1, <1>2, <1>3 DEF Receiving, countVars
<1> QED
  BY <1>2, <1>4, ReceivesSent, ReceivesUpdate, ReceivesMessage, ReceivesRead, ReceivesFullChat, ReceivesLeft,
     ReceivesHistoryDeleted, ReceivesDiscarded, ReceivesDialogs

-----------------------------------------------------------------------------
(* Steps of the server.                                                    *)

\* What every step of the server leaves alone.
ServerLeaves == UNCHANGED <<cache, opened, cleanUpTimer, fault, held, requests, forgotten>>

\* The parts of the invariant about the cache follow of any step of the
\* server, which leaves the cache alone, from what it does to requests,
\* answers and messages.
LEMMA ServerStep ==
  ASSUME IInv, ServerLeaves, OtherType', NetType', ServerType', calls' \subseteq calls,
         texts <= texts', collisions' = 0 => collisions = 0,
         Sends' \subseteq Sends, failures' = 0 => failures = 0 /\ Sends' = Sends,
         UniqueSends', FactsInv', MarksInv',
         \A a \in Coming' :
           \/ a \in Coming \/ a.id \notin DOMAIN cache.delete_history_requests
           \/ \E r \in calls : a.id = r.id /\ a.dialog = r.dialog
  PROVE  IInv'
<1>1. cache' = cache /\ forgotten' = forgotten /\ requests' = requests /\ fault' = fault
      /\ texts \in Nat /\ texts' \in Nat
  BY DEF ServerLeaves, IInv, Types, OtherType
<1>2. QuietSends
  BY <1>1 DEF QuietSends, IInv, Types, OtherType
<1>3. Shrinks(cache, cache', {})
  BY <1>1, SameShrinks DEF SameMessages, IInv, Types, CacheType
<1>4. CacheKept
  BY <1>1, <1>2, <1>3, ShrinkStep DEF IInv
<1>5. CacheType'
  BY <1>1 DEF IInv, Types, CacheType, FiledType
<1>6. ForgetInv'
  BY <1>1, <1>4, ForgetKept DEF IInv, ForgetInv, CacheKept, IsRestriction
<1>7. FaultsNeedForgetting'
  BY <1>1 DEF IInv, FaultsNeedForgetting
<1> QED BY <1>4, <1>5, <1>6, <1>7 DEF IInv, Types, CacheKept

\* An answer that is well formed keeps the network well formed.
LEMMA AnsweredNet ==
  ASSUME NetType, texts \in Nat, texts' \in Nat, texts <= texts', requests' = requests,
         calls' \subseteq calls, NEW a, AnswerOK(a)', toClient' = Append(toClient, a)
  PROVE  NetType' /\ Coming' = Coming \cup {a} /\ a \in AnswerType
<1>1. a \in AnswerType /\ toClient \in Seq(AnswerType)
  BY DEF AnswerOK, NetType
<1>2. toClient' \in Seq(AnswerType) /\ Coming' = Coming \cup {a}
  BY <1>1, Appended
<1>3. \A r \in calls : CallOK(r)'
  BY DEF NetType, CallOK
<1>4. \A b \in Coming : AnswerOK(b)'
  BY DEF NetType, AnswerOK
<1> QED BY <1>1, <1>2, <1>3, <1>4 DEF NetType

\* A request that is answered moves its text from the requests to the
\* answers, so the text is sent once still.
LEMMA MovesOn ==
  ASSUME NetType, UniqueSends, NEW r \in calls, calls' = calls \ {r}, NEW a \in AnswerType,
         a.kind = r.method, a.id = r.id, a.dialog = r.dialog,
         r.method = "sendMessage" => a.text = r.text,
         toClient' = Append(toClient, a)
  PROVE  Sends' = Sends /\ UniqueSends'
<1>1. toClient \in Seq(AnswerType)
  BY DEF NetType
<1>2. /\ Coming' = Coming \cup {a}
      /\ \A i \in DOMAIN toClient' :
           \/ i \in DOMAIN toClient /\ toClient'[i] = toClient[i]
           \/ i = Len(toClient) + 1 /\ toClient'[i] = a
  BY <1>1, Appended
<1>3. CASE r.method # "sendMessage"
  <2>1. Sends' = Sends
    BY <1>2, <1>3 DEF Sends
  <2> QED BY <1>1, <1>3, <2>1, UniqueKept
<1>4. CASE r.method = "sendMessage"
  <2>1. Sends' = Sends
    BY <1>2, <1>4 DEF Sends
  <2>2. /\ \A i \in DOMAIN toClient :
             ~(toClient[i].kind = "sendMessage" /\ toClient[i].text = a.text)
        /\ \A q \in calls' : ~(q.method = "sendMessage" /\ q.text = a.text)
    BY <1>4, ComingIs DEF UniqueSends
  <2>3. /\ \A q, p \in calls' :
             q.method = "sendMessage" /\ p.method = "sendMessage" /\ q.text = p.text => q = p
        /\ \A q \in calls', b \in Coming' :
             ~(q.method = "sendMessage" /\ b.kind = "sendMessage" /\ b.text = q.text)
    BY <1>2, <2>2 DEF UniqueSends
  <2>4. \A i, j \in DOMAIN toClient' :
          toClient'[i].kind = "sendMessage" /\ toClient'[j].kind = "sendMessage"
            /\ toClient'[i].text = toClient'[j].text => i = j
    BY <1>2, <2>2 DEF UniqueSends
  <2> QED BY <2>1, <2>3, <2>4 DEF UniqueSends
<1> QED BY <1>3, <1>4

\* The server executes r and answers it by a.
LEMMA Says ==
  ASSUME IInv, NEW r \in calls, calls' = calls \ {r}, ServerLeaves,
         UNCHANGED <<texts, deletions, others, failures>>, stamps' \in Nat, collisions' \in Nat,
         collisions' = 0 => collisions = 0, ServerType', FactsInv',
         NEW a, AnswerOK(a), toClient' = Append(toClient, a),
         a.kind = r.method, a.id = r.id, a.dialog = r.dialog,
         r.method = "sendMessage" => a.text = r.text,
         \A d \in Dialogs \ {r.dialog} : d \in server.members => d \in server'.members,
         r.dialog \in server.members \ server'.members => AnswerTakesOn(a, r.dialog)',
         CallTakesOn(r, r.dialog) => AnswerTakesOn(a, r.dialog)'
  PROVE  IInv'
<1>1. OtherType'
  BY DEF IInv, Types, OtherType, ServerLeaves
<1>2. AnswerOK(a)' /\ requests' = requests /\ cache' = cache /\ fault' = fault
  BY DEF AnswerOK, ServerLeaves
<1>3. NetType' /\ Coming' = Coming \cup {a} /\ a \in AnswerType
  BY <1>2, AnsweredNet DEF IInv, Types, OtherType
<1>4. Sends' = Sends /\ UniqueSends'
  BY <1>3, MovesOn DEF IInv, Types
<1>5. MarksInv'
  <2>1. SUFFICES ASSUME failures = 0, fault = NoFault, NEW d \in cache.deleteChatIds
                 PROVE  TakenOn(d)'
    BY <1>2 DEF MarksInv
  <2>2. TakenOn(d) /\ d \in Dialogs
    BY <2>1 DEF IInv, MarksInv, Types, CacheType, DialogsType, Dialogs
  <2>3. a \in Coming' /\ calls' = calls \ {r} /\ Coming \subseteq Coming'
    BY <1>3
  <2>4. CASE d = r.dialog /\ (AnswerTakesOn(a, r.dialog)')
    BY <2>3, <2>4 DEF TakenOn
  <2>5. CASE ~(d = r.dialog /\ (AnswerTakesOn(a, r.dialog)'))
    <3>1. d \in server.members => d \in server'.members
      BY <2>2, <2>5
    <3>2. ~CallTakesOn(r, d)
      BY <2>5 DEF CallTakesOn
    <3>3. \A q \in calls : CallTakesOn(q, d) => q \in calls' /\ CallTakesOn(q, d)'
      BY <1>2, <3>1, <3>2 DEF CallTakesOn
    <3>4. \A b \in Coming : AnswerTakesOn(b, d) => b \in Coming' /\ AnswerTakesOn(b, d)'
      BY <1>2, <2>3, <3>1 DEF AnswerTakesOn
    <3> QED BY <2>2, <3>3, <3>4 DEF TakenOn
  <2> QED BY <2>4, <2>5
<1>6. texts \in Nat /\ texts <= texts'
  BY DEF IInv, Types, OtherType
<1> QED BY <1>1, <1>3, <1>4, <1>5, <1>6, ServerStep

\* The server executes r without an answer, or the answer is an error.
LEMMA SaysNothing ==
  ASSUME IInv, NEW r \in calls, calls' = calls \ {r}, ServerLeaves,
         UNCHANGED <<texts, deletions, others, stamps, collisions, toClient>>,
         failures' \in Nat, failures' = 0 => failures = 0,
         ServerType', server'.members = server.members,
         FactsOfHistory(server'.history) \subseteq Facts,
         failures' = 0 => r.method # "sendMessage" /\ ~CallTakesOn(r, r.dialog)
  PROVE  IInv'
<1>1. OtherType' /\ Coming' = Coming /\ requests' = requests /\ cache' = cache /\ fault' = fault
  BY DEF IInv, Types, OtherType, ServerLeaves, Coming
<1>2. NetType'
  <2>1. \A q \in calls : CallOK(q)'
    BY <1>1 DEF IInv, Types, NetType, CallOK
  <2>2. \A b \in Coming : AnswerOK(b)'
    BY <1>1 DEF IInv, Types, NetType, AnswerOK
  <2> QED BY <1>1, <2>1, <2>2 DEF IInv, Types, NetType
<1>3. Sends' \subseteq Sends /\ (failures' = 0 => Sends' = Sends)
  BY <1>1 DEF Sends
<1>4. UniqueSends'
  BY UniqueKept DEF IInv, Types, NetType
<1>5. FactsInv'
  <2>1. /\ FactsOf(cache'.messages) \subseteq Facts /\ FactsOf(cache'.database) \subseteq Facts
        /\ \A b \in Coming' : FactsOfAnswer(b) \subseteq Facts
    BY <1>1 DEF Facts
  <2> QED BY <2>1, FactsKept DEF IInv, Types, OtherType
<1>6. MarksInv'
  BY <1>1 DEF IInv, MarksInv, TakenOn, CallTakesOn, AnswerTakesOn
<1>7. texts \in Nat /\ texts <= texts'
  BY DEF IInv, Types, OtherType
<1> QED BY <1>1, <1>2, <1>3, <1>4, <1>5, <1>6, <1>7, ServerStep

\* A message of the server in the dialog d, as Posted files it.
LEMMA NextPost ==
  ASSUME IInv, NEW d \in Dialogs, NEW post, NEW t \in Nat, post \in Posts(d), Stamped(d, post),
         server'.history = Posted(d, post, t).history
  PROVE  /\ stamps' \in Nat /\ collisions' \in Nat /\ (collisions' = 0 => collisions = 0)
         /\ post \in Ids
         /\ server'.history \in [Groups -> SUBSET [post : Ids, text : Nat]]
         /\ FactsOfHistory(server'.history) \subseteq Facts \cup {Fact(post, d, t)}
<1>1. stamps \in Nat /\ collisions \in Nat /\ ServerType
  BY DEF IInv, Types, OtherType
<1>2. stamps' \in Nat /\ collisions' \in Nat /\ (collisions' = 0 => collisions = 0)
  BY <1>1 DEF Stamped
<1>3. post \in Ids
  BY <1>1 DEF Posts, Kinds, Ids
<1>4. FactsOfHistory(server.history) \subseteq Facts
  BY DEF Facts
<1>5. CASE d \in Secrets
  BY <1>1, <1>2, <1>3, <1>4, <1>5 DEF Posted, ServerType
<1>6. CASE d \notin Secrets
  <2>1. d \in Groups
    BY <1>6 DEF Dialogs
  <2>2. server'.history =
          [server.history EXCEPT ![d] = @ \cup {[post |-> post, text |-> t]}]
    BY <1>1, <1>6 DEF Posted, ServerType
  <2>3. server'.history \in [Groups -> SUBSET [post : Ids, text : Nat]]
    <3>1. [post |-> post, text |-> t] \in [post : Ids, text : Nat]
      BY <1>3
    <3>2. server.history[d] \cup {[post |-> post, text |-> t]} \in SUBSET [post : Ids, text : Nat]
      BY <1>1, <2>1, <3>1 DEF ServerType
    <3> QED BY <1>1, <2>2, <3>2 DEF ServerType
  <2>4. \A e \in Groups : \A x \in server'.history[e] :
          x \in server.history[e] \/ (e = d /\ x.post = post /\ x.text = t)
    BY <1>1, <2>1, <2>2 DEF ServerType
  <2>5. FactsOfHistory(server'.history) \subseteq Facts \cup {Fact(post, d, t)}
    BY <1>4, <2>4 DEF FactsOfHistory
  <2> QED BY <1>2, <1>3, <2>3, <2>5
<1> QED BY <1>5, <1>6

\* A message that is numbered and sent to the client in one step has one
\* identifier, in the history and in the answer.
LEMMA PostedFacts ==
  ASSUME IInv, NEW d \in Dialogs, NEW post, NEW t, Stamped(d, post), cache' = cache,
         FactsOfHistory(server'.history) \subseteq Facts \cup {Fact(post, d, t)},
         NEW a, Coming' = Coming \cup {a}, FactsOfAnswer(a) \subseteq {Fact(post, d, t)}
  PROVE  FactsInv'
<1>1. PICK f : f = Fact(post, d, t)
  OBVIOUS
<1>2. f.id = post
  BY <1>1 DEF Fact
<1>3. \A b \in Coming' : FactsOfAnswer(b) \subseteq Facts \cup {f}
  BY <1>1 DEF Facts
<1>4. FactsOf(cache'.messages) \subseteq Facts /\ FactsOf(cache'.database) \subseteq Facts
  BY DEF Facts
<1> QED BY <1>1, <1>2, <1>3, <1>4, FactsStamped DEF IInv, Types, OtherType

\* The server's execution of a request that makes a message keeps the
\* invariant.
LEMMA ExecutesPost ==
  ASSUME IInv, NEW r \in calls, ExecutePost(r), calls' = calls \ {r}, ServerLeaves,
         UNCHANGED <<texts, deletions, others, failures>>
  PROVE  IInv'
<1>1. PICK d : d = r.dialog
  OBVIOUS
<1>2. PICK t : t = r.text
  OBVIOUS
<1>3. CallOK(r) /\ r.method \in {"sendMessage", "deleteChatUser"}
  BY DEF IInv, Types, NetType, ExecutePost
<1>4. /\ d \in Dialogs /\ t \in Nat /\ r.id \in Nat /\ r.id \in 0..requests
      /\ r.method = "sendMessage" => t \in 1..texts
      /\ r.method = "deleteChatUser" => t = 0 /\ d \in Groups
      /\ r.method = "deleteChatUser" => d \in server.members
  BY <1>1, <1>2, <1>3 DEF CallOK, CallType, IInv, Types, NetType, DeletionSteps, GroupSteps,
     ExecutePost
<1>5. PICK post \in Posts(d) :
        /\ Stamped(d, post) /\ (IsUpdate(post) <=> r.method = "deleteChatUser")
        /\ toClient' = Append(toClient, Answer(r.method, r.id, d, t, post))
        /\ server' = [Posted(d, post, t) EXCEPT
                        !.members = IF r.method = "deleteChatUser" THEN @ \ {d} ELSE @]
  BY <1>1, <1>2 DEF ExecutePost
<1>6. PICK a : a = Answer(r.method, r.id, d, t, post)
  OBVIOUS
<1>7. /\ a.kind = r.method /\ a.id = r.id /\ a.dialog = d /\ a.text = t /\ a.post = post
      /\ toClient' = Append(toClient, a)
  BY <1>5, <1>6 DEF Answer
<1>8. ServerType
  BY DEF IInv, Types
<1>9. /\ DOMAIN server' = {"history", "members", "unread"}
      /\ server'.history = Posted(d, post, t).history
      /\ server'.members = IF r.method = "deleteChatUser" THEN server.members \ {d}
                           ELSE server.members
      /\ server'.unread = server.unread
  BY <1>5, <1>8 DEF Posted, ServerType
<1>10. /\ stamps' \in Nat /\ collisions' \in Nat /\ (collisions' = 0 => collisions = 0)
       /\ post \in Ids
       /\ server'.history \in [Groups -> SUBSET [post : Ids, text : Nat]]
       /\ FactsOfHistory(server'.history) \subseteq Facts \cup {Fact(post, d, t)}
  BY <1>4, <1>5, <1>9, NextPost
<1>11. ServerType'
  BY <1>8, <1>9, <1>10 DEF ServerType
<1>12. AnswerOK(a)
  <2>1. a \in AnswerType
    BY <1>3, <1>4, <1>6, <1>10 DEF Answer, AnswerType, Methods
  <2> QED BY <1>3, <1>4, <1>5, <1>7, <2>1 DEF AnswerOK, DeletionSteps, GroupSteps
<1>13. FactsInv'
  <2>1. FactsOfAnswer(a) \subseteq {Fact(post, d, t)}
    BY <1>3, <1>7 DEF FactsOfAnswer, Posting
  <2>2. Coming' = Coming \cup {a}
    BY <1>7, <1>12, Appended DEF AnswerOK, IInv, Types, NetType
  <2>3. cache' = cache
    BY DEF ServerLeaves
  <2> QED BY <1>4, <1>5, <1>10, <2>1, <2>2, <2>3, PostedFacts
<1>14. /\ \A e \in Dialogs \ {d} : e \in server.members => e \in server'.members
       /\ d \in server.members \ server'.members => r.method = "deleteChatUser"
  BY <1>9
<1>15. r.method = "deleteChatUser" => AnswerTakesOn(a, d)'
  BY <1>7 DEF AnswerTakesOn
<1>16. CallTakesOn(r, d) => r.method = "deleteChatUser"
  BY <1>3 DEF CallTakesOn
<1> QED
  BY <1>1, <1>2, <1>7, <1>10, <1>11, <1>12, <1>13, <1>14, <1>15, <1>16, Says

\* A message of somebody else keeps the invariant.
LEMMA SomebodyWrites ==
  ASSUME IInv, fault = NoFault, NEW d \in Dialogs, Incoming(d)
  PROVE  IInv'
<1>1. PICK t : t = texts + 1
  OBVIOUS
<1>2. PICK post \in Posts(d) :
        /\ Stamped(d, post)
        /\ toClient' = Append(toClient, Answer("message", 0, d, t, post))
        /\ server' = [Posted(d, post, t) EXCEPT !.unread = @ \cup ({d} \cap Groups)]
  BY <1>1 DEF Incoming
<1>3. PICK a : a = Answer("message", 0, d, t, post)
  OBVIOUS
<1>4. /\ a.kind = "message" /\ a.id = 0 /\ a.dialog = d /\ a.text = t /\ a.post = post
      /\ toClient' = Append(toClient, a)
  BY <1>2, <1>3 DEF Answer
<1>5. /\ texts' = t /\ calls' = calls /\ UNCHANGED <<failures, deletions, others>>
      /\ ServerLeaves /\ texts \in Nat /\ t \in Nat /\ texts <= texts' /\ requests \in Nat
  BY <1>1 DEF Incoming, ServerLeaves, IInv, Types, OtherType, NetType
<1>6. requests' = requests /\ cache' = cache /\ fault' = fault
  BY <1>5 DEF ServerLeaves
<1>7. ServerType
  BY DEF IInv, Types
<1>8. /\ DOMAIN server' = {"history", "members", "unread"}
      /\ server'.history = Posted(d, post, t).history
      /\ server'.members = server.members
  BY <1>2, <1>7 DEF Posted, ServerType
<1>9. /\ stamps' \in Nat /\ collisions' \in Nat /\ (collisions' = 0 => collisions = 0)
      /\ post \in Ids
      /\ server'.history \in [Groups -> SUBSET [post : Ids, text : Nat]]
      /\ FactsOfHistory(server'.history) \subseteq Facts \cup {Fact(post, d, t)}
  BY <1>2, <1>5, <1>8, NextPost
<1>10. ServerType' /\ OtherType'
  BY <1>5, <1>7, <1>8, <1>9 DEF ServerType, OtherType, IInv, Types, ServerLeaves
<1>11. AnswerOK(a)'
  <2>1. a \in AnswerType
    BY <1>3, <1>5, <1>9 DEF Answer, AnswerType
  <2>2. IsUpdate(post) => d \in Groups
    BY <1>2 DEF Posts, Kinds, IsUpdate, Dialogs
  <2> QED BY <1>4, <1>5, <1>6, <2>1, <2>2 DEF AnswerOK, DeletionSteps, GroupSteps
<1>12. NetType' /\ Coming' = Coming \cup {a} /\ a \in AnswerType
  BY <1>4, <1>5, <1>6, <1>11, AnsweredNet DEF IInv, Types, OtherType
<1>13. Sends' = Sends
  BY <1>4, <1>5, <1>12 DEF Sends
<1>14. UniqueSends'
  BY <1>4, <1>5, <1>12, UniqueKept DEF IInv, Types, NetType
<1>15. FactsInv'
  <2>1. FactsOfAnswer(a) \subseteq {Fact(post, d, t)}
    BY <1>4 DEF FactsOfAnswer, Posting
  <2> QED BY <1>2, <1>6, <1>9, <1>12, <2>1, PostedFacts
<1>16. MarksInv'
  BY <1>5, <1>6, <1>8, <1>12 DEF IInv, MarksInv, TakenOn, CallTakesOn, AnswerTakesOn
<1>17. a.id \notin DOMAIN cache.delete_history_requests
  BY <1>4, <1>5 DEF IInv, Types, CacheType, FiledType, Offline
<1> QED
  BY <1>5, <1>9, <1>10, <1>12, <1>13, <1>14, <1>15, <1>16, <1>17, ServerStep

\* The last message of a history, which is finite only in what it numbers.
LEMMA TopIs ==
  ASSUME NEW n \in Nat, NEW h \in SUBSET [post : {"post", "update", "date"} \X (1..n), text : Nat], h # {}
  PROVE  TopOf(h) \in h
<1> DEFINE after == {n - x.post[2] : x \in h}
<1>1. \A x \in h : x.post[2] \in 1..n
  OBVIOUS
<1>2. PICK i \in after : \A j \in after : <<j, i>> \notin OpToRel(<, Nat)
  <2>1. after \in SUBSET Nat /\ after # {}
    BY <1>1
  <2> HIDE DEF after
  <2> QED BY <2>1, NatLessThanWellFounded, WFMin
<1>3. PICK x \in h : i = n - x.post[2]
  BY <1>2
<1>4. \A y \in h : y.post[2] <= x.post[2]
  <2>1. SUFFICES ASSUME NEW y \in h
                 PROVE  y.post[2] <= x.post[2]
    OBVIOUS
  <2>2. n - y.post[2] \in after
    OBVIOUS
  <2>3. <<n - y.post[2], n - x.post[2]>> \notin OpToRel(<, Nat)
    BY <1>2, <1>3, <2>2
  <2>4. n - y.post[2] \in Nat /\ n - x.post[2] \in Nat /\ x.post[2] \in Nat /\ y.post[2] \in Nat
    BY <1>1
  <2>5. ~(n - y.post[2] < n - x.post[2])
    BY <2>3, <2>4 DEF OpToRel
  <2> QED BY <2>4, <2>5
<1> QED BY <1>3, <1>4 DEF TopOf

\* The list of dialogs tells what the server has.
LEMMA ListedFacts ==
  ASSUME IInv
  PROVE  Listed \in SUBSET EntryType /\ FactsOfList(Listed) \subseteq Facts
<1>1. /\ stamps \in Nat /\ server.history \in [Groups -> SUBSET [post : Ids, text : Nat]]
      /\ \A f \in Facts : f.id \in {"post", "update", "date"} \X (1..stamps)
  BY DEF IInv, Types, OtherType, ServerType, FactsInv
<1>2. \A d \in Groups : \A x \in server.history[d] : Fact(x.post, d, x.text) \in Facts
  BY DEF Facts, FactsOfHistory
<1>3. ASSUME NEW d \in Groups
      PROVE  \/ TopOf(server.history[d]) = [post |-> NoId, text |-> 0]
             \/ TopOf(server.history[d]) \in server.history[d]
  <2>1. CASE server.history[d] = {}
    BY <2>1 DEF TopOf
  <2>2. CASE server.history[d] # {}
    <3>1. ASSUME NEW x \in server.history[d]
          PROVE  x \in [post : {"post", "update", "date"} \X (1..stamps), text : Nat]
      <4>1. x \in [post : Ids, text : Nat]
        BY <1>1
      <4>2. x.post \in {"post", "update", "date"} \X (1..stamps)
        BY <1>1, <1>2 DEF Fact
      <4> QED BY <4>1, <4>2
    <3>2. server.history[d] \in SUBSET [post : {"post", "update", "date"} \X (1..stamps), text : Nat]
      BY <3>1
    <3> QED BY <1>1, <2>2, <3>2, TopIs
  <2> QED BY <2>1, <2>2
<1>4. ASSUME NEW e \in Listed
      PROVE  /\ e \in EntryType
             /\ e.top.post # NoId => Fact(e.top.post, e.dialog, e.top.text) \in Facts
  <2>1. PICK d \in Groups :
          e = [dialog |-> d, top |-> TopOf(server.history[d]), unread |-> d \in server.unread]
    BY DEF Listed
  <2>2. PICK top : top = TopOf(server.history[d])
    OBVIOUS
  <2>3. /\ top \in [post : Ids, text : Nat]
        /\ top.post # NoId => Fact(top.post, d, top.text) \in Facts
    <3>1. CASE top = [post |-> NoId, text |-> 0]
      BY <3>1 DEF NoId, Ids
    <3>2. CASE top \in server.history[d]
      BY <1>1, <1>2, <3>2
    <3> QED BY <1>3, <2>2, <3>1, <3>2
  <2>4. e.top = top /\ e.dialog = d /\ e.unread \in BOOLEAN
    BY <2>1, <2>2
  <2>5. e \in EntryType
    BY <2>1, <2>2, <2>3 DEF EntryType
  <2> QED BY <2>3, <2>4, <2>5
<1> QED BY <1>4 DEF FactsOfList

\* The server's execution of the other requests keeps the invariant; the
\* answer carries the deletion on that the request did.
LEMMA ExecutesOther ==
  ASSUME IInv, NEW r \in calls, ExecuteOther(r), calls' = calls \ {r}, ServerLeaves,
         UNCHANGED <<texts, deletions, others, failures>>
  PROVE  IInv'
<1>1. PICK d : d = r.dialog
  OBVIOUS
<1>2. /\ CallOK(r) /\ r.id \in Nat /\ r.id \in 0..requests
      /\ r.dialog \in Dialogs \cup {NoDialog}
      /\ r.method = "getDialogs" \/ d \in Dialogs
      /\ r.method \in GroupSteps => d \in Groups
      /\ UNCHANGED <<stamps, collisions>> /\ stamps \in Nat /\ collisions \in Nat
      /\ failures \in Nat
  BY <1>1 DEF IInv, Types, NetType, OtherType, CallOK, CallType, ExecuteOther
<1>3. ServerType /\ FactsOfHistory(server.history) \subseteq Facts /\ cache' = cache
  BY DEF IInv, Types, Facts, ServerLeaves
\* An answer says t, of what the server has or less.
<1>4. ASSUME NEW t, toClient' = Append(toClient, Answer(r.method, r.id, d, t, NoId)),
             r.method \in {"readHistory", "getFullChat", "deleteHistory", "discard", "getDialogs"},
             r.method = "getDialogs" => t \in SUBSET EntryType /\ FactsOfList(t) \subseteq Facts,
             r.method # "getDialogs" => t \in 0..1,
             r.method \in {"readHistory", "deleteHistory", "discard"} => t = 0,
             r.method = "getFullChat" => t = 0 \/ d \in server.members,
             ServerType', server'.members = server.members,
             FactsOfHistory(server'.history) \subseteq Facts
      PROVE  IInv'
  <2>1. PICK a : a = Answer(r.method, r.id, d, t, NoId)
    OBVIOUS
  <2>2. /\ a.kind = r.method /\ a.id = r.id /\ a.dialog = d /\ a.text = t /\ a.post = NoId
        /\ toClient' = Append(toClient, a)
    BY <1>4, <2>1 DEF Answer
  <2>3. AnswerOK(a)
    <3>1. t \in Nat \cup SUBSET EntryType /\ NoId \in Ids
      BY <1>4 DEF NoId, Ids
    <3>2. r.method \in Methods
      BY <1>4 DEF Methods
    <3>3. a \in AnswerType
      BY <1>1, <1>2, <2>1, <3>1, <3>2 DEF Answer, AnswerType
    <3>4. ~IsUpdate(a.post)
      BY <2>2 DEF NoId, IsUpdate
    <3> QED BY <1>1, <1>2, <1>4, <2>2, <3>3, <3>4 DEF AnswerOK, DeletionSteps
  <2>4. Coming' = Coming \cup {a}
    BY <2>2, <2>3, Appended DEF AnswerOK, IInv, Types, NetType
  <2>5. FactsInv'
    <3>1. FactsOfAnswer(a) \subseteq Facts
      BY <1>4, <2>2 DEF FactsOfAnswer, Posting
    <3>2. \A b \in Coming' : FactsOfAnswer(b) \subseteq Facts
      BY <2>4, <3>1 DEF Facts
    <3>3. FactsOf(cache'.messages) \subseteq Facts /\ FactsOf(cache'.database) \subseteq Facts
      BY <1>3 DEF Facts
    <3> QED BY <1>2, <1>4, <3>2, <3>3, FactsKept DEF IInv
  <2>6. CallTakesOn(r, d) => AnswerTakesOn(a, d)'
    BY <1>3, <1>4, <2>2 DEF CallTakesOn, AnswerTakesOn
  <2> QED BY <1>1, <1>2, <1>4, <2>2, <2>3, <2>5, <2>6, Says
<1>5. CASE /\ r.method = "readHistory" /\ server' = [server EXCEPT !.unread = @ \ {d}]
           /\ toClient' = Append(toClient, Answer(r.method, r.id, d, 0, NoId))
  <2>1. /\ ServerType' /\ server'.members = server.members /\ server'.history = server.history
    BY <1>3, <1>5 DEF ServerType
  <2> QED BY <1>3, <1>4, <1>5, <2>1
<1>6. CASE /\ r.method = "getFullChat" /\ server' = server
           /\ toClient' = Append(toClient, Answer(r.method, r.id, d,
                                                  IF d \in server.members THEN 1 ELSE 0, NoId))
  <2>1. PICK t : t = IF d \in server.members THEN 1 ELSE 0
    OBVIOUS
  <2>2. ServerType' /\ t \in 0..1 /\ (t = 0 \/ d \in server.members)
    BY <1>3, <1>6, <2>1 DEF ServerType
  <2> QED BY <1>3, <1>4, <1>6, <2>1, <2>2
<1>7. CASE /\ r.method = "deleteHistory"
           /\ server' = [server EXCEPT !.history[d] = {}, !.unread = @ \ {d}]
           /\ toClient' = Append(toClient, Answer(r.method, r.id, d, 0, NoId))
  <2>1. /\ DOMAIN server' = {"history", "members", "unread"}
        /\ server'.members = server.members
        /\ server'.history = [server.history EXCEPT ![d] = {}]
    BY <1>3, <1>7 DEF ServerType
  <2>2. ServerType' /\ \A e \in Groups : server'.history[e] \subseteq server.history[e]
    BY <1>3, <2>1 DEF ServerType
  <2>3. FactsOfHistory(server'.history) \subseteq Facts
    <3>1. FactsOfHistory(server'.history) \subseteq FactsOfHistory(server.history)
      BY <2>2 DEF FactsOfHistory
    <3> QED BY <1>3, <3>1
  <2>4. /\ r.method = "deleteHistory"
        /\ toClient' = Append(toClient, Answer(r.method, r.id, d, 0, NoId))
    BY <1>7
  <2>5. PICK t : t = 0
    OBVIOUS
  <2>6. /\ toClient' = Append(toClient, Answer(r.method, r.id, d, t, NoId))
        /\ r.method = "deleteHistory" /\ t \in 0..1
        /\ ServerType' /\ server'.members = server.members
        /\ FactsOfHistory(server'.history) \subseteq Facts
    <3>1. toClient' = Append(toClient, Answer(r.method, r.id, d, t, NoId))
      BY <2>4, <2>5
    <3>2. t \in 0..1
      BY <2>5
    <3>3. ServerType' /\ server'.members = server.members
      BY <2>1, <2>2
    <3>4. FactsOfHistory(server'.history) \subseteq Facts
      BY <2>3
    <3> QED BY <2>4, <3>1, <3>2, <3>3, <3>4
  <2> QED BY <1>4, <2>5, <2>6
<1>8. CASE /\ r.method = "discard" /\ server' = server
           /\ toClient' = Append(toClient, Answer(r.method, r.id, d, 0, NoId))
  <2>1. ServerType'
    BY <1>3, <1>8 DEF ServerType
  <2> QED BY <1>3, <1>4, <1>8, <2>1
<1>9. CASE /\ r.method = "getDialogs" /\ server' = server
           /\ toClient' = Append(toClient, Answer(r.method, r.id, d, Listed, NoId))
  <2>1. ServerType'
    BY <1>3, <1>9 DEF ServerType
  <2>2. PICK t : t = Listed
    OBVIOUS
  <2> QED BY <1>3, <1>4, <1>9, <2>1, <2>2, ListedFacts
<1>10. CASE /\ r.method = "deleteMessages" /\ toClient' = toClient
            /\ server' = IF d \in Secrets THEN server
                         ELSE [server EXCEPT !.history[d] = {x \in @ : x.text # r.text}]
  <2>1. ServerType' /\ server'.members = server.members
        /\ \A e \in Groups : server'.history[e] \subseteq server.history[e]
    <3>1. CASE d \in Secrets
      BY <1>3, <1>10, <3>1 DEF ServerType
    <3>2. CASE d \notin Secrets
      <4>1. /\ DOMAIN server' = {"history", "members", "unread"}
            /\ server'.members = server.members
            /\ server'.history =
                 [server.history EXCEPT ![d] = {x \in server.history[d] : x.text # r.text}]
        BY <1>3, <1>10, <3>2 DEF ServerType
      <4> QED BY <1>3, <4>1 DEF ServerType
    <3> QED BY <3>1, <3>2
  <2>2. FactsOfHistory(server'.history) \subseteq Facts
    BY <1>3, <2>1 DEF FactsOfHistory
  <2>3. ~CallTakesOn(r, r.dialog)
    BY <1>10 DEF CallTakesOn
  <2> QED BY <1>2, <1>10, <2>1, <2>2, <2>3, SaysNothing
<1>11. CASE /\ r.method = "deleteChatUser" /\ d \notin server.members
            /\ toClient' = toClient /\ server' = server
  <2>1. ServerType'
    BY <1>3, <1>11 DEF ServerType
  <2>2. ~CallTakesOn(r, r.dialog)
    BY <1>1, <1>11 DEF CallTakesOn
  <2> QED BY <1>2, <1>3, <1>11, <2>1, <2>2, SaysNothing
<1> QED
  BY <1>1, <1>5, <1>6, <1>7, <1>8, <1>9, <1>10, <1>11 DEF ExecuteOther

\* The server's execution of a request, and its failure, keep the invariant.
LEMMA Executes ==
  ASSUME IInv, fault = NoFault, NEW r \in calls, Execute(r)
  PROVE  IInv'
<1>1. calls' = calls \ {r} /\ ServerLeaves /\ UNCHANGED <<texts, deletions, others>>
  BY DEF Execute, ServerLeaves
<1>2. CASE (ExecutePost(r) \/ ExecuteOther(r)) /\ failures' = failures
  BY <1>1, <1>2, ExecutesPost, ExecutesOther
<1>3. CASE failures' = failures + 1 /\ UNCHANGED <<toClient, server, stamps, collisions>>
  <2>1. ServerType' /\ failures' \in Nat /\ failures' # 0
    BY <1>3 DEF IInv, Types, ServerType, OtherType
  <2>2. FactsOfHistory(server'.history) \subseteq Facts
    BY <1>3 DEF Facts
  <2> QED BY <1>1, <1>3, <2>1, <2>2, SaysNothing
<1> QED BY <1>2, <1>3 DEF Execute

-----------------------------------------------------------------------------
(* The invariant, and what follows.                                        *)

\* The invariant holds when the program starts, with what it loaded of
\* dialogs and no message.
LEMMA Initially == Init => IInv
<1> SUFFICES ASSUME Init
             PROVE  IInv
  OBVIOUS
<1>1. /\ calls = {} /\ toClient = <<>> /\ fault = NoFault /\ requests = 0 /\ failures = 0
      /\ texts = 0 /\ stamps = 0 /\ collisions = 0 /\ forgotten = {}
      /\ server = [history |-> [d \in Groups |-> {}], members |-> Groups, unread |-> {}]
  BY DEF Init
<1>2. /\ Shape(cache) /\ DOMAIN cache.messages = {} /\ DOMAIN cache.database = {}
      /\ cache.messages_list = [d \in Dialogs |-> {}]
      /\ DOMAIN cache.pend_messages = {} /\ DOMAIN cache.read_history_requests = {}
      /\ DOMAIN cache.delete_history_requests = {} /\ cache.deleteChatIds = {}
      /\ GoneOf(cache) = {} /\ DialogsType(cache)
  BY DEF Init, Shape, EmptyMap, GoneOf, DialogsType
<1>3. Coming = {} /\ toClient \in Seq(AnswerType) /\ DOMAIN toClient = {}
  BY <1>1 DEF Coming, Range
<1>4. cache.messages \in [DOMAIN cache.messages -> MessageType]
      /\ cache.database \in [DOMAIN cache.database -> MessageType]
      /\ cache.pend_messages \in [DOMAIN cache.pend_messages -> 1..texts]
      /\ cache.delete_history_requests \in [DOMAIN cache.delete_history_requests -> Groups]
  BY DEF Init, EmptyMap
<1>5. CacheType
  BY <1>2, <1>4 DEF CacheType, MessagesType, FiledType
<1>6. NetType /\ ServerType
  BY <1>1, <1>3 DEF NetType, ServerType
<1>7. OtherType
  BY DEF Init, OtherType, NoFault, Dialogs
<1>8. Sends = {} /\ SendInv /\ UniqueSends
  BY <1>1, <1>3 DEF Sends, SendInv, UniqueSends
<1>9. TempInv(cache, texts) /\ ForgetInv
  BY <1>1, <1>2, <1>3 DEF TempInv, ForgetInv
<1>10. Facts = {}
  BY <1>1, <1>2, <1>3 DEF Facts, FactsOf, FactsOfHistory
<1>11. FactsInv /\ MarksInv /\ FaultsNeedForgetting
  BY <1>1, <1>2, <1>10 DEF FactsInv, MarksInv, FaultsNeedForgetting
<1>12. StoredInv
  BY <1>2 DEF StoredInv, Stored
<1> QED BY <1>5, <1>6, <1>7, <1>8, <1>9, <1>11, <1>12 DEF IInv, Types

\* The invariant says nothing but of the variables.
LEMMA Stutters ==
  ASSUME IInv, UNCHANGED vars
  PROVE  IInv'
<1>1. UNCHANGED <<cache, opened, cleanUpTimer, fault, held, requests, calls, toClient, server,
                  texts, stamps, failures, collisions, deletions, others, forgotten>>
  BY DEF vars, netVars, countVars
<1>2. Types'
  BY <1>1 DEF IInv, Types, CacheType, NetType, ServerType, OtherType, CallOK, AnswerOK, Coming
<1>3. Coming' = Coming /\ Sends' = Sends /\ Facts' = Facts
  BY <1>1 DEF Coming, Sends, Facts
<1>4. SendInv' /\ UniqueSends' /\ TempInv(cache, texts)' /\ ForgetInv'
  BY <1>1, <1>3 DEF IInv, SendInv, SendOK, UniqueSends, ForgetInv, FiledIsForgotten
<1>5. FactsInv' /\ MarksInv' /\ FaultsNeedForgetting' /\ StoredInv'
  BY <1>1, <1>3 DEF IInv, FactsInv, MarksInv, TakenOn, CallTakesOn, AnswerTakesOn,
     FaultsNeedForgetting, StoredInv, Sending
<1> QED BY <1>2, <1>4, <1>5 DEF IInv

\* Every step of the program and of the server keeps the invariant.
LEMMA NextStep == IInv /\ [Next]_vars => IInv'
<1> SUFFICES ASSUME IInv, [Next]_vars
             PROVE  IInv'
  OBVIOUS
<1>1. ASSUME fault = NoFault, NEW d \in Dialogs, SendMessage(d)
      PROVE  IInv'
  BY <1>1, SendsText
<1>2. ASSUME fault = NoFault, NEW id, DeleteMessage(id)
      PROVE  IInv'
  BY <1>2, DeletesMessage
<1>3. ASSUME fault = NoFault, NEW d \in Dialogs,
             DeleteChat(d) \/ ClearHistory(d) \/ LeaveGroup(d) \/ MarkRead(d)
      PROVE  IInv'
  BY <1>3, DeletesChat, ClearsHistory, LeavesGroup, MarksRead
<1>4. ASSUME fault = NoFault, NEW d \in Dialogs \cup {NoDialog}, Open(d)
      PROVE  IInv'
  BY <1>4, Opens
<1>5. ASSUME fault = NoFault, FreeGarbages \/ CleanUp \/ UpdateDialogs \/ Receive
      PROVE  IInv'
  BY <1>5, FreesGarbages, CleansUp, UpdatesDialogs, Receives
<1>6. ASSUME fault = NoFault, NEW r \in calls, Execute(r)
      PROVE  IInv'
  BY <1>6, Executes
<1>7. ASSUME fault = NoFault, NEW d \in Dialogs, Incoming(d)
      PROVE  IInv'
  BY <1>7, SomebodyWrites
<1> QED BY <1>1, <1>2, <1>3, <1>4, <1>5, <1>6, <1>7, Stutters DEF Next

\* The invariant holds in every reachable state, for any groups, secret chats
\* and bounds.
THEOREM Inductive == Spec => []IInv
<1> QED BY Initially, NextStep, PTL DEF Spec

\* The maps of the cache hold what their declarations say: requests are filed
\* under numbers that were made, texts that were written, deletions of
\* groups, and only pending messages and secret chats are ever freed.
THEOREM TypeCorrect == Spec => []TypeOK
<1>1. IInv => TypeOK
  <2> SUFFICES ASSUME IInv
               PROVE  TypeOK
    OBVIOUS
  <2>1. /\ MessagesType(cache) /\ DialogsType(cache) /\ FiledType(cache, texts, requests)
        /\ ServerType /\ OtherType
    BY DEF IInv, Types, CacheType
  <2>2. /\ Range(cache.pend_messages) \subseteq 1..texts
        /\ Range(cache.delete_history_requests) \subseteq Dialogs
    BY <2>1 DEF FiledType, Range, Dialogs
  <2>3. \A id \in cache.garbages \cup cache.freed : id \in Secrets \/ IsTemp(id)
    BY <2>1 DEF MessagesType, GoneOf, Objects, IsTemp, Temp
  <2>4. fault.kind \in {"none", "message", "chat", "dialog"}
    BY <2>1 DEF OtherType
  <2> QED BY <2>1, <2>2, <2>3, <2>4
          DEF FiledType, DialogsType, MessagesType, OtherType, ServerType, TypeOK, Dialogs
<1> QED BY <1>1, Inductive, PTL

\* No handler uses a freed message or chat, or a dialog that is not there,
\* but for a dialog that the user deleted something of or had left for a
\* minute, in whatever order requests are executed, answers come and the two
\* timers fire.
THEOREM FaultsCorrect == Spec => []FaultsNeedForgetting
<1>1. IInv => FaultsNeedForgetting
  BY DEF IInv
<1> QED BY <1>1, Inductive, PTL

\* What a dialog lists is a message of it, in the database as it is shown, or
\* a text that is being sent, or came in an update and is not there yet: no
\* answer, list of dialogs, deletion or clean-up leaves a message shown that is
\* nowhere or otherwise in the database, or a pending one whose answer has come.
THEOREM StoredCorrect == Spec => []CacheIsStored
<1>1. IInv => CacheIsStored
  <2> SUFFICES ASSUME IInv, collisions = 0, NEW d \in Dialogs, NEW id \in cache.messages_list[d]
               PROVE  /\ Has(cache.messages, id) /\ cache.messages[id].dialog = d
                      /\ IF IsTemp(id)
                         THEN UnderWay({"sendMessage"}, d, id[2]) \/ failures > 0
                         ELSE \/ Has(cache.database, id) /\ cache.database[id] = cache.messages[id]
                              \/ ~Has(cache.database, id) /\ IsUpdate(id)
                              \/ d \in Secrets \cap forgotten
    BY DEF CacheIsStored
  <2>1. /\ Has(cache.messages, id) /\ cache.messages[id].dialog = d
        /\ \/ IsTemp(id) \/ IsUpdate(id) \/ d \in Secrets \cap forgotten
           \/ Has(cache.database, id) /\ cache.database[id] = cache.messages[id]
    BY DEF IInv, StoredInv, Stored
  <2>3. ASSUME ~IsTemp(id), Has(cache.database, id)
        PROVE  cache.database[id] = cache.messages[id]
    <3> PICK m, k : m = cache.messages[id] /\ k = cache.database[id]
      OBVIOUS
    <3>1. Fact(id, m.dialog, m.text) \in Facts /\ Fact(id, k.dialog, k.text) \in Facts
      BY <2>1, <2>3 DEF Facts, FactsOf, Has
    <3>2. Fact(id, m.dialog, m.text) = Fact(id, k.dialog, k.text)
      BY <3>1, Zenon DEF IInv, FactsInv, Fact
    <3>3. m.dialog = k.dialog /\ m.text = k.text
      BY <3>2 DEF Fact
    <3>4. m \in MessageType /\ k \in MessageType
      BY <2>1, <2>3 DEF IInv, Types, CacheType, MessagesType, Has
    <3> QED BY <3>3, <3>4 DEF MessageType
  <2>2. ASSUME IsTemp(id), ~(failures > 0)
        PROVE  UnderWay({"sendMessage"}, d, id[2])
    <3>1. failures = 0 /\ id \in Ids
      BY <2>2 DEF IInv, Types, OtherType, CacheType, MessagesType
    <3>2. id = Temp(id[2]) /\ id[2] \in Nat
      BY <2>2, <3>1 DEF Temp, IsTemp, Ids
    <3>3. Sending(d, id[2])
      BY <3>1, <3>2 DEF IInv, StoredInv
    <3> QED BY <3>3 DEF Sending, Sends, SendOf, UnderWay, Coming, Range
  <2> QED BY <2>1, <2>2, <2>3
<1> QED BY <1>1, Inductive, PTL

\* A chat is marked for deletion only while a request of its deletion is
\* under way, through the whole loop of reading, leaving and deleting, as
\* long as no request fails: a later clearing of the history does not delete
\* the chat.
THEOREM MarksCorrect == Spec => []MarksAreWorkedOff
<1>1. IInv => MarksAreWorkedOff
  <2> SUFFICES ASSUME IInv, NEW d \in cache.deleteChatIds, ~(failures > 0), fault = NoFault
               PROVE  \E m \in DeletionSteps : \E t \in 0..1 : UnderWay({m}, d, t)
    BY DEF MarksAreWorkedOff
  <2>1. failures = 0 /\ TakenOn(d)
    BY DEF IInv, MarksInv, Types, OtherType
  <2>2. ASSUME NEW r \in calls, CallTakesOn(r, d)
        PROVE  r.method \in DeletionSteps /\ r.text \in 0..1 /\ r.dialog = d
    BY <2>2 DEF IInv, Types, NetType, CallOK, CallTakesOn, DeletionSteps
  <2>3. ASSUME NEW a \in Coming, AnswerTakesOn(a, d)
        PROVE  a.kind \in DeletionSteps /\ a.text \in 0..1 /\ a.dialog = d
    BY <2>3 DEF IInv, Types, NetType, AnswerOK, AnswerTakesOn, DeletionSteps
  <2>4. CASE \E r \in calls : CallTakesOn(r, d)
    BY <2>2, <2>4 DEF UnderWay
  <2>5. CASE \E a \in Coming : AnswerTakesOn(a, d)
    <3>1. PICK i \in DOMAIN toClient : AnswerTakesOn(toClient[i], d) /\ toClient[i] \in Coming
      BY <2>5 DEF Coming, Range
    <3>2. toClient[i].kind \in DeletionSteps /\ toClient[i].text \in 0..1 /\ toClient[i].dialog = d
      BY <2>3, <3>1
    <3>3. UnderWay({toClient[i].kind}, d, toClient[i].text)
      BY <3>2 DEF UnderWay
    <3> QED BY <3>2, <3>3
  <2> QED BY <2>1, <2>4, <2>5 DEF TakenOn
<1> QED BY <1>1, Inductive, PTL
=============================================================================

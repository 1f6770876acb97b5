---------------------------- MODULE MessageCache ----------------------------
(***************************************************************************)
(* TelegramQml's cache of messages and dialogs (TelegramQML/telegramqml.cpp): *)
(* messages that are sent and shown as pending until the answer comes,      *)
(* incoming messages, the deletion of messages, histories and chats, and the *)
(* two timers that free objects.                                            *)
(*                                                                         *)
(* A pending message is filed under the identifier of its request, which is *)
(* not the one the answer has when the session sends the query later or     *)
(* again under a new one; without a connection every request is -1.  Server *)
(* messages are filed under their identifier, secret ones under their date; *)
(* the identifier of the model also tells how the client hears of a message: *)
(* by a short update or an answer ("post"), or in an update that holds it    *)
(* ("update").                                                               *)
(* Requests are executed in any order, answers and updates come in the      *)
(* order of their making.  A handler that uses a freed object or a missing  *)
(* dialog ends the process, and the model with it.                          *)
(***************************************************************************)
EXTENDS Integers, Sequences, FiniteSets, Functions

CONSTANTS
  Groups, Secrets,   \* dialogs: group chats and secret chats
  NoDialog,          \* no dialog is opened
  MaxTexts,          \* bound: texts sent and received
  MaxDeletions,      \* bound: deletions the user asks for
  MaxEvents          \* bound: texts, deletions, dialogs opened or read, updates
                     \* of the list of dialogs and disturbances, together

Dialogs == Groups \cup Secrets

ASSUME DialogsAssumption == Groups \cap Secrets = {} /\ NoDialog \notin Dialogs
\* The object of a chat is none of a message.
ASSUME ObjectsAssumption == Dialogs \cap ({"temp"} \X Nat) = {}
ASSUME BoundsAssumption == MaxTexts \in Nat /\ MaxDeletions \in Nat /\ MaxEvents \in Nat

VARIABLES
  cache,        \* the members of TelegramQmlPrivate, and the database
  opened,       \* the dialog of the messages model
  cleanUpTimer, \* a change of the opened dialog is to be cleaned up after
  fault,        \* what ended the process
  held,         \* secret chats of the library
  requests,     \* requests made so far
  calls,        \* requests the server did not execute yet
  toClient,     \* answers and updates under way
  server,       \* history, members and unread dialogs
  texts, stamps, \* counters: texts, and messages numbered by the server
  failures,     \* requests made offline or answered by an error
  collisions,   \* secret messages of the same second as the one before
  deletions,    \* deletions the user asked for
  others,       \* events that are none of these
  forgotten     \* dialogs that the user deleted from, or left for a minute

netVars   == <<requests, calls, toClient, server, held, failures>>
countVars == <<texts, stamps, collisions, deletions, others>>
vars == <<cache, opened, cleanUpTimer, fault, netVars, countVars, forgotten>>

EventLeft == texts + failures + collisions + deletions + others < MaxEvents

Offline == -1
NoId    == <<"none", 0>>
Temp(n) == <<"temp", n>>     \* newMessage: counted from INT_MAX - 100000
IsTemp(id) == id[1] = "temp"
NoFault == [kind |-> "none", dialog |-> NoDialog]

EmptyMap        == [i \in {} |-> 0]
Insert(m, k, v) == [i \in DOMAIN m \cup {k} |-> IF i = k THEN v ELSE m[i]]
Remove(m, k)    == [i \in DOMAIN m \ {k} |-> m[i]]
Has(m, k)       == k \in DOMAIN m

-----------------------------------------------------------------------------
(* Operations on the cache.                                                *)

\* Mutant: a pending message is stored, too.
InsertMessageStored(c, id, d, t, tempMsg) ==
  [c EXCEPT
    !.messages = Insert(@, id, [dialog |-> d, text |-> t]),
    !.messages_list[d] = IF Has(c.messages, id) THEN @ ELSE @ \cup {id},
    !.database = Insert(@, id, [dialog |-> d, text |-> t])]

\* insertMessage: an identifier that is there keeps its place in the list.
InsertMessage(c, id, d, t, tempMsg) ==
  [c EXCEPT
    !.messages = Insert(@, id, [dialog |-> d, text |-> t]),
    !.messages_list[d] = IF Has(c.messages, id) THEN @ ELSE @ \cup {id},
    !.database = IF tempMsg THEN @ ELSE Insert(@, id, [dialog |-> d, text |-> t])]

\* updateEncryptedTopMessage puts the date in the place of the identifier.
UpdateEncryptedTop(c, d) ==
  IF c.topMessage[d] = NoId \/ Has(c.messages, c.topMessage[d])
  THEN [c EXCEPT !.topMessage[d] = <<"date", 0>>] ELSE c

\* insertToGarbeges of a message: it takes pending messages out under the
\* identifier of the message, which is no key of pend_messages.
InsertToGarbeges(c, id) ==
  IF ~Has(c.messages, id) THEN c
  ELSE [c EXCEPT !.messages_list[c.messages[id].dialog] = @ \ {id},
                 !.messages = Remove(@, id),
                 !.garbages = @ \cup (IF IsTemp(id) THEN {id} ELSE {})]

\* insertToGarbeges for each message of the dialog's list.
ListToGarbeges(c, d) ==
  LET gone == c.messages_list[d]
  IN  [c EXCEPT !.messages_list[d] = {},
                !.messages = Restrict(@, DOMAIN @ \ gone),
                !.garbages = @ \cup {id \in gone : IsTemp(id)}]

\* Mutant: the mark stays.
DeleteLocalHistoryMarked(c, d) ==
  LET cleared ==
        [c EXCEPT !.topMessage[d] = NoId, !.unread = @ \ {d},
                  !.database = [id \in {i \in DOMAIN @ : @[i].dialog # d} |-> @[id]]]
      local == IF d \in Secrets THEN cleared ELSE ListToGarbeges(cleared, d)
  IN  IF d \notin c.deleteChatIds THEN local
      ELSE [local EXCEPT !.dialogs = @ \ {d}, !.chats = @ \ {d},
                         !.garbages = @ \cup ({d} \cap Secrets)]

\* deleteLocalHistory.  The messages of a secret chat are looked up in a map
\* they are not in; the object of the chat is freed later and stays in its map.
DeleteLocalHistory(c, d) ==
  LET cleared ==
        [c EXCEPT !.topMessage[d] = NoId, !.unread = @ \ {d},
                  !.database = [id \in {i \in DOMAIN @ : @[i].dialog # d} |-> @[id]]]
      local == IF d \in Secrets THEN cleared ELSE ListToGarbeges(cleared, d)
  IN  IF d \notin c.deleteChatIds THEN local
      ELSE [local EXCEPT !.dialogs = @ \ {d}, !.chats = @ \ {d},
                         !.deleteChatIds = @ \ {d},
                         !.garbages = @ \cup ({d} \cap Secrets)]

-----------------------------------------------------------------------------
(* Requests.                                                               *)

Call(method, id, d, t) == [method |-> method, id |-> id, dialog |-> d, text |-> t]

NoRequest == UNCHANGED <<requests, calls, failures>>

MakeRequests(methods, d, t) ==
  /\ requests' = requests + Len(methods)
  /\ calls' = calls \cup {Call(methods[i], requests + i, d, t) : i \in DOMAIN methods}

\* Requests that the cache does not file.
Ask(methods, d, t, c) ==
  /\ MakeRequests(methods, d, t)
  /\ cache' = c
  /\ UNCHANGED <<failures, fault>>

\* The identifiers the caller may be told of the last of the requests.
Told(methods) == {requests + Len(methods), Offline}

\* The cache c files the last of the requests under the identifier it was told.
AskThen(methods, d, t, told, c) ==
  /\ told = Offline => texts' + failures + collisions + deletions' + others' < MaxEvents
  /\ failures' = IF told = Offline THEN failures + 1 ELSE failures
  /\ cache' = c
  /\ MakeRequests(methods, d, t)
  /\ UNCHANGED fault

Fault(kind, d) ==
  /\ fault' = [kind |-> kind, dialog |-> d]
  /\ UNCHANGED cache /\ NoRequest

Becomes(c) == cache' = c /\ UNCHANGED fault /\ NoRequest

\* Mutant: an unread history is only read.
DeleteAfterReadingNever(c, id, d) ==
  [c EXCEPT !.read_history_requests = Insert(@, id, d)]

\* An unread history is read before it is deleted.
DeleteAfterReading(c, id, d) ==
  [c EXCEPT !.read_history_requests = Insert(@, id, d),
            !.delete_history_requests = Insert(@, id, d)]

\* messagesDeleteHistory(d, deleteChat, userRemoved) of a group, from the cache
\* c, after the requests asked.  (No page calls it for a secret chat.)
DeleteHistory(c, d, deleteChat, userRemoved, asked) ==
  LET m == IF deleteChat THEN [c EXCEPT !.deleteChatIds = @ \cup {d}] ELSE c
      leave == d \in m.chats /\ d \in m.deleteChatIds /\ ~userRemoved
      Filed(id) == [m EXCEPT !.delete_history_requests = Insert(@, id, d)]
      Read(id)  == DeleteAfterReading(m, id, d)
  IN
  \/ d \notin m.dialogs /\ Fault("dialog", d)
  \/ /\ d \in m.dialogs /\ d \in m.unread
     /\ LET read == asked \o <<"readHistory">>
        IN  \E told \in Told(read) : AskThen(read, d, 0, told, Read(told))
  \/ d \in m.dialogs \ m.unread /\ leave /\ Ask(asked \o <<"getFullChat">>, d, 0, m)
  \/ /\ d \in m.dialogs \ m.unread /\ ~leave
     /\ LET delete == asked \o <<"deleteHistory">>
        IN  \E told \in Told(delete) : AskThen(delete, d, 0, told, Filed(told))

-----------------------------------------------------------------------------
(* The user.                                                               *)

\* sendMessage.
SendMessage(d) ==
  LET n == texts + 1
      shown == InsertMessage(cache, Temp(n), d, n, TRUE)
      c == IF d \in Secrets THEN UpdateEncryptedTop(shown, d) ELSE shown
      Filed(id) == [c EXCEPT !.pend_messages = Insert(@, id, n)]
  IN
  /\ n <= MaxTexts /\ EventLeft /\ d \in cache.dialogs /\ (d \in Secrets => d \in held)
  /\ texts' = n
  /\ UNCHANGED <<deletions, others>>
  /\ \E told \in Told(<<"sendMessage">>) :
       AskThen(<<"sendMessage">>, d, n, told, Filed(told))
  /\ UNCHANGED <<opened, cleanUpTimer, held, toClient, server, stamps,
                 collisions, forgotten>>

Wish(d) ==
  /\ deletions < MaxDeletions /\ EventLeft /\ deletions' = deletions + 1
  /\ forgotten' = forgotten \cup {d}
  /\ UNCHANGED <<opened, cleanUpTimer, toClient, server, held, texts, stamps,
                 collisions, others>>

\* deleteMessages for one message of the opened dialog.
DeleteMessage(id) ==
  /\ opened # NoDialog /\ id \in cache.messages_list[opened]
  /\ Has(cache.messages, id)
  /\ Wish(opened)
  /\ Ask(<<"deleteMessages">>, opened, cache.messages[id].text,
         InsertToGarbeges([cache EXCEPT !.database = Remove(@, id)], id))

\* messagesDiscardEncryptedChat.
Discard(d, c) == d \in held /\ Ask(<<"discard">>, d, 0, c)

\* Two pages set the count of unread messages to zero before they delete.
Seen(d) == [cache EXCEPT !.unread = @ \ {d}]

\* DialogsPage.qml: the chat is deleted.
DeleteChat(d) ==
  /\ d \in cache.dialogs
  /\ Wish(d)
  /\ IF d \in Secrets
     THEN Discard(d, DeleteLocalHistory([Seen(d) EXCEPT !.deleteChatIds = @ \cup {d}], d))
     ELSE DeleteHistory(Seen(d), d, TRUE, FALSE, <<>>)

\* DialogInfoPage.qml: the history is deleted, a secret chat is discarded.
ClearHistory(d) ==
  /\ d \in cache.dialogs
  /\ Wish(d)
  /\ IF d \in Secrets THEN Discard(d, Seen(d))
     ELSE DeleteHistory(Seen(d), d, FALSE, FALSE, <<>>)

\* ChatInfo.qml: the user leaves the group.
LeaveGroup(d) ==
  /\ d \in Groups \cap cache.dialogs
  /\ Wish(d)
  /\ DeleteHistory(cache, d, FALSE, FALSE, <<"deleteChatUser">>)

\* DialogsPage.qml: the dialog is marked as read.
MarkRead(d) ==
  LET Read(id) == [cache EXCEPT !.read_history_requests = Insert(@, id, d)]
  IN
  /\ d \in cache.unread
  /\ EventLeft /\ others' = others + 1
  /\ UNCHANGED <<opened, cleanUpTimer, toClient, server, held, texts, stamps,
                 collisions, deletions, forgotten>>
  /\ \E told \in Told(<<"readHistory">>) :
       AskThen(<<"readHistory">>, d, 0, told, Read(told))

\* The user opens another dialog; the clean-up comes a minute later.
Open(d) ==
  /\ d # opened /\ d \in cache.dialogs \cup {NoDialog}
  /\ EventLeft /\ others' = others + 1
  /\ opened' = d /\ cleanUpTimer' = TRUE
  /\ UNCHANGED <<cache, fault, netVars, texts, stamps, collisions, deletions,
                 forgotten>>

-----------------------------------------------------------------------------
(* Timers.                                                                 *)

\* timerEvent, garbage_checker_timer.
FreeGarbages ==
  /\ cache.garbages # {}
  /\ cache' = [cache EXCEPT !.garbages = {}, !.freed = @ \cup cache.garbages]
  /\ UNCHANGED <<opened, cleanUpTimer, fault, netVars, countVars, forgotten>>

\* Mutant: the messages of the opened dialog are not locked.
LockedTops == {cache.topMessage[d] : d \in cache.dialogs}

\* cleanUpMessages_prv: pending messages are locked by the identifiers of
\* their requests, so none is.
Locked ==
  {cache.topMessage[d] : d \in cache.dialogs}
    \cup (IF opened = NoDialog THEN {} ELSE cache.messages_list[opened])

CleanUp ==
  /\ cleanUpTimer /\ cleanUpTimer' = FALSE
  /\ cache' = [cache EXCEPT
       !.messages = Restrict(@, DOMAIN @ \cap Locked),
       !.messages_list = [d \in Dialogs |-> @[d] \cap Locked],
       !.freed = @ \cup {id \in DOMAIN cache.messages \ Locked : IsTemp(id)}]
  /\ forgotten' = forgotten \cup (Dialogs \ {opened})
  /\ UNCHANGED <<opened, fault, netVars, countVars>>

\* timerEvent, upd_dialogs_timer; almost every handler starts it.
UpdateDialogs ==
  /\ EventLeft /\ others' = others + 1
  /\ MakeRequests(<<"getDialogs">>, NoDialog, 0)
  /\ UNCHANGED <<cache, opened, cleanUpTimer, fault, toClient, server, held,
                 failures, texts, stamps, collisions, deletions, forgotten>>

-----------------------------------------------------------------------------
(* Answers and updates.                                                    *)

\* Mutant: the message shown as pending stays.
SentWithPending(c, a) ==
  InsertMessage([c EXCEPT !.pend_messages = Remove(@, a.id)], a.post, a.dialog, a.text, FALSE)

\* messagesSendMessage_slt and messagesSendEncrypted_slt.
Sent(c, a) ==
  InsertMessage(InsertToGarbeges([c EXCEPT !.pend_messages = Remove(@, a.id)], Temp(a.text)),
                a.post, a.dialog, a.text, FALSE)

OnSent(a) ==
  /\ a.kind = "sendMessage"
  /\ IF ~Has(cache.pend_messages, a.id) THEN Becomes(cache)
     ELSE IF Temp(cache.pend_messages[a.id]) \in cache.freed THEN Fault("message", a.dialog)
     ELSE Becomes(Sent(cache, a))

\* insertUpdates and updates_slt with a typeUpdateNewMessage: the message is
\* listed, but not stored; the dialogs follow with their next list.
WithUpdate(c, a) ==
  [InsertMessage(c, a.post, a.dialog, a.text, TRUE) EXCEPT !.chats = @ \cup {a.dialog}]

IsUpdate(id) == id[1] = "update"

OnUpdate(a) == a.kind = "message" /\ IsUpdate(a.post) /\ Becomes(WithUpdate(cache, a))

\* updateShortChatMessage_slt and insertSecretChatMessage.
OnMessage(a) ==
  LET d == a.dialog
      c == InsertMessage(cache, a.post, d, a.text, FALSE)
  IN
  /\ a.kind = "message" /\ ~IsUpdate(a.post)
  /\ IF d \in Secrets /\ d \notin held THEN Becomes(cache)
     ELSE IF d \in Secrets /\ d \in cache.freed THEN Fault("chat", d)
     ELSE Becomes([c EXCEPT !.dialogs = @ \cup {d}, !.topMessage[d] = a.post,
                            !.unread = @ \cup {d}])

\* messagesReadHistory_slt.
OnRead(a) ==
  LET d == a.dialog
      Read(c) == [c EXCEPT !.unread = IF Has(c.read_history_requests, a.id) THEN @ \ {d} ELSE @,
                           !.read_history_requests = Remove(@, a.id)]
  IN
  /\ a.kind = "readHistory"
  /\ IF Has(cache.delete_history_requests, a.id)
     THEN DeleteHistory([Read(cache) EXCEPT !.delete_history_requests = Remove(@, a.id)],
                        d, FALSE, FALSE, <<>>)
     ELSE Becomes(Read(cache))

\* messagesGetFullChat_slt; a.text tells whether the user is a participant.
OnFullChat(a) ==
  LET c == [cache EXCEPT !.chats = @ \cup {a.dialog}]
      marked == a.dialog \in cache.deleteChatIds
  IN
  /\ a.kind = "getFullChat"
  /\ \/ ~marked /\ Becomes(c)
     \/ marked /\ a.text = 1 /\ Ask(<<"deleteChatUser">>, a.dialog, 0, c)
     \/ marked /\ a.text = 0 /\ DeleteHistory(c, a.dialog, TRUE, TRUE, <<>>)

\* messagesDeleteChatUser_slt: the answer holds an update with the message of
\* the departure.
OnLeft(a) ==
  LET c == WithUpdate(cache, a)
  IN
  /\ a.kind = "deleteChatUser"
  /\ IF a.dialog \in cache.deleteChatIds THEN DeleteHistory(c, a.dialog, TRUE, TRUE, <<>>)
     ELSE Becomes(c)

\* messagesDeleteHistory_slt.
OnHistoryDeleted(a) ==
  /\ a.kind = "deleteHistory"
  /\ IF Has(cache.delete_history_requests, a.id)
     THEN Becomes(DeleteLocalHistory(
                    [cache EXCEPT !.delete_history_requests = Remove(@, a.id)], a.dialog))
     ELSE Becomes(cache)

\* messagesEncryptedChatDiscarded_slt.
OnDiscarded(a) ==
  /\ a.kind = "discard"
  /\ IF a.dialog \in cache.freed THEN Fault("chat", a.dialog)
     ELSE IF a.dialog \in cache.deleteChatIds THEN Becomes(DeleteLocalHistory(cache, a.dialog))
     ELSE Becomes(cache)

InsertTops(c, entries) ==
  LET tops == {[dialog |-> e.dialog, text |-> e.top.text, post |-> e.top.post] :
                 e \in {x \in entries : x.top.post # NoId}}
      Top(id) == CHOOSE t \in tops : t.post = id
      ids == {t.post : t \in tops}
      all == [id \in ids |-> [dialog |-> Top(id).dialog, text |-> Top(id).text]]
      Merge(m) == [id \in DOMAIN m \cup ids |-> IF id \in ids THEN all[id] ELSE m[id]]
  IN  [c EXCEPT !.messages = Merge(@), !.database = Merge(@),
         !.messages_list = [d \in Dialogs |-> @[d] \cup {id \in ids \ DOMAIN c.messages : all[id].dialog = d}],
         !.topMessage = [d \in Dialogs |->
                           IF \E e \in entries : e.dialog = d
                           THEN (CHOOSE e \in entries : e.dialog = d).top.post ELSE @[d]]]

\* messagesGetDialogs_slt and refreshSecretChats, which goes through the chats
\* of the library.
OnDialogs(a) ==
  LET named == {e.dialog : e \in a.text}
      c == [InsertTops(cache, a.text) EXCEPT
              !.dialogs = (@ \cap Secrets) \cup named \cup held,
              !.chats = @ \cup named,
              !.unread = {e.dialog : e \in {x \in a.text : x.unread}} \cup ((@ \cap Secrets) \ held)]
  IN
  /\ a.kind = "getDialogs"
  /\ IF held \cap cache.freed # {} THEN Fault("chat", CHOOSE s \in held \cap cache.freed : TRUE)
     ELSE Becomes(c)

Receive ==
  /\ toClient # <<>>
  /\ UNCHANGED <<opened, cleanUpTimer, server, countVars, forgotten>>
  /\ LET a == Head(toClient)
     IN  /\ \/ OnSent(a) \/ OnUpdate(a) \/ OnMessage(a) \/ OnRead(a) \/ OnFullChat(a) \/ OnLeft(a)
            \/ OnHistoryDeleted(a) \/ OnDiscarded(a) \/ OnDialogs(a)
         /\ held' = IF a.kind = "discard" THEN held \ {a.dialog} ELSE held
  /\ toClient' = Tail(toClient)

-----------------------------------------------------------------------------
(* The server.                                                             *)

Answer(kind, id, d, t, post) ==
  [kind |-> kind, id |-> id, dialog |-> d, text |-> t, post |-> post]

\* The identifier of the next message in d; secret messages may have one date.
Kinds(d) == IF d \in Secrets THEN {"date"} ELSE {"post", "update"}

Stamped(d, post) ==
  \/ /\ stamps' = stamps + 1 /\ UNCHANGED collisions
     /\ post \in Kinds(d) \X {stamps + 1}
  \/ /\ d \in Secrets /\ stamps > 0 /\ EventLeft
     /\ collisions' = collisions + 1 /\ UNCHANGED stamps
     /\ post = <<"date", stamps>>

Posts(d) == Kinds(d) \X {stamps, stamps + 1}

Posted(d, post, t) ==
  IF d \in Secrets THEN server
  ELSE [server EXCEPT !.history[d] = @ \cup {[post |-> post, text |-> t]}]

TopOf(h) ==
  IF h = {} THEN [post |-> NoId, text |-> 0]
  ELSE CHOOSE x \in h : \A y \in h : y.post[2] <= x.post[2]

\* The list of dialogs: a group that was left is there while it has a history.
Listed ==
  {[dialog |-> d, top |-> TopOf(server.history[d]), unread |-> d \in server.unread] :
     d \in {g \in Groups : g \in server.members \/ server.history[g] # {}}}

ExecutePost(r) ==
  /\ r.method = "sendMessage" \/ (r.method = "deleteChatUser" /\ r.dialog \in server.members)
  /\ \E post \in Posts(r.dialog) :
       /\ Stamped(r.dialog, post) /\ (IsUpdate(post) <=> r.method = "deleteChatUser")
       /\ toClient' = Append(toClient, Answer(r.method, r.id, r.dialog, r.text, post))
       /\ server' = [Posted(r.dialog, post, r.text) EXCEPT
                       !.members = IF r.method = "deleteChatUser" THEN @ \ {r.dialog} ELSE @]

ExecuteOther(r) ==
  LET d == r.dialog
      Say(t) == toClient' = Append(toClient, Answer(r.method, r.id, d, t, NoId))
  IN
  /\ \/ /\ r.method = "readHistory" /\ Say(0)
        /\ server' = [server EXCEPT !.unread = @ \ {d}]
     \/ /\ r.method = "getFullChat" /\ Say(IF d \in server.members THEN 1 ELSE 0)
        /\ UNCHANGED server
     \/ /\ r.method = "deleteHistory" /\ Say(0)
        /\ server' = [server EXCEPT !.history[d] = {}, !.unread = @ \ {d}]
     \/ r.method = "discard" /\ Say(0) /\ UNCHANGED server
     \/ r.method = "getDialogs" /\ Say(Listed) /\ UNCHANGED server
     \/ /\ r.method = "deleteMessages" /\ UNCHANGED toClient
        /\ server' = IF d \in Secrets THEN server
                     ELSE [server EXCEPT !.history[d] = {x \in @ : x.text # r.text}]
     \/ /\ r.method = "deleteChatUser" /\ d \notin server.members   \* an error
        /\ UNCHANGED <<toClient, server>>
  /\ UNCHANGED <<stamps, collisions>>

Execute(r) ==
  /\ \/ (ExecutePost(r) \/ ExecuteOther(r)) /\ UNCHANGED failures
     \/ /\ EventLeft /\ failures' = failures + 1    \* error_slt
        /\ UNCHANGED <<toClient, server, stamps, collisions>>
  /\ calls' = calls \ {r}
  /\ UNCHANGED <<cache, opened, cleanUpTimer, fault, held, requests, texts,
                 deletions, others, forgotten>>

\* Somebody writes in d.
Incoming(d) ==
  /\ texts < MaxTexts /\ EventLeft /\ texts' = texts + 1
  /\ d \in server.members \cup held
  /\ \E post \in Posts(d) :
       /\ Stamped(d, post)
       /\ toClient' = Append(toClient, Answer("message", 0, d, texts + 1, post))
       /\ server' = [Posted(d, post, texts + 1) EXCEPT !.unread = @ \cup ({d} \cap Groups)]
  /\ UNCHANGED <<cache, opened, cleanUpTimer, fault, held, requests, calls,
                 failures, deletions, others, forgotten>>

-----------------------------------------------------------------------------
Init ==
  /\ cache = [messages |-> EmptyMap, messages_list |-> [d \in Dialogs |-> {}],
              database |-> EmptyMap, pend_messages |-> EmptyMap, dialogs |-> Dialogs,
              chats |-> Groups,
              unread |-> {}, topMessage |-> [d \in Dialogs |-> NoId],
              garbages |-> {}, freed |-> {}, deleteChatIds |-> {},
              read_history_requests |-> EmptyMap, delete_history_requests |-> EmptyMap]
  /\ opened = NoDialog /\ cleanUpTimer = FALSE /\ fault = NoFault /\ held = Secrets
  /\ requests = 0 /\ calls = {} /\ toClient = <<>>
  /\ server = [history |-> [d \in Groups |-> {}], members |-> Groups, unread |-> {}]
  /\ texts = 0 /\ stamps = 0 /\ failures = 0 /\ collisions = 0 /\ deletions = 0 /\ others = 0
  /\ forgotten = {}

Next ==
  /\ fault = NoFault
  /\ \/ \E d \in Dialogs : SendMessage(d)
     \/ \E d \in Dialogs : \E id \in cache.messages_list[d] : DeleteMessage(id)
     \/ \E d \in Dialogs : DeleteChat(d)
     \/ \E d \in Dialogs : ClearHistory(d)
     \/ \E d \in Dialogs : LeaveGroup(d)
     \/ \E d \in Dialogs : MarkRead(d)
     \/ \E d \in Dialogs \cup {NoDialog} : Open(d)
     \/ FreeGarbages
     \/ CleanUp
     \/ UpdateDialogs
     \/ Receive
     \/ \E r \in calls : Execute(r)
     \/ \E d \in Dialogs : Incoming(d)

Spec == Init /\ [][Next]_vars

\* The server executes what it is asked, and the event loop takes what comes.
FairSpec ==
  /\ Spec
  /\ WF_vars(fault = NoFault /\ \E r \in calls : Execute(r))
  /\ WF_vars(fault = NoFault /\ Receive)

-----------------------------------------------------------------------------
(* Properties.                                                             *)

TypeOK ==
  /\ Range(cache.pend_messages) \subseteq 1..texts
  /\ DOMAIN cache.pend_messages \subseteq {Offline} \cup 1..requests
  /\ DOMAIN cache.read_history_requests \subseteq {Offline} \cup 1..requests
  /\ Range(cache.delete_history_requests) \subseteq Dialogs
  /\ cache.dialogs \subseteq Dialogs /\ cache.unread \subseteq Dialogs
  /\ cache.chats \subseteq Groups
  /\ cache.deleteChatIds \subseteq Dialogs
  /\ \A id \in cache.garbages \cup cache.freed : id \in Secrets \/ IsTemp(id)
  /\ \A id \in DOMAIN cache.database : ~IsTemp(id)
  /\ opened \in Dialogs \cup {NoDialog} /\ cleanUpTimer \in BOOLEAN
  /\ fault.kind \in {"none", "message", "chat", "dialog"}
  /\ held \subseteq Secrets /\ forgotten \subseteq Dialogs
  /\ server.members \subseteq Groups

\* No handler uses a freed message or chat, or a dialog that is not there, but
\* for a dialog that the user deleted something of or had left for a minute:
\* sending and receiving in any order, with the timers at any time, is safe.
FaultsNeedForgetting == fault # NoFault => fault.dialog \in forgotten

UnderWay(methods, d, t) ==
  \/ \E r \in calls : r.method \in methods /\ r.dialog = d /\ r.text = t
  \/ \E i \in DOMAIN toClient :
       toClient[i].kind \in methods /\ toClient[i].dialog = d /\ toClient[i].text = t

\* What a dialog lists is a message of it, that is in the database as it is
\* shown or is being sent just now; nothing is shown twice.  (A message that
\* came in an update is only listed, until it is the top of a list of dialogs:
\* telegramqml.cpp:4679.  The messages of a deleted secret chat stay:
\* deleteLocalHistory does not find them.  Two secret messages of one second
\* are filed as one.)
CacheIsStored ==
  collisions = 0 =>
    \A d \in Dialogs : \A id \in cache.messages_list[d] :
      /\ Has(cache.messages, id) /\ cache.messages[id].dialog = d
      /\ IF IsTemp(id)
         THEN UnderWay({"sendMessage"}, d, id[2]) \/ failures > 0
         ELSE \/ Has(cache.database, id) /\ cache.database[id] = cache.messages[id]
              \/ ~Has(cache.database, id) /\ IsUpdate(id)
              \/ d \in Secrets \cap forgotten

DeletionSteps == {"readHistory", "getFullChat", "deleteChatUser", "deleteHistory", "discard"}

\* A chat is marked for deletion only while a request of its deletion is under
\* way, so a later clearing of a history does not delete a chat; unless a
\* request failed, whose mark nobody takes back (telegramqml.cpp:2045).
MarksAreWorkedOff ==
  \A d \in cache.deleteChatIds :
    \/ \E m \in DeletionSteps : \E t \in 0..1 : UnderWay({m}, d, t)
    \/ failures > 0 \/ fault # NoFault

\* The deletion of a chat, with its loop of reading, leaving and deleting, comes
\* to an end, whatever arrives meanwhile.
DeletionEnds ==
  \A d \in Dialogs :
    d \in cache.deleteChatIds
      ~> d \notin cache.dialogs \/ failures > 0 \/ fault # NoFault
=============================================================================

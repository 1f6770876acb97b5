---------------------------- MODULE SecretChats ----------------------------
(***************************************************************************)
(* The secret chats of one client: their creation, acceptance and          *)
(* discarding (libqtelegram-aseman-edition/telegram.cpp), the map of chats  *)
(* that is keyed by chat and, while a request is under way, by request      *)
(* (secret/secretstate.h), and the file they are kept in over a restart     *)
(* (secret/secretstate.cpp, core/settings.cpp).  The server keeps one       *)
(* record of each chat; the peer is a client that checks the key.           *)
(*                                                                         *)
(* Diffie-Hellman is taken by what it does: two sides that work modulo the  *)
(* same prime get the same key, sides that do not get different ones.  A    *)
(* SecretChat is an object that several keys of the map may point to, and   *)
(* that may be deleted while they do.  A handler that uses a deleted        *)
(* object, a null pointer or a false ASSERT ends the process here.          *)
(*                                                                         *)
(* An identifier of a request that the session changes later, or gives      *)
(* while it is not connected, is one the answer does not come with: nothing *)
(* in this component follows Session::updateMessageId.                      *)
(***************************************************************************)
EXTENDS Integers, Sequences, FiniteSets, Functions, FiniteSetsExt

CONSTANTS
  Chats,         \* the identifiers of chats
  NoChat,        \* the identifier 0 of a chat that has none yet
  MaxRequests,   \* bound: identifiers of requests
  MaxDisturbances \* bound: new DH configurations, kills, updates that come
                  \* twice and requests whose answer has another identifier

ASSUME ChatsAssumption ==
  IsFiniteSet(Chats) /\ NoChat \notin Chats /\ (Chats \cup {NoChat}) \cap Int = {}
ASSUME BoundsAssumption == MaxRequests \in Nat /\ MaxDisturbances \in Nat

VARIABLES
  mChats,     \* mSecretState.mChats: chat or request -> object
  objects,    \* the SecretChat objects the map points to, deleted or not
  mP,         \* the prime of mSecretState, by the configuration it is from
  stored,     \* the file of secret chats
  fault,      \* what ended the process, and the chat it was about
  requests,   \* identifiers of requests given so far
  calls,      \* requests the server did not execute yet
  answers,    \* results under way
  updates,    \* updates under way
  server,     \* chat -> the record of the server
  config,     \* the server's DH configuration
  kills, repeats, renames

clientVars == <<mChats, objects, mP, stored>>
boundVars  == <<kills, repeats, renames>>
vars == <<mChats, objects, mP, stored, fault, requests, calls, answers,
          updates, server, config, kills, repeats, renames>>

Disturbances == (config - 1) + kills + repeats + renames

NoPower == [p |-> 0, x |-> -1]     \* an empty mGAOrB
NoKey   == [primes |-> {}, powers |-> {}, only |-> -1]
Peer    == 0                       \* the exponent of the peer
NoFault == [kind |-> "none", chat |-> NoChat]

\* g to the power of x modulo the prime of configuration p, and the key that
\* the holder of the exponent x gets from what the other side sent.
Power(p, x)        == [p |-> p, x |-> x]
SharedKey(p, x, g) ==
  [primes |-> {p, g.p}, powers |-> {x, g.x}, only |-> IF p = g.p THEN -1 ELSE x]

EmptyMap        == [i \in {} |-> 0]
Insert(m, k, v) == [i \in DOMAIN m \cup {k} |-> IF i = k THEN v ELSE m[i]]
Remove(m, k)    == [i \in DOMAIN m \ {k} |-> m[i]]
Has(m, k)       == k \in DOMAIN m

-----------------------------------------------------------------------------
(* Objects, the map and the file.  An object is named by the key it was    *)
(* first filed under.                                                      *)

NewSecretChat ==
  [state |-> "Init", chatId |-> NoChat, myKey |-> -1, key |-> NoKey,
   gAOrB |-> NoPower, deleted |-> FALSE]

\* The entries for a chat, and the one load leaves: the list is in the order
\* of the keys, chats before requests, and the last entry wins.
EntriesOf(m, o, c) == {k \in DOMAIN m : o[m[k]].chatId = c}
LastEntry(m, o, c) ==
  LET ks == EntriesOf(m, o, c) \cap 1..requests
  IN  IF ks = {} THEN CHOOSE k \in EntriesOf(m, o, c) : TRUE ELSE Max(ks)

\* writeSecretFile, as far as load can tell.
File(m, o, p) ==
  [p |-> p,
   chats |-> [c \in {o[m[k]].chatId : k \in DOMAIN m} |->
                [o[m[LastEntry(m, o, c)]] EXCEPT !.gAOrB = NoPower]]]

\* Mutant: the file is read and the objects are not made.
LoadMapOnly ==
  /\ mP' = stored.p
  /\ mChats' = [c \in DOMAIN stored.chats |-> c]
  /\ UNCHANGED objects

\* SecretState::load.
Load ==
  /\ mP' = stored.p
  /\ mChats' = [c \in DOMAIN stored.chats |-> c]
  /\ objects' = stored.chats

Fault(kind, c) ==
  /\ fault' = [kind |-> kind, chat |-> c]
  /\ UNCHANGED clientVars

\* The handler ends with this map, these objects and this prime.
Continue(m, o, p) ==
  /\ mChats' = m /\ objects' = Restrict(o, Range(m)) /\ mP' = p
  /\ UNCHANGED <<stored, fault>>

\* The same after SecretState::save, which walks over every entry; a handler
\* that deletes an object does so after it saved.
SaveThen(m, o, p, after) ==
  LET dangling == {k \in DOMAIN m : o[m[k]].deleted}
  IN  IF dangling # {}
      THEN Fault("deleted", o[m[CHOOSE k \in dangling : TRUE]].chatId)
      ELSE /\ mChats' = m /\ objects' = Restrict(after, Range(m)) /\ mP' = p
           /\ stored' = File(m, o, p)
           /\ UNCHANGED fault

Save(m, o, p) == SaveThen(m, o, p, o)

-----------------------------------------------------------------------------
(* Requests                                                                *)

Call(method, answer, c, g, key) ==
  [method |-> method, answer |-> answer, chat |-> c, g |-> g, key |-> key]
Answer(kind, id, c) == [kind |-> kind, id |-> id, chat |-> c]
Update(kind, c, g, key) == [kind |-> kind, chat |-> c, g |-> g, key |-> key]

NoRequest == 0

\* The identifier that sendQuery returns, and the one the answer will have.
Told == requests + 1
Ask(method, c) ==
  \E late \in 0..1 :
    /\ Told + late <= MaxRequests /\ Disturbances + late <= MaxDisturbances
    /\ requests' = Told + late
    /\ renames' = renames + late
    /\ calls' = calls \cup {Call(method, Told + late, c, NoPower, NoKey)}

FreeChats ==
  {c \in Chats : /\ server[c].status = "none"
                 /\ \A r \in calls : r.chat # c
                 /\ \A o \in DOMAIN objects : objects[o].chatId # c
                 /\ c \notin DOMAIN stored.chats}
\* Identifiers are random: which one comes next makes no difference.
NextChat == CHOOSE c \in FreeChats : TRUE
Unnamed == {o \in DOMAIN objects : objects[o].state = "Init" /\ objects[o].chatId = NoChat}

\* messagesCreateEncryptedChat and generateGAorB.  There are as many chats as
\* Chats has identifiers.
Create ==
  /\ Cardinality(Unnamed) < Cardinality(FreeChats)
  /\ Ask("getDhConfig", NoChat)
  /\ Continue(Insert(mChats, Told, Told), Insert(objects, Told, NewSecretChat), mP)
  /\ UNCHANGED <<answers, updates, server, config, kills, repeats>>

\* messagesDiscardEncryptedChat; of a chat that is not in the map it only
\* says that it is discarded.  The bound leaves a request for each other chat.
UserDiscard(c) ==
  /\ server[c].status # "none" /\ Has(mChats, c)
  /\ requests + Cardinality(FreeChats) + Len(updates) < MaxRequests
  /\ Ask("discard", c)
  /\ Continue(Insert(mChats, Told, mChats[c]), objects, mP)
  /\ UNCHANGED <<answers, updates, server, config, kills, repeats>>

\* onMessagesDhConfig and onMessagesDhConfigNotModified.  The private exponent
\* is fresh: it is named by the request.  The server's parameters are good.
OnMessagesDhConfig(r) ==
  LET id == r.answer
      o  == mChats[id]
      sc == objects[o]
      m  == Remove(mChats, id)
      With(c, new) == [objects EXCEPT ![o] = [new EXCEPT !.myKey = id, !.chatId = c]]
  IN
  /\ r.method = "getDhConfig"
  /\ \/ /\ ~Has(mChats, id)
        /\ Fault("assert", r.chat)
        /\ calls' = calls \ {r}
     \/ /\ Has(mChats, id) /\ sc.deleted
        /\ Fault("deleted", r.chat)
        /\ calls' = calls \ {r}
     \/ /\ Has(mChats, id) /\ ~sc.deleted /\ sc.state = "Init"
        /\ calls' = (calls \ {r}) \cup {Call("request", NoRequest, NextChat, Power(config, id), NoKey)}
        /\ Save(Insert(m, NextChat, o), With(NextChat, sc), config)
     \/ /\ Has(mChats, id) /\ ~sc.deleted /\ sc.state = "Requested"
        /\ LET key == SharedKey(config, id, sc.gAOrB)
           IN  /\ calls' = (calls \ {r}) \cup
                             {Call("accept", NoRequest, sc.chatId, Power(config, id), key)}
               /\ Save(m, With(sc.chatId, [sc EXCEPT !.key = key]), config)
     \/ /\ Has(mChats, id) /\ ~sc.deleted /\ sc.state = "Accepted"
        /\ calls' = calls \ {r}
        /\ Save(m, With(sc.chatId, sc), config)
  /\ UNCHANGED <<requests, answers, updates, server, config, boundVars>>

\* Mutants: the acceptance is not saved; the state is not set.
OnAcceptEncryptionUnsaved(a) ==
  /\ a.kind = "accepted"
  /\ IF Has(mChats, a.chat)
     THEN Continue(mChats, [objects EXCEPT ![mChats[a.chat]].state = "Accepted"], mP)
     ELSE Fault("null", a.chat)
OnAcceptEncryptionQuiet(a) ==
  /\ a.kind = "accepted"
  /\ IF Has(mChats, a.chat) THEN Save(mChats, objects, mP) ELSE Fault("null", a.chat)

\* onMessagesAcceptEncryptionEncryptedChat does not check the pointer.
OnAcceptEncryption(a) ==
  /\ a.kind = "accepted"
  /\ IF Has(mChats, a.chat)
     THEN Save(mChats, [objects EXCEPT ![mChats[a.chat]].state = "Accepted"], mP)
     ELSE Fault("null", a.chat)

\* Mutant: the chat stays filed under its own identifier.
ForgetRequestOnly(a) == Remove(mChats, a.id)

\* The entries that a discarded chat loses.
Forget(a) == Remove(Remove(mChats, a.id), objects[mChats[a.id]].chatId)

Deleted(o) == [objects EXCEPT ![o].deleted = TRUE]

\* onMessagesDiscardEncryptionResult, also called by onError for every
\* request that is answered by ENCRYPTION_ALREADY_DECLINED.
OnDiscardEncryption(a) ==
  /\ a.kind \in {"discarded", "kept", "declined"}
  /\ IF ~Has(mChats, a.id)
     THEN Fault("assert", a.chat)
     ELSE LET o == mChats[a.id]
          IN  IF objects[o].deleted THEN Fault("deleted", a.chat)
              ELSE IF a.kind = "kept" THEN Continue(Remove(mChats, a.id), objects, mP)
              ELSE SaveThen(Forget(a), objects, mP, Deleted(o))

OnAnswer(a) ==
  /\ OnAcceptEncryption(a) \/ OnDiscardEncryption(a)
  /\ answers' = answers \ {a}
  /\ UNCHANGED <<requests, calls, updates, server, config, boundVars>>

-----------------------------------------------------------------------------
(* processSecretChatUpdate                                                 *)

\* The chat is filed under its identifier and under that of the request.
FileRequested(m, c) == Insert(Insert(m, c, Told), Told, Told)

\* EncryptedChatRequested: Context.qml accepts the chat at once.
OnEncryptedChatRequested(u) ==
  LET sc == [NewSecretChat EXCEPT !.state = "Requested", !.chatId = u.chat, !.gAOrB = u.g]
  IN
  /\ u.kind = "requested"
  /\ Ask("getDhConfig", u.chat)
  /\ Continue(FileRequested(mChats, u.chat), Insert(objects, Told, sc), mP)

\* Mutant: the fingerprint is not compared.
KeyFitsAlways(key, u) == TRUE

KeyFits(key, u) == key = u.key

\* EncryptedChat: the peer accepted.  A key that does not fit is kept while
\* the chat is being discarded.
OnEncryptedChat(u) ==
  LET o   == mChats[u.chat]
      key == SharedKey(mP, objects[o].myKey, u.g)
  IN
  /\ u.kind = "accepted"
  /\ \/ /\ ~Has(mChats, u.chat)
        /\ UNCHANGED <<clientVars, fault, requests, calls, renames>>
     \/ /\ Has(mChats, u.chat) /\ KeyFits(key, u)
        /\ Save(mChats, [objects EXCEPT ![o].key = key, ![o].state = "Accepted"], mP)
        /\ UNCHANGED <<requests, calls, renames>>
     \/ /\ Has(mChats, u.chat) /\ ~KeyFits(key, u)
        /\ Ask("discard", u.chat)
        /\ Continue(Insert(mChats, Told, o), [objects EXCEPT ![o].key = key], mP)

OnEncryptedChatDiscarded(u) ==
  /\ u.kind = "discarded"
  /\ IF Has(mChats, u.chat)
     THEN SaveThen(Remove(mChats, u.chat), objects, mP, Deleted(mChats[u.chat]))
     ELSE UNCHANGED <<clientVars, fault>>
  /\ UNCHANGED <<requests, calls, renames>>

\* An update may come a second time: the server sends what was not
\* acknowledged again, and the session does not tell.
ProcessUpdate ==
  /\ updates # <<>>
  /\ LET u == Head(updates)
     IN  OnEncryptedChatRequested(u) \/ OnEncryptedChat(u) \/ OnEncryptedChatDiscarded(u)
  /\ \/ updates' = Tail(updates) /\ UNCHANGED repeats
     \/ Disturbances < MaxDisturbances /\ repeats' = repeats + 1 /\ UNCHANGED updates
  /\ UNCHANGED <<answers, server, config, kills>>

-----------------------------------------------------------------------------
(* The server and the peer                                                 *)

NoRecord == [status |-> "none", ours |-> FALSE, g |-> NoPower, peerKey |-> NoKey]

ServerRequest(r) ==
  /\ r.method = "request"
  /\ server' = [server EXCEPT ![r.chat] =
                  [status |-> "requested", ours |-> TRUE, g |-> r.g, peerKey |-> NoKey]]
  /\ UNCHANGED answers

\* The peer keeps the key if the fingerprint is that of its own.
ServerAccept(r) ==
  LET key == SharedKey(server[r.chat].g.p, Peer, r.g)
  IN
  /\ r.method = "accept"
  /\ CASE server[r.chat].status = "requested" ->
            /\ answers' = answers \cup {Answer("accepted", NoRequest, r.chat)}
            /\ server' = [server EXCEPT ![r.chat].status = "accepted",
                            ![r.chat].peerKey = IF key = r.key THEN key ELSE NoKey]
       [] server[r.chat].status = "discarded" ->
            /\ answers' = answers \cup {Answer("declined", NoRequest, r.chat)}
            /\ UNCHANGED server
       [] OTHER -> UNCHANGED <<answers, server>>

ServerDiscard(r) ==
  /\ r.method = "discard"
  /\ \/ /\ server[r.chat].status = "discarded"
        /\ answers' = answers \cup {Answer("declined", r.answer, r.chat)}
        /\ UNCHANGED server
     \/ /\ server[r.chat].status # "discarded"
        /\ answers' = answers \cup {Answer("discarded", r.answer, r.chat)}
        /\ server' = [server EXCEPT ![r.chat].status = "discarded"]
     \/ /\ server[r.chat].status # "discarded"
        /\ answers' = answers \cup {Answer("kept", r.answer, r.chat)}
        /\ UNCHANGED server

ServerExecutes(r) ==
  /\ ServerRequest(r) \/ ServerAccept(r) \/ ServerDiscard(r)
  /\ calls' = calls \ {r}
  /\ UNCHANGED <<clientVars, fault, requests, updates, config, boundVars>>

PeerRequests ==
  LET g == Power(config, Peer)
  IN
  /\ Cardinality(Unnamed) < Cardinality(FreeChats)
  /\ server' = [server EXCEPT ![NextChat] = [NoRecord EXCEPT !.status = "requested", !.g = g]]
  /\ updates' = Append(updates, Update("requested", NextChat, g, NoKey))

PeerAccepts(c) ==
  LET key == SharedKey(config, Peer, server[c].g)
  IN
  /\ server[c].status = "requested" /\ server[c].ours
  /\ server' = [server EXCEPT ![c].status = "accepted", ![c].peerKey = key]
  /\ updates' = Append(updates, Update("accepted", c, Power(config, Peer), key))

PeerDiscards(c) ==
  /\ server[c].status \in {"requested", "accepted"}
  /\ server' = [server EXCEPT ![c].status = "discarded"]
  /\ updates' = Append(updates, Update("discarded", c, NoPower, NoKey))

PeerActs ==
  /\ PeerRequests \/ \E c \in Chats : PeerAccepts(c) \/ PeerDiscards(c)
  /\ UNCHANGED <<clientVars, fault, requests, calls, answers, config, boundVars>>

\* A new prime, while some chat is being made: each client learns it when it
\* asks the next time.
ServerReconfigures ==
  /\ Disturbances < MaxDisturbances
  /\ Unnamed # {} \/ \E c \in Chats : server[c].status = "requested"
  /\ config' = config + 1
  /\ UNCHANGED <<clientVars, fault, requests, calls, answers, updates, server, boundVars>>

\* The process is killed, or the fault ended it, and is started again.  The
\* updates it did not see may be lost: the client asks for the difference
\* from the state it has just been told.
Restart ==
  /\ \/ fault # NoFault /\ UNCHANGED kills
     \/ fault = NoFault /\ Disturbances < MaxDisturbances /\ kills' = kills + 1
  /\ Load
  /\ fault' = NoFault
  /\ calls' = {} /\ answers' = {}
  /\ updates' \in {<<>>, updates}
  /\ UNCHANGED <<stored, requests, server, config, repeats, renames>>

-----------------------------------------------------------------------------
Init ==
  /\ mChats = EmptyMap /\ objects = EmptyMap /\ mP = 0
  /\ stored = [p |-> 0, chats |-> EmptyMap]
  /\ fault = NoFault
  /\ requests = 0 /\ calls = {} /\ answers = {} /\ updates = <<>>
  /\ server = [c \in Chats |-> NoRecord] /\ config = 1
  /\ kills = 0 /\ repeats = 0 /\ renames = 0

Running == fault = NoFault

Next ==
  \/ Running /\ Create
  \/ Running /\ \E c \in Chats : UserDiscard(c)
  \/ Running /\ \E r \in calls : OnMessagesDhConfig(r)
  \/ Running /\ \E a \in answers : OnAnswer(a)
  \/ Running /\ ProcessUpdate
  \/ \E r \in calls : ServerExecutes(r)
  \/ PeerActs
  \/ ServerReconfigures
  \/ Restart

Spec == Init /\ [][Next]_vars

\* The event loop runs while the process does, and the server answers.
Fairness ==
  /\ WF_vars(Running /\ \E r \in calls : OnMessagesDhConfig(r))
  /\ WF_vars(Running /\ \E a \in answers : OnAnswer(a))
  /\ WF_vars(Running /\ ProcessUpdate)
  /\ WF_vars(\E r \in calls : ServerExecutes(r))

FairSpec == Spec /\ Fairness

-----------------------------------------------------------------------------
(* Properties                                                              *)

Ids == Chats \cup {NoChat} \cup 1..requests

TypeOK ==
  /\ DOMAIN mChats \subseteq Ids /\ Range(mChats) = DOMAIN objects
  /\ DOMAIN stored.chats \subseteq Chats \cup {NoChat}
  /\ \A o \in DOMAIN objects :
       /\ objects[o].state \in {"Init", "Requested", "Accepted"}
       /\ objects[o].chatId \in Chats \cup {NoChat}
       /\ objects[o].myKey \in -1..requests
  /\ fault.kind \in {"none", "assert", "deleted", "null"} /\ fault.chat \in Chats \cup {NoChat}
  /\ \A r \in calls : r.method \in {"getDhConfig", "request", "accept", "discard"}
  /\ \A c \in Chats : server[c].status \in {"none", "requested", "accepted", "discarded"}
  /\ mP \in 0..config /\ stored.p \in 0..config
  /\ requests \in Nat /\ kills \in Nat /\ repeats \in Nat /\ renames \in Nat

Accepted(m, o, c) == Has(m, c) /\ ~o[m[c]].deleted /\ o[m[c]].state = "Accepted"
Discarded(c)      == server[c].status = "discarded"

\* The entry of a chat under its own identifier never points to an object that
\* was deleted, whatever is discarded by whom while requests are under way.
ChatsAreLive == \A c \in DOMAIN mChats \ 1..requests : ~objects[mChats[c]].deleted

\* No handler uses a chat that is not there, and no entry leads to one, unless
\* a chat was discarded that had a request under way, or the answer to a request
\* came under another identifier: creating, accepting and restarting in any
\* order do not, nor does an update that comes twice.
FaultsNeedDiscard ==
  /\ ChatsAreLive
  /\ Running \/ renames > 0 \/ (fault.chat \in Chats /\ Discarded(fault.chat))

\* A chat both sides hold for accepted has one key, in memory and in the file,
\* also when the server changes the prime while it is being created and when
\* the client is killed.  (An update that comes twice makes a second object.)
KeysAgree ==
  repeats = 0 =>
    \A c \in Chats :
      server[c].status = "accepted" /\ server[c].peerKey # NoKey =>
        /\ Accepted(mChats, objects, c) => objects[mChats[c]].key = server[c].peerKey
        /\ Has(stored.chats, c) /\ stored.chats[c].state = "Accepted" =>
             stored.chats[c].key = server[c].peerKey

\* What a restart finds is what the client had: a chat is accepted in the file
\* if and only if it is in memory, with the same key, unless it is discarded
\* while another entry still leads to it.
FileIsCurrent ==
  Running /\ repeats = 0 =>
    \A c \in Chats :
      EntriesOf(mChats, objects, c) \subseteq {c} =>
        /\ Accepted(mChats, objects, c) <=>
             Has(stored.chats, c) /\ stored.chats[c].state = "Accepted"
        /\ Accepted(mChats, objects, c) => stored.chats[c].key = objects[mChats[c]].key

Calm ==
  /\ kills = 0 /\ repeats = 0 /\ renames = 0 /\ config = 1
  /\ \A c \in Chats : ~Discarded(c)

\* A chat the peer asks for, or agrees to, is accepted here unless something
\* is discarded, killed, repeated or renamed, or the server changes the prime.
RequestsAreAccepted ==
  \A c \in Chats :
    Calm /\ (server[c].status = "accepted" \/ (server[c].status = "requested" /\ ~server[c].ours))
      ~> ~Calm \/ Accepted(mChats, objects, c)
=============================================================================

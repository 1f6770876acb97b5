-------------------------- MODULE SecretKeysProofs --------------------------
(***************************************************************************)
(* Proofs about the keys and the file of SecretChats: as long as no update *)
(* comes twice, both sides of a chat have one key and the file is what     *)
(* memory is.                                                              *)
(***************************************************************************)
EXTENDS SecretChatsProofs

-----------------------------------------------------------------------------
(* The inductive invariant, for one chat c.                                *)

\* What is under way of the chat: updates of one kind, requests that a user's
\* or the peer's request leads to, and the answer to an acceptance.
Sent(kind, c) == {u \in Pending : u.kind = kind /\ u.chat = c}
Accepting(c)  == {r \in calls : r.method \in {"getDhConfig", "accept"} /\ r.chat = c}
Agreeing(c)   == {a \in answers : a.kind = "accepted" /\ a.chat = c}

\* Without repeats that is one request, update or answer until the chat is accepted.
NoTwice(c) ==
  \A i, j \in DOMAIN updates :
    /\ updates[i].chat = c /\ updates[j].chat = c /\ updates[i].kind = updates[j].kind
    /\ updates[i].kind # "discarded"
    => i = j
OnceInv(c) ==
  /\ NoTwice(c)
  /\ \A r, q \in Accepting(c) : r = q
  /\ Accepting(c) = {} \/ Agreeing(c) = {}
  /\ Sent("requested", c) = {} \/ (Accepting(c) = {} /\ Agreeing(c) = {})

\* The states and keys of the chat, in memory and in the file.
Copies(c) ==
  {Copy(objects[mChats[k]]) : k \in EntriesOf(mChats, objects, c)}
    \cup {Copy(stored.chats[x]) : x \in DOMAIN stored.chats \cap {c}}
AllCopies(c, state) == \A x \in Copies(c) : x.state = state
AllKeys(c, key)     == \A x \in Copies(c) : x.key = key

\* What is under way says in which state the chat is, with which key.
TheirsInv(c) ==
  /\ Sent("requested", c) # {} =>
       Copies(c) = {} /\ ~server[c].ours /\ server[c].status # "accepted"
  /\ \A r \in Accepting(c) :
       /\ AllCopies(c, "Requested")
       /\ ~server[c].ours /\ server[c].status \in {"requested", "discarded"}
       /\ r.method = "accept" /\ Running => AllKeys(c, r.key)
  /\ Agreeing(c) # {} =>
       /\ AllCopies(c, "Requested")
       /\ ~server[c].ours /\ server[c].status \in {"accepted", "discarded"}
       /\ Running /\ server[c].peerKey # NoKey => AllKeys(c, server[c].peerKey)
OursInv(c) ==
  /\ \A u \in Sent("accepted", c) :
       /\ AllCopies(c, "Init")
       /\ server[c].ours /\ server[c].status \in {"accepted", "discarded"}
       /\ u.key = server[c].peerKey
  /\ server[c].status = "none" \/ (server[c].status = "requested" /\ server[c].ours) =>
       AllCopies(c, "Init")
AgreedInv(c) ==
  server[c].status = "accepted" /\ server[c].peerKey # NoKey =>
    \A x \in Copies(c) : x.state = "Accepted" => x.key = server[c].peerKey
NetInv(c) == OnceInv(c) /\ TheirsInv(c) /\ OursInv(c) /\ AgreedInv(c)

\* A chat has one object, under its own entry unless that was deleted, and the
\* file is up to date unless a deleted object is there.
SingleInv(m, o, c) ==
  /\ \A j, k \in EntriesOf(m, o, c) : m[j] = m[k]
  /\ \A k \in EntriesOf(m, o, c) : o[m[k]].deleted \/ Has(m, c)
Current(m, o, file, c) ==
  \/ /\ Accepted(m, o, c) <=> Has(file, c) /\ file[c].state = "Accepted"
     /\ Accepted(m, o, c) => file[c].key = o[m[c]].key
  \/ \E k \in EntriesOf(m, o, c) : o[m[k]].deleted
FileInv(c) == SingleInv(mChats, objects, c) /\ Current(mChats, objects, stored.chats, c)

ChatInv(c) == NetInv(c) /\ FileInv(c)
IInv == AlwaysInv /\ (repeats = 0 => \A c \in Chats : ChatInv(c))

-----------------------------------------------------------------------------
(* What is under way.                                                      *)

\* An update that was processed and is not repeated is gone.
LEMMA OnceProcessed ==
  ASSUME Types, updates # <<>>, updates' = Tail(updates), NEW c \in Chats, NoTwice(c)
  PROVE  /\ NoTwice(c)' /\ \A kind : Sent(kind, c)' \subseteq Sent(kind, c)
         /\ \A kind : Head(updates).chat = c /\ Head(updates).kind = kind /\ kind # "discarded" =>
              Sent(kind, c)' = {}
<1>1. updates \in Seq(UpdateType) /\ DOMAIN updates = 1..Len(updates) /\ Len(updates) \in Nat
  BY DEF Types, NetType
<1>2. /\ DOMAIN updates' = 1..(Len(updates) - 1) /\ Head(updates) = updates[1]
      /\ \A i \in DOMAIN updates' : i + 1 \in DOMAIN updates /\ updates'[i] = updates[i + 1]
  BY <1>1
<1>3. NoTwice(c)'
  <2>1. SUFFICES ASSUME NEW i \in DOMAIN updates', NEW j \in DOMAIN updates',
                        updates'[i].chat = c, updates'[j].chat = c,
                        updates'[i].kind = updates'[j].kind, updates'[i].kind # "discarded"
                 PROVE  i = j
    BY DEF NoTwice
  <2>2. i + 1 = j + 1
    BY <1>2, <2>1 DEF NoTwice
  <2> QED
    BY <1>1, <1>2, <2>2
<1>4. \A kind : Sent(kind, c)' \subseteq Sent(kind, c)
  BY <1>2 DEF Sent, Pending
<1>5. ASSUME NEW kind, Head(updates).chat = c, Head(updates).kind = kind, kind # "discarded",
             NEW v \in Sent(kind, c)'
      PROVE  FALSE
  <2>1. PICK i \in DOMAIN updates' : updates'[i].kind = kind /\ updates'[i].chat = c
    BY <1>5 DEF Sent, Pending
  <2>2. 1 \in DOMAIN updates /\ i \in Nat /\ i >= 1
    BY <1>1, <1>2, <2>1
  <2>3. i + 1 = 1
    BY <1>2, <1>5, <2>1, <2>2 DEF NoTwice
  <2> QED
    BY <2>2, <2>3
<1> QED
  BY <1>3, <1>4, <1>5

\* An update that is sent is one of its kind, if none was under way.
LEMMA OnceAppended ==
  ASSUME Types, NEW u \in UpdateType, updates' = Append(updates, u), NEW c \in Chats, NoTwice(c),
         u.chat = c /\ u.kind # "discarded" => Sent(u.kind, c) = {}
  PROVE  /\ NoTwice(c)'
         /\ \A kind : Sent(kind, c)' \subseteq Sent(kind, c) \cup {u}
         /\ \A kind : u.kind # kind \/ u.chat # c => Sent(kind, c)' \subseteq Sent(kind, c)
<1>1. updates \in Seq(UpdateType) /\ DOMAIN updates = 1..Len(updates) /\ Len(updates) \in Nat
  BY DEF Types, NetType
<1>2. /\ DOMAIN updates' = 1..(Len(updates) + 1)
      /\ \A i \in DOMAIN updates' : \/ i \in DOMAIN updates /\ updates'[i] = updates[i]
                                    \/ i = Len(updates) + 1 /\ updates'[i] = u
  <2>1. Len(updates') = Len(updates) + 1 /\ DOMAIN updates' = 1..Len(updates')
    BY <1>1
  <2>2. \A i \in 1..Len(updates) : updates'[i] = updates[i]
    BY <1>1
  <2>3. updates'[Len(updates) + 1] = u
    BY <1>1
  <2> QED
    BY <1>1, <2>1, <2>2, <2>3
<1>3. ASSUME NEW i \in DOMAIN updates, updates[i].chat = c, updates[i].kind = u.kind,
             u.chat = c, u.kind # "discarded"
      PROVE  FALSE
  BY <1>3 DEF Sent, Pending
<1>4. NoTwice(c)'
  <2>1. SUFFICES ASSUME NEW i \in DOMAIN updates', NEW j \in DOMAIN updates',
                        updates'[i].chat = c, updates'[j].chat = c,
                        updates'[i].kind = updates'[j].kind, updates'[i].kind # "discarded"
                 PROVE  i = j
    BY DEF NoTwice
  <2>2. CASE i \in DOMAIN updates /\ updates'[i] = updates[i]
    BY <1>2, <1>3, <2>1, <2>2 DEF NoTwice
  <2>3. CASE i = Len(updates) + 1 /\ updates'[i] = u
    BY <1>2, <1>3, <2>1, <2>3
  <2> QED
    BY <1>2, <2>1, <2>2, <2>3
<1>5. \A kind : Sent(kind, c)' \subseteq Sent(kind, c) \cup {u}
  BY <1>2 DEF Sent, Pending
<1> QED
  BY <1>4, <1>5 DEF Sent

\* What a step leaves of what is under way, and of the copies, of a chat,
\* which may be discarded.
Fewer(c) ==
  /\ NoTwice(c)'
  /\ \A kind \in {"requested", "accepted"} : Sent(kind, c)' \subseteq Sent(kind, c)
  /\ Accepting(c)' \subseteq Accepting(c) /\ Agreeing(c)' \subseteq Agreeing(c)
  /\ Copies(c)' \subseteq Copies(c)
  /\ server'[c].ours = server[c].ours /\ server'[c].peerKey = server[c].peerKey
  /\ server'[c].status \in {server[c].status, "discarded"}
  /\ Running' => Running \/ (calls' = {} /\ answers' = {})

\* A step that adds nothing to a chat keeps the invariant of the chat.
LEMMA NetFewer ==
  ASSUME NEW c \in Chats, NetInv(c), Fewer(c)
  PROVE  NetInv(c)'
<1>1. OnceInv(c)'
  BY DEF NetInv, OnceInv, Fewer
<1>2. /\ \A s : AllCopies(c, s) => AllCopies(c, s)'
      /\ \A k : AllKeys(c, k) => AllKeys(c, k)'
  BY DEF Fewer, AllCopies, AllKeys
<1>3. Running \/ (Accepting(c)' = {} /\ Agreeing(c)' = {}) \/ ~Running'
  BY DEF Fewer, Accepting, Agreeing
<1>4. TheirsInv(c)'
  <2>1. Sent("requested", c)' # {} =>
          Copies(c)' = {} /\ ~server'[c].ours /\ server'[c].status # "accepted"
    BY DEF Fewer, NetInv, TheirsInv
  <2>2. ASSUME NEW r \in Accepting(c)'
        PROVE  /\ AllCopies(c, "Requested")'
               /\ ~server'[c].ours /\ server'[c].status \in {"requested", "discarded"}
               /\ r.method = "accept" /\ Running' => AllKeys(c, r.key)'
    BY <1>2, <1>3, <2>2 DEF Fewer, NetInv, TheirsInv
  <2>3. Agreeing(c)' # {} =>
          /\ AllCopies(c, "Requested")'
          /\ ~server'[c].ours /\ server'[c].status \in {"accepted", "discarded"}
          /\ Running' /\ server'[c].peerKey # NoKey => AllKeys(c, server[c].peerKey)'
    BY <1>2, <1>3 DEF Fewer, NetInv, TheirsInv
  <2> QED
    BY <2>1, <2>2, <2>3 DEF TheirsInv
<1>5. OursInv(c)'
  BY <1>2 DEF Fewer, NetInv, OursInv
<1>6. AgreedInv(c)'
  BY DEF Fewer, NetInv, AgreedInv
<1> QED
  BY <1>1, <1>4, <1>5, <1>6 DEF NetInv

-----------------------------------------------------------------------------
(* The map and the file.                                                   *)

\* The file has the chats of the map, each as one of its entries has it.
FileFits ==
  /\ DOMAIN stored.chats = {objects[mChats[k]].chatId : k \in DOMAIN mChats}
  /\ \A c \in DOMAIN stored.chats : \E k \in EntriesOf(mChats, objects, c) :
       Copy(stored.chats[c]) = Copy(objects[mChats[k]])

\* A step after which the entries of a chat lead to what they led to.
Alike(c) ==
  /\ \A k \in EntriesOf(mChats', objects', c) : \E j \in EntriesOf(mChats, objects, c) :
       mChats'[k] = mChats[j] /\ objects'[mChats'[k]] = objects[mChats[j]]
  /\ Has(mChats', c) <=> Has(mChats, c)

\* The map m of objects o is saved, and then of the objects after.
Saved(m, o, after, p) ==
  /\ mChats' = m /\ objects' = Restrict(after, Range(m)) /\ mP' = p
  /\ stored' = File(m, o, p) /\ \A k \in DOMAIN m : ~o[m[k]].deleted

\* Saving ends the process and changes nothing, or does what is asked.
LEMMA SavesOrEnds ==
  ASSUME NEW m, NEW o, NEW p, NEW after, SaveThen(m, o, p, after)
  PROVE  \/ UNCHANGED clientVars /\ ~Running'
         \/ Saved(m, o, after, p) /\ UNCHANGED fault
<1>1. DEFINE D == {k \in DOMAIN m : o[m[k]].deleted}
<1>2. CASE D # {}
  <2>1. PICK d : Fault("deleted", d)
    BY <1>2 DEF SaveThen
  <2>2. fault'.kind = "deleted" /\ NoFault.kind = "none" /\ UNCHANGED clientVars
    BY <2>1 DEF Fault, NoFault
  <2> QED
    BY <2>2 DEF Running
<1>3. CASE D = {}
  BY <1>3 DEF SaveThen, Saved
<1> QED
  BY <1>2, <1>3

\* writeSecretFile writes what the map leads to.
LEMMA SavedFits ==
  ASSUME AlwaysInv, NEW m, NEW o, NEW after, NEW p, Saved(m, o, after, p),
         m \in [DOMAIN m -> DOMAIN o], o \in [DOMAIN o -> ObjectType], DOMAIN after = DOMAIN o,
         \A x \in DOMAIN o : Copy(after[x]) = Copy(o[x]) /\ after[x].chatId = o[x].chatId
  PROVE  FileFits'
<1>1. PICK f : f = File(m, o, p).chats
  OBVIOUS
<1>2. /\ DOMAIN f = {o[m[k]].chatId : k \in DOMAIN m}
      /\ \A c \in DOMAIN f : \E k \in DOMAIN m :
           o[m[k]].chatId = c /\ f[c] = [o[m[k]] EXCEPT !.gAOrB = NoPower]
  <2>1. requests \in Nat
    BY Fresh
  <2> QED
    BY <1>1, <2>1, Filed
<1>3. \A c \in DOMAIN f : \E k \in DOMAIN m : o[m[k]].chatId = c /\ Copy(f[c]) = Copy(o[m[k]])
  <2>1. \A x \in ObjectType : Copy([x EXCEPT !.gAOrB = NoPower]) = Copy(x)
    BY DEF ObjectType, Copy
  <2>2. \A k \in DOMAIN m : o[m[k]] \in ObjectType
    OBVIOUS
  <2>3. SUFFICES ASSUME NEW c \in DOMAIN f
                 PROVE  \E k \in DOMAIN m : o[m[k]].chatId = c /\ Copy(f[c]) = Copy(o[m[k]])
    OBVIOUS
  <2>4. PICK k \in DOMAIN m : o[m[k]].chatId = c /\ f[c] = [o[m[k]] EXCEPT !.gAOrB = NoPower]
    BY <1>2
  <2>5. o[m[k]] \in ObjectType
    BY <2>2
  <2>6. Copy([o[m[k]] EXCEPT !.gAOrB = NoPower]) = Copy(o[m[k]])
    BY <2>1, <2>5
  <2> QED
    BY <2>4, <2>6
<1>4. m \in [DOMAIN m -> DOMAIN after] /\ mChats' = m /\ objects' = Restrict(after, Range(m))
  BY DEF Saved
<1>5. \A k \in DOMAIN m : objects'[m[k]] = after[m[k]]
  BY <1>4, Restricted
<1>6. \A k \in DOMAIN m : Copy(objects'[m[k]]) = Copy(o[m[k]]) /\ objects'[m[k]].chatId = o[m[k]].chatId
  BY <1>5
<1>7. stored'.chats = f
  BY <1>1 DEF Saved
<1> QED
  BY <1>2, <1>3, <1>4, <1>6, <1>7 DEF FileFits, EntriesOf

\* What a saved map and its file say of a chat is what the entries lead to.
LEMMA SavedCopies ==
  ASSUME FileFits', NEW c
  PROVE  \A y \in Copies(c)' : \E k \in EntriesOf(mChats', objects', c) :
           y = Copy(objects'[mChats'[k]])
BY DEF FileFits, Copies

\* The entry of a chat leads to its object.
LEMMA OwnEntry ==
  ASSUME AlwaysInv', NEW c \in Chats, Has(mChats', c)
  PROVE  /\ c \in EntriesOf(mChats', objects', c) /\ ~objects'[mChats'[c]].deleted
         /\ objects'[mChats'[c]].chatId = c
BY DEF AlwaysInv, MapInv, ChatKeys, Has, EntriesOf

\* A chat with one object is saved as it is.
LEMMA SavedChat ==
  ASSUME AlwaysInv', FileFits', NEW c \in Chats, SingleInv(mChats, objects, c)'
  PROVE  FileInv(c)'
<1>1. CASE \E k \in EntriesOf(mChats', objects', c) : objects'[mChats'[k]].deleted
  BY <1>1 DEF FileInv, Current
<1>2. CASE EntriesOf(mChats', objects', c) = {}
  <2>1. ~Has(mChats', c) /\ ~Has(stored'.chats, c)
    BY <1>2, OwnEntry DEF FileFits, Has, EntriesOf
  <2> QED
    BY <2>1 DEF FileInv, Current, Accepted
<1>3. CASE /\ EntriesOf(mChats', objects', c) # {}
           /\ \A k \in EntriesOf(mChats', objects', c) : ~objects'[mChats'[k]].deleted
  <2>1. Has(mChats', c)
    BY <1>3 DEF SingleInv
  <2>2. c \in EntriesOf(mChats', objects', c) /\ ~objects'[mChats'[c]].deleted
    BY <2>1, OwnEntry
  <2>3. Has(stored'.chats, c) /\ Copy(stored'.chats[c]) = Copy(objects'[mChats'[c]])
    <3>1. c \in DOMAIN stored'.chats
      BY <2>2 DEF FileFits, EntriesOf
    <3>2. PICK k \in EntriesOf(mChats', objects', c) :
            Copy(stored'.chats[c]) = Copy(objects'[mChats'[k]])
      BY <3>1 DEF FileFits
    <3> QED
      BY <2>2, <3>1, <3>2 DEF SingleInv, Has
  <2>4. /\ stored'.chats[c].state = objects'[mChats'[c]].state
        /\ stored'.chats[c].key = objects'[mChats'[c]].key
    BY <2>3 DEF Copy
  <2>5. Accepted(mChats', objects', c) <=> stored'.chats[c].state = "Accepted"
    BY <2>1, <2>2, <2>4 DEF Accepted
  <2> QED
    BY <2>3, <2>4, <2>5 DEF FileInv, Current
<1> QED
  BY <1>1, <1>2, <1>3

\* The step saves, and leaves this chat alone.
LEMMA SavedAlike ==
  ASSUME AlwaysInv', FileFits', NEW c \in Chats, FileInv(c), Alike(c)
  PROVE  FileInv(c)' /\ Copies(c)' \subseteq Copies(c)
<1>1. SingleInv(mChats, objects, c)'
  BY DEF FileInv, SingleInv, Alike
<1>2. Copies(c)' \subseteq Copies(c)
  BY SavedCopies DEF Copies, Alike
<1> QED
  BY <1>1, <1>2, SavedChat

\* The step does not save, and leaves this chat alone.
LEMMA KeptAlike ==
  ASSUME AlwaysInv, AlwaysInv', UNCHANGED stored, NEW c \in Chats, FileInv(c), Alike(c),
         \A k \in EntriesOf(mChats, objects, c) : objects[mChats[k]].deleted =>
           k \in EntriesOf(mChats', objects', c) /\ objects'[mChats'[k]].deleted
  PROVE  FileInv(c)' /\ Copies(c)' \subseteq Copies(c)
<1>1. SingleInv(mChats, objects, c)'
  BY DEF FileInv, SingleInv, Alike
<1>2. Copies(c)' \subseteq Copies(c)
  BY DEF Copies, Alike
<1>3. Current(mChats, objects, stored.chats, c)'
  <2>1. CASE \E k \in EntriesOf(mChats, objects, c) : objects[mChats[k]].deleted
    BY <2>1 DEF Current
  <2>2. CASE Has(mChats', c)
    <3>1. c \in EntriesOf(mChats', objects', c)
      BY <2>2, OwnEntry
    <3>2. c \in EntriesOf(mChats, objects, c)
      BY <2>2 DEF Alike, AlwaysInv, MapInv, ChatKeys, Has, EntriesOf
    <3>3. PICK j \in EntriesOf(mChats, objects, c) :
            mChats'[c] = mChats[j] /\ objects'[mChats'[c]] = objects[mChats[j]]
      BY <3>1 DEF Alike
    <3>4. mChats'[c] = mChats[c] /\ objects'[mChats'[c]] = objects[mChats[c]]
      BY <3>2, <3>3 DEF FileInv, SingleInv
    <3>5. Accepted(mChats', objects', c) <=> Accepted(mChats, objects, c)
      BY <2>2, <3>4 DEF Accepted, Alike
    <3> QED
      BY <2>1, <3>4, <3>5 DEF FileInv, Current
  <2>3. CASE ~Has(mChats', c)
    <3>1. ~Accepted(mChats', objects', c) /\ ~Accepted(mChats, objects, c)
      BY <2>3 DEF Accepted, Alike
    <3> QED
      BY <2>1, <3>1 DEF FileInv, Current
  <2> QED
    BY <2>2, <2>3
<1> QED
  BY <1>1, <1>2, <1>3 DEF FileInv

\* The process touches nothing.
LEMMA FileUntouched ==
  ASSUME UNCHANGED <<mChats, objects, stored>>, NEW c, FileInv(c)
  PROVE  FileInv(c)' /\ Copies(c)' = Copies(c)
<1>1. Copies(c)' = Copies(c)
  BY DEF Copies, EntriesOf
<1>2. FileInv(c)'
  BY DEF FileInv, SingleInv, Current, EntriesOf, Accepted, Has
<1> QED
  BY <1>1, <1>2

-----------------------------------------------------------------------------
(* The server and the peer.                                                *)

\* The client and the updates are as they were.
LEMMA SentUntouched ==
  ASSUME UNCHANGED updates, NEW c
  PROVE  (NoTwice(c) => NoTwice(c)') /\ \A kind : Sent(kind, c)' = Sent(kind, c)
BY DEF NoTwice, Sent, Pending

\* Nobody was told of a chat that has no record, and it is accepted nowhere.
LEMMA Unheard ==
  ASSUME AlwaysInv, NEW c \in Chats, NetInv(c), server[c].status = "none"
  PROVE  /\ \A kind : Sent(kind, c) = {}
         /\ Accepting(c) = {} /\ Agreeing(c) = {} /\ AllCopies(c, "Init")
BY DEF AlwaysInv, KnownInv, NetInv, TheirsInv, OursInv, Sent, Accepting, Agreeing

\* messages.requestEncryption: the chat is recorded.
LEMMA RequestExecuted ==
  ASSUME AlwaysInv, NEW r \in calls, ServerExecutes(r), ServerRequest(r),
         NEW c \in Chats, c = r.chat, NetInv(c)
  PROVE  NetInv(c)'
<1>1. c = r.chat
  OBVIOUS
<1>2. server[c].status = "none"
  BY <1>1 DEF AlwaysInv, KnownInv, CallKnown, ServerRequest
<1>3. /\ UNCHANGED <<mChats, objects, stored, updates, answers>> /\ calls' = calls \ {r}
      /\ server' = [server EXCEPT ![c] =
                      [status |-> "requested", ours |-> TRUE, g |-> r.g, peerKey |-> NoKey]]
  BY <1>1 DEF ServerExecutes, ServerRequest, clientVars
<1>4. server'[c].status = "requested" /\ server'[c].ours /\ server'[c].peerKey = NoKey
  BY <1>1, <1>3 DEF AlwaysInv, Types, ServerType
<1>5. /\ \A kind : Sent(kind, c)' = {}
      /\ Accepting(c)' = {} /\ Agreeing(c)' = {} /\ AllCopies(c, "Init")' /\ NoTwice(c)'
  <2>1. /\ \A kind : Sent(kind, c) = {}
        /\ Accepting(c) = {} /\ Agreeing(c) = {} /\ AllCopies(c, "Init")
    BY <1>1, <1>2, Unheard
  <2>2. Copies(c)' = Copies(c)
    BY <1>3 DEF Copies, EntriesOf
  <2>3. Accepting(c)' \subseteq Accepting(c) /\ Agreeing(c)' = Agreeing(c)
    BY <1>3 DEF Accepting, Agreeing
  <2>4. NoTwice(c)
    BY <1>1 DEF NetInv, OnceInv
  <2> QED
    BY <1>3, <2>1, <2>2, <2>3, <2>4, SentUntouched DEF AllCopies
<1>6. OnceInv(c)' /\ TheirsInv(c)' /\ OursInv(c)' /\ AgreedInv(c)'
  BY <1>4, <1>5 DEF OnceInv, TheirsInv, OursInv, AgreedInv
<1> QED
  BY <1>1, <1>6 DEF NetInv

\* messages.acceptEncryption of a chat that the peer requested: the peer keeps the
\* key that the request names.
LEMMA AcceptExecuted ==
  ASSUME AlwaysInv, NEW r \in calls, ServerExecutes(r), ServerAccept(r),
         NEW c \in Chats, c = r.chat, NetInv(c), server[c].status = "requested"
  PROVE  NetInv(c)'
<1>1. c = r.chat
  OBVIOUS
<1>2. PICK key, a : /\ key = IF SharedKey(server[c].g.p, Peer, r.g) = r.key THEN r.key ELSE NoKey
                    /\ a = Answer("accepted", NoRequest, c)
  OBVIOUS
<1>3. /\ UNCHANGED <<mChats, objects, stored, updates, fault>> /\ calls' = calls \ {r}
      /\ server' = [server EXCEPT ![c].status = "accepted", ![c].peerKey = key]
      /\ answers' = answers \cup {a}
  BY <1>1, <1>2 DEF ServerExecutes, ServerAccept, clientVars
<1>4. server[c] \in RecordType
  BY DEF AlwaysInv, Types, ServerType
<1>5. /\ server'[c].status = "accepted" /\ server'[c].ours = server[c].ours
      /\ server'[c].peerKey = key
  BY <1>3, <1>4 DEF AlwaysInv, Types, ServerType, RecordType
<1>6. r \in Accepting(c) /\ r.method = "accept"
  BY <1>1 DEF Accepting, ServerAccept
<1>7. /\ \A q \in Accepting(c) : q = r
      /\ Agreeing(c) = {} /\ Sent("requested", c) = {} /\ NoTwice(c)
  BY <1>1, <1>6 DEF NetInv, OnceInv
<1>8. AllCopies(c, "Requested") /\ ~server[c].ours /\ (Running => AllKeys(c, r.key))
  BY <1>1, <1>6 DEF NetInv, TheirsInv
<1>9. Sent("accepted", c) = {}
  BY <1>1, <1>8 DEF NetInv, OursInv
<1>10. /\ Accepting(c)' = {} /\ Agreeing(c)' # {}
       /\ Copies(c)' = Copies(c) /\ Running' = Running
       /\ \A kind : Sent(kind, c)' = Sent(kind, c)
       /\ NoTwice(c)'
  <2>1. Accepting(c)' = {}
    BY <1>3, <1>7 DEF Accepting
  <2>2. a \in Agreeing(c)'
    BY <1>2, <1>3 DEF Agreeing, Answer
  <2>3. Copies(c)' = Copies(c) /\ Running' = Running
    BY <1>3 DEF Copies, EntriesOf, Running
  <2> QED
    BY <1>3, <1>7, <2>1, <2>2, <2>3, SentUntouched
<1>11. AllCopies(c, "Requested")' /\ (Running => AllKeys(c, r.key)')
  BY <1>8, <1>10 DEF AllCopies, AllKeys
<1>12. OnceInv(c)'
  BY <1>7, <1>10 DEF OnceInv
<1>13. TheirsInv(c)'
  <2>1. key # NoKey => key = r.key
    BY <1>2
  <2>2. Running' /\ key # NoKey => AllKeys(c, key)'
    BY <1>10, <1>11, <2>1
  <2>3. Running' /\ server'[c].peerKey # NoKey => AllKeys(c, server[c].peerKey)'
    BY <1>5, <2>2 DEF AllKeys
  <2> QED
    BY <1>5, <1>7, <1>8, <1>10, <1>11, <2>3 DEF TheirsInv
<1>14. OursInv(c)'
  BY <1>5, <1>9, <1>10 DEF OursInv
<1>15. AgreedInv(c)'
  BY <1>11 DEF AgreedInv, AllCopies
<1> QED
  BY <1>1, <1>12, <1>13, <1>14, <1>15 DEF NetInv

\* The server executes a request.
LEMMA Executes ==
  ASSUME AlwaysInv, NEW r \in calls, ServerExecutes(r), NEW c \in Chats, ChatInv(c)
  PROVE  ChatInv(c)'
<1>1. /\ UNCHANGED <<mChats, objects, stored, updates, fault>> /\ calls' = calls \ {r}
  BY DEF ServerExecutes, clientVars
<1>2. FileInv(c)' /\ Copies(c)' = Copies(c)
  BY <1>1, FileUntouched DEF ChatInv
<1>3. /\ NoTwice(c)' /\ \A kind : Sent(kind, c)' = Sent(kind, c)
      /\ Accepting(c)' \subseteq Accepting(c) /\ Running' = Running
  <2>1. NoTwice(c)
    BY DEF ChatInv, NetInv, OnceInv
  <2>2. Accepting(c)' \subseteq Accepting(c) /\ Running' = Running
    BY <1>1 DEF Accepting, Running
  <2> QED
    BY <1>1, <2>1, <2>2, SentUntouched
<1>4. server \in [Chats -> RecordType]
  BY DEF AlwaysInv, Types, ServerType
<1>5. ASSUME Agreeing(c)' \subseteq Agreeing(c),
             server'[c].ours = server[c].ours, server'[c].peerKey = server[c].peerKey,
             server'[c].status \in {server[c].status, "discarded"}
      PROVE  NetInv(c)'
  <2>1. Fewer(c)
    BY <1>2, <1>3, <1>5 DEF Fewer
  <2> QED
    BY <2>1, NetFewer DEF ChatInv
<1>6. ASSUME ServerRequest(r) PROVE NetInv(c)'
  <2>1. CASE c = r.chat
    BY <1>6, <2>1, RequestExecuted DEF ChatInv
  <2>2. CASE c # r.chat
    <3>1. server'[c] = server[c] /\ Agreeing(c)' = Agreeing(c)
      BY <1>6, <2>2 DEF ServerRequest, Agreeing, AlwaysInv, Types, ServerType
    <3> QED
      BY <1>5, <3>1
  <2> QED
    BY <2>1, <2>2
<1>7. ASSUME ServerAccept(r) PROVE NetInv(c)'
  <2>1. CASE server[r.chat].status = "requested" /\ c = r.chat
    BY <1>7, <2>1, AcceptExecuted DEF ChatInv
  <2>2. CASE server[r.chat].status = "requested" /\ c # r.chat
    <3>1. server'[c] = server[c] /\ Agreeing(c)' = Agreeing(c)
      BY <1>4, <1>7, <2>2 DEF ServerAccept, Agreeing, Answer
    <3> QED
      BY <1>5, <3>1
  <2>3. CASE server[r.chat].status # "requested"
    <3>1. server' = server /\ Agreeing(c)' = Agreeing(c)
      BY <1>7, <2>3 DEF ServerAccept, Agreeing, Answer
    <3> QED
      BY <1>5, <3>1
  <2> QED
    BY <2>1, <2>2, <2>3
<1>8. ASSUME ServerDiscard(r) PROVE NetInv(c)'
  <2>1. Agreeing(c)' = Agreeing(c)
    BY <1>8 DEF ServerDiscard, Agreeing, Answer
  <2>2. server' = server \/ server' = [server EXCEPT ![r.chat].status = "discarded"]
    BY <1>8 DEF ServerDiscard
  <2>3. /\ server'[c].ours = server[c].ours /\ server'[c].peerKey = server[c].peerKey
        /\ server'[c].status \in {server[c].status, "discarded"}
    BY <1>4, <2>2 DEF RecordType
  <2> QED
    BY <1>5, <2>1, <2>3
<1> QED
  BY <1>2, <1>6, <1>7, <1>8 DEF ServerExecutes, ChatInv

\* What the peer does to the record rec of a chat d, with the update u about it.
Tells(d, rec, u) ==
  /\ server' = [server EXCEPT ![d] = rec] /\ updates' = Append(updates, u) /\ u.chat = d
  /\ \/ /\ u.kind = "requested" /\ server[d].status = "none" /\ Copies(d) = {}
        /\ rec.status = "requested" /\ ~rec.ours /\ rec.peerKey = NoKey
     \/ /\ u.kind = "accepted" /\ server[d].status = "requested" /\ server[d].ours
        /\ rec.status = "accepted" /\ rec.ours /\ rec.peerKey = u.key
     \/ /\ u.kind = "discarded" /\ rec.status = "discarded"
        /\ rec.ours = server[d].ours /\ rec.peerKey = server[d].peerKey

\* The peer requests, accepts or discards the chat d, and c is any chat.
LEMMA PeerTells ==
  ASSUME AlwaysInv, UNCHANGED <<mChats, objects, stored, fault, calls, answers>>,
         NEW d \in Chats, NEW rec \in RecordType, NEW u \in UpdateType, Tells(d, rec, u),
         NEW c \in Chats, ChatInv(c)
  PROVE  ChatInv(c)'
<1>1. FileInv(c)' /\ Copies(c)' = Copies(c)
  BY FileUntouched DEF ChatInv
<1>2. Accepting(c)' = Accepting(c) /\ Agreeing(c)' = Agreeing(c) /\ Running' = Running
  BY DEF Accepting, Agreeing, Running
<1>3. server \in [Chats -> RecordType] /\ updates' = Append(updates, u) /\ Types
  BY DEF AlwaysInv, Types, ServerType, Tells
<1>4. NoTwice(c) /\ NetInv(c)
  BY DEF ChatInv, NetInv, OnceInv
<1>5. ASSUME u.chat = c /\ u.kind # "discarded" => Sent(u.kind, c) = {}
      PROVE  /\ NoTwice(c)'
             /\ \A kind : Sent(kind, c)' \subseteq Sent(kind, c) \cup {u}
             /\ \A kind : u.kind # kind \/ u.chat # c => Sent(kind, c)' \subseteq Sent(kind, c)
  BY <1>3, <1>4, <1>5, OnceAppended
<1>6. ASSUME u.chat # c \/ u.kind = "discarded",
             server'[c].ours = server[c].ours, server'[c].peerKey = server[c].peerKey,
             server'[c].status \in {server[c].status, "discarded"}
      PROVE  NetInv(c)'
  <2>1. NoTwice(c)' /\ \A kind : Sent(kind, c)' \subseteq Sent(kind, c) \cup {u}
    BY <1>5, <1>6
  <2>2. u \notin Sent("requested", c)' /\ u \notin Sent("accepted", c)'
    BY <1>6 DEF Sent
  <2>3. Fewer(c)
    BY <1>1, <1>2, <1>6, <2>1, <2>2 DEF Fewer
  <2> QED
    BY <1>4, <2>3, NetFewer
<1>7. ASSUME c # d PROVE NetInv(c)'
  BY <1>3, <1>6, <1>7 DEF Tells
<1>8. ASSUME c = d, u.kind = "requested" PROVE NetInv(c)'
  <2>1. server[c].status = "none" /\ Copies(c) = {} /\ server'[c] = rec
    BY <1>3, <1>8 DEF Tells
  <2>2. (\A kind : Sent(kind, c) = {}) /\ Accepting(c) = {} /\ Agreeing(c) = {}
    BY <1>4, <2>1, Unheard
  <2>3. rec.status = "requested" /\ ~rec.ours /\ rec.peerKey = NoKey
    BY <1>8 DEF Tells
  <2>4. NoTwice(c)' /\ Sent("accepted", c)' = {}
    BY <1>5, <1>8, <2>2
  <2> QED
    BY <1>1, <1>2, <2>1, <2>2, <2>3, <2>4
       DEF NetInv, OnceInv, TheirsInv, OursInv, AgreedInv, AllCopies
<1>9. ASSUME c = d, u.kind = "accepted" PROVE NetInv(c)'
  <2>1. server[c].status = "requested" /\ server[c].ours /\ server'[c] = rec /\ u.chat = c
    BY <1>3, <1>9 DEF Tells
  <2>2. /\ AllCopies(c, "Init") /\ Sent("requested", c) = {} /\ Sent("accepted", c) = {}
        /\ Accepting(c) = {} /\ Agreeing(c) = {}
    BY <1>4, <2>1 DEF NetInv, OursInv, TheirsInv
  <2>3. rec.status = "accepted" /\ rec.ours /\ rec.peerKey = u.key
    BY <1>9 DEF Tells
  <2>4. NoTwice(c)' /\ Sent("requested", c)' = {} /\ Sent("accepted", c)' \subseteq {u}
    <3>1. u.kind = "accepted" /\ u.kind # "requested"
      BY <1>9
    <3>2. Sent(u.kind, c) = {}
      BY <2>2, <3>1
    <3> QED
      BY <1>5, <2>2, <3>1, <3>2
  <2>5. OnceInv(c)' /\ TheirsInv(c)'
    BY <1>2, <2>2, <2>4 DEF OnceInv, TheirsInv
  <2>6. AllCopies(c, "Init")'
    BY <1>1, <2>2 DEF AllCopies
  <2>7. OursInv(c)'
    BY <2>1, <2>3, <2>4, <2>6 DEF OursInv
  <2>8. AgreedInv(c)'
    BY <2>6 DEF AgreedInv, AllCopies
  <2> QED
    BY <2>5, <2>7, <2>8 DEF NetInv
<1>10. ASSUME c = d, u.kind = "discarded" PROVE NetInv(c)'
  <2>1. server'[c] = rec /\ rec.ours = server[c].ours /\ rec.peerKey = server[c].peerKey
    BY <1>3, <1>10 DEF Tells
  <2>2. rec.status = "discarded"
    BY <1>10 DEF Tells
  <2> QED
    BY <1>6, <1>10, <2>1, <2>2
<1> QED
  BY <1>1, <1>7, <1>8, <1>9, <1>10 DEF ChatInv, UpdateType

\* The peer requests a chat that nobody knows.
LEMMA PeerAsks ==
  ASSUME AlwaysInv, PeerRequests, UNCHANGED clientVars, UNCHANGED <<fault, calls, answers>>,
         NEW c \in Chats, ChatInv(c)
  PROVE  ChatInv(c)'
<1>1. PICK d, g, rec, u :
        /\ d = NextChat /\ g = Power(config, Peer)
        /\ rec = [NoRecord EXCEPT !.status = "requested", !.g = g]
        /\ u = Update("requested", d, g, NoKey)
  OBVIOUS
<1>2. /\ Cardinality(Unnamed) < Cardinality(FreeChats)
      /\ server' = [server EXCEPT ![d] = rec] /\ updates' = Append(updates, u)
  BY <1>1 DEF PeerRequests
<1>3. d \in FreeChats
  <2>1. FreeChats \in SUBSET Chats
    BY DEF FreeChats
  <2>2. Cardinality(Unnamed) \in Nat
    BY NamingFinite DEF AlwaysInv
  <2>3. Cardinality(FreeChats) \in Nat /\ (Cardinality(FreeChats) > 0 => FreeChats # {})
    BY <2>1, FreeFinite
  <2> QED
    BY <1>1, <1>2, <2>2, <2>3 DEF NextChat
<1>4. d \in Chats /\ server[d].status = "none" /\ Copies(d) = {}
  BY <1>3, FreeIs DEF Copies, EntriesOf
<1>5. g \in Powers /\ NoKey \in Keys
  BY <1>1 DEF Power, Powers, NoKey, Keys, Peer, AlwaysInv, Types, ServerType
<1>6. rec \in RecordType /\ rec.status = "requested" /\ ~rec.ours /\ rec.peerKey = NoKey
  <2>1. rec = [status |-> "requested", ours |-> FALSE, g |-> g, peerKey |-> NoKey]
    BY <1>1 DEF NoRecord
  <2> QED
    BY <1>5, <2>1 DEF RecordType
<1>7. u \in UpdateType /\ u.chat = d /\ u.kind = "requested"
  BY <1>1, <1>4, <1>5 DEF Update, UpdateType
<1>8. Tells(d, rec, u)
  BY <1>2, <1>4, <1>6, <1>7 DEF Tells
<1> QED
  BY <1>4, <1>6, <1>7, <1>8, PeerTells DEF clientVars

\* The peer requests, accepts or discards a chat.
LEMMA PeerTouches ==
  ASSUME AlwaysInv, PeerActs, NEW c \in Chats, ChatInv(c)
  PROVE  ChatInv(c)'
<1>1. UNCHANGED clientVars /\ UNCHANGED <<fault, calls, answers>>
  BY DEF PeerActs
<1>2. config \in Nat /\ server \in [Chats -> RecordType]
  BY DEF AlwaysInv, Types, ServerType
<1>3. ASSUME NEW d \in Chats, PeerAccepts(d)
      PROVE  ChatInv(c)'
  <2>1. PICK key, rec, u :
          /\ key = SharedKey(config, Peer, server[d].g)
          /\ rec = [server[d] EXCEPT !.status = "accepted", !.peerKey = key]
          /\ u = Update("accepted", d, Power(config, Peer), key)
    OBVIOUS
  <2>2. /\ server[d].status = "requested" /\ server[d].ours /\ updates' = Append(updates, u)
        /\ server[d] \in RecordType
    BY <1>2, <1>3, <2>1 DEF PeerAccepts
  <2>3. server' = [server EXCEPT ![d] = rec]
    <3>1. server' = [server EXCEPT ![d].status = "accepted", ![d].peerKey = key]
      BY <1>3, <2>1 DEF PeerAccepts
    <3> QED
      BY <1>2, <2>1, <3>1
  <2>4. key \in Keys /\ Power(config, Peer) \in Powers
    <3>1. server[d].g \in Powers /\ config \in Int /\ Peer \in Int
      BY <1>2, <2>2 DEF RecordType, Peer
    <3> QED
      BY <2>1, <3>1, KeyTypes
  <2>5. rec \in RecordType /\ rec.status = "accepted" /\ rec.ours /\ rec.peerKey = key
    BY <2>1, <2>2, <2>4 DEF RecordType
  <2>6. u \in UpdateType /\ u.chat = d /\ u.kind = "accepted" /\ u.key = key
    BY <2>1, <2>4 DEF Update, UpdateType
  <2>7. Tells(d, rec, u)
    BY <2>2, <2>3, <2>5, <2>6 DEF Tells
  <2> QED
    BY <1>1, <2>5, <2>6, <2>7, PeerTells DEF clientVars
<1>4. ASSUME NEW d \in Chats, PeerDiscards(d)
      PROVE  ChatInv(c)'
  <2>1. PICK rec, u : /\ rec = [server[d] EXCEPT !.status = "discarded"]
                      /\ u = Update("discarded", d, NoPower, NoKey)
    OBVIOUS
  <2>2. /\ updates' = Append(updates, u) /\ server[d] \in RecordType
        /\ server' = [server EXCEPT ![d] = rec]
    BY <1>2, <1>4, <2>1 DEF PeerDiscards
  <2>3. /\ rec \in RecordType /\ rec.status = "discarded"
        /\ rec.ours = server[d].ours /\ rec.peerKey = server[d].peerKey
    BY <2>1, <2>2 DEF RecordType
  <2>4. u \in UpdateType /\ u.chat = d /\ u.kind = "discarded"
    <3>1. NoPower \in Powers /\ NoKey \in Keys
      BY DEF NoPower, Powers, NoKey, Keys
    <3> QED
      BY <2>1, <3>1 DEF Update, UpdateType
  <2>5. Tells(d, rec, u)
    BY <2>2, <2>3, <2>4 DEF Tells
  <2> QED
    BY <1>1, <2>3, <2>4, <2>5, PeerTells DEF clientVars
<1> QED
  BY <1>1, <1>3, <1>4, PeerAsks DEF PeerActs

-----------------------------------------------------------------------------
(* The client, where no chat changes.                                      *)

\* A step that takes something from what is under way of a chat, and no copy is new.
LEMMA ChatFewer ==
  ASSUME AlwaysInv, NEW c \in Chats, ChatInv(c), FileInv(c)', Copies(c)' \subseteq Copies(c),
         Accepting(c)' \subseteq Accepting(c), Agreeing(c)' \subseteq Agreeing(c), UNCHANGED server,
         \/ UNCHANGED updates
         \/ updates # <<>> /\ updates' = Tail(updates)
         \/ updates' = <<>>,
         Running' => Running \/ (calls' = {} /\ answers' = {})
  PROVE  ChatInv(c)'
<1>1. NoTwice(c) /\ NetInv(c) /\ Types
  BY DEF ChatInv, NetInv, OnceInv, AlwaysInv
<1>2. NoTwice(c)' /\ \A kind : Sent(kind, c)' \subseteq Sent(kind, c)
  <2>1. CASE UNCHANGED updates
    BY <1>1, <2>1, SentUntouched
  <2>2. CASE updates # <<>> /\ updates' = Tail(updates)
    BY <1>1, <2>2, OnceProcessed
  <2>3. CASE updates' = <<>>
    BY <2>3 DEF NoTwice, Sent, Pending
  <2> QED
    BY <2>1, <2>2, <2>3
<1>3. Fewer(c)
  BY <1>2 DEF Fewer
<1> QED
  BY <1>1, <1>3, NetFewer DEF ChatInv

\* A fault ends the process.
LEMMA Ends ==
  ASSUME AlwaysInv, NEW c \in Chats, ChatInv(c), UNCHANGED clientVars, ~Running', UNCHANGED server,
         Accepting(c)' \subseteq Accepting(c), answers' \subseteq answers,
         UNCHANGED updates \/ (updates # <<>> /\ updates' = Tail(updates))
  PROVE  ChatInv(c)'
<1>1. FileInv(c)' /\ Copies(c)' = Copies(c)
  BY FileUntouched DEF ChatInv, clientVars
<1>2. Agreeing(c)' \subseteq Agreeing(c)
  BY DEF Agreeing
<1> QED
  BY <1>1, <1>2, ChatFewer

\* What a request adds to the calls.
LEMMA AskedCall ==
  ASSUME NEW method, NEW d, Ask(method, d)
  PROVE  \E q : calls' = calls \cup {q} /\ q.method = method /\ q.chat = d
<1>1. PICK late \in 0..1 : calls' = calls \cup {Call(method, Told + late, d, NoPower, NoKey)}
  BY DEF Ask
<1>2. PICK q : q = Call(method, Told + late, d, NoPower, NoKey)
  OBVIOUS
<1>3. q.method = method /\ q.chat = d
  BY <1>2 DEF Call
<1> QED
  BY <1>1, <1>2, <1>3

\* messagesCreateEncryptedChat: the object has no chat yet.
LEMMA CreatesAside ==
  ASSUME AlwaysInv, Running, Create, NEW c \in Chats, ChatInv(c)
  PROVE  ChatInv(c)'
<1>1. /\ mChats' = Insert(mChats, Told, Told)
      /\ objects' = Restrict(Insert(objects, Told, NewSecretChat), Range(mChats'))
      /\ UNCHANGED <<stored, fault, answers, updates, server>> /\ Ask("getDhConfig", NoChat)
  BY DEF Create, Continue
<1>2. PICK q : calls' = calls \cup {q} /\ q.chat = NoChat
  BY <1>1, AskedCall
<1>3. AlwaysInv'
  BY Creates
<1>4. c # NoChat /\ Told \notin DOMAIN mChats /\ Told \notin DOMAIN objects /\ Told # c
      /\ mChats \in [DOMAIN mChats -> DOMAIN objects]
  BY Fresh, NotIds DEF ChatKeys
<1>5. /\ \A k \in DOMAIN mChats : /\ k \in DOMAIN mChats' /\ mChats'[k] = mChats[k]
                                 /\ objects'[mChats'[k]] = objects[mChats[k]]
      /\ DOMAIN mChats' = DOMAIN mChats \cup {Told}
      /\ objects'[mChats'[Told]].chatId = NoChat
  <2>1. PICK m, o : m = Insert(mChats, Told, Told) /\ o = Insert(objects, Told, NewSecretChat)
    OBVIOUS
  <2>2. /\ DOMAIN m = DOMAIN mChats \cup {Told} /\ m[Told] = Told
        /\ \A k \in DOMAIN mChats : m[k] = mChats[k]
        /\ DOMAIN o = DOMAIN objects \cup {Told} /\ o[Told] = NewSecretChat
        /\ \A x \in DOMAIN objects : o[x] = objects[x]
    BY <1>4, <2>1 DEF Insert
  <2>3. m \in [DOMAIN m -> DOMAIN o]
    BY <1>4, <2>1, <2>2 DEF Insert
  <2>4. mChats' = m /\ objects' = Restrict(o, Range(m))
    BY <1>1, <2>1
  <2>5. \A k \in DOMAIN m : objects'[m[k]] = o[m[k]]
    BY <2>3, <2>4, Restricted
  <2> QED
    BY <1>4, <2>2, <2>4, <2>5 DEF NewSecretChat
<1>6. EntriesOf(mChats', objects', c) = EntriesOf(mChats, objects, c)
  BY <1>4, <1>5 DEF EntriesOf
<1>7. Alike(c)
  <2>1. \A k \in EntriesOf(mChats, objects, c) :
          mChats'[k] = mChats[k] /\ objects'[mChats'[k]] = objects[mChats[k]]
    BY <1>5 DEF EntriesOf
  <2>2. Has(mChats', c) <=> Has(mChats, c)
    BY <1>4, <1>5 DEF Has
  <2> QED
    BY <1>6, <2>1, <2>2 DEF Alike
<1>8. FileInv(c)' /\ Copies(c)' \subseteq Copies(c)
  <2>1. \A k \in EntriesOf(mChats, objects, c) : objects[mChats[k]].deleted =>
          k \in EntriesOf(mChats', objects', c) /\ objects'[mChats'[k]].deleted
    BY <1>5, <1>6 DEF EntriesOf
  <2> QED
    BY <1>1, <1>3, <1>7, <2>1, KeptAlike DEF ChatInv
<1>9. Accepting(c)' \subseteq Accepting(c) /\ Agreeing(c)' = Agreeing(c) /\ Running' = Running
  BY <1>1, <1>2, <1>4 DEF Accepting, Agreeing, Running
<1> QED
  BY <1>1, <1>8, <1>9, ChatFewer

\* messagesDiscardEncryptedChat: another entry leads to the chat.
LEMMA UserDiscardsAside ==
  ASSUME AlwaysInv, Running, NEW d \in Chats, UserDiscard(d), NEW c \in Chats, ChatInv(c)
  PROVE  ChatInv(c)'
<1>1. /\ mChats' = Insert(mChats, Told, mChats[d]) /\ d \in DOMAIN mChats
      /\ objects' = Restrict(objects, Range(mChats'))
      /\ UNCHANGED <<stored, fault, answers, updates, server>> /\ Ask("discard", d)
  BY DEF UserDiscard, Continue, Has
<1>2. PICK q : calls' = calls \cup {q} /\ q.method = "discard"
  BY <1>1, AskedCall
<1>3. AlwaysInv'
  BY UserDiscards
<1>4. Told \notin DOMAIN mChats /\ Told # c /\ mChats \in [DOMAIN mChats -> DOMAIN objects]
  BY Fresh, NotIds DEF ChatKeys
<1>5. /\ \A k \in DOMAIN mChats : /\ k \in DOMAIN mChats' /\ mChats'[k] = mChats[k]
                                 /\ objects'[mChats'[k]] = objects[mChats[k]]
      /\ DOMAIN mChats' = DOMAIN mChats \cup {Told}
      /\ mChats'[Told] = mChats[d] /\ objects'[mChats'[Told]] = objects[mChats[d]]
  <2>1. PICK m : m = Insert(mChats, Told, mChats[d])
    OBVIOUS
  <2>2. /\ DOMAIN m = DOMAIN mChats \cup {Told} /\ m[Told] = mChats[d]
        /\ \A k \in DOMAIN mChats : m[k] = mChats[k]
    BY <1>4, <2>1 DEF Insert
  <2>3. m \in [DOMAIN m -> DOMAIN objects]
    BY <1>1, <1>4, <2>1, <2>2 DEF Insert
  <2>4. mChats' = m /\ objects' = Restrict(objects, Range(m))
    BY <1>1, <2>1
  <2>5. \A k \in DOMAIN m : objects'[m[k]] = objects[m[k]]
    BY <2>3, <2>4, Restricted
  <2> QED
    BY <1>1, <2>2, <2>4, <2>5
<1>6. Alike(c)
  <2>1. Has(mChats', c) <=> Has(mChats, c)
    BY <1>4, <1>5 DEF Has
  <2>2. ASSUME NEW k \in EntriesOf(mChats', objects', c)
        PROVE  \E j \in EntriesOf(mChats, objects, c) :
                 mChats'[k] = mChats[j] /\ objects'[mChats'[k]] = objects[mChats[j]]
    <3>1. CASE k \in DOMAIN mChats
      BY <1>5, <2>2, <3>1 DEF EntriesOf
    <3>2. CASE k = Told
      BY <1>1, <1>5, <2>2, <3>2 DEF EntriesOf
    <3> QED
      BY <1>5, <2>2, <3>1, <3>2 DEF EntriesOf
  <2> QED
    BY <2>1, <2>2 DEF Alike
<1>7. FileInv(c)' /\ Copies(c)' \subseteq Copies(c)
  <2>1. \A k \in EntriesOf(mChats, objects, c) : objects[mChats[k]].deleted =>
          k \in EntriesOf(mChats', objects', c) /\ objects'[mChats'[k]].deleted
    BY <1>5 DEF EntriesOf
  <2> QED
    BY <1>1, <1>3, <1>6, <2>1, KeptAlike DEF ChatInv
<1>8. Accepting(c)' \subseteq Accepting(c) /\ Agreeing(c)' = Agreeing(c) /\ Running' = Running
  BY <1>1, <1>2 DEF Accepting, Agreeing, Running
<1> QED
  BY <1>1, <1>7, <1>8, ChatFewer

\* The process starts again from the file.
LEMMA RestartsAside ==
  ASSUME AlwaysInv, Restart, NEW c \in Chats, ChatInv(c)
  PROVE  ChatInv(c)'
<1>1. /\ mChats' = [d \in DOMAIN stored.chats |-> d] /\ objects' = stored.chats
      /\ calls' = {} /\ answers' = {} /\ (UNCHANGED updates \/ updates' = <<>>)
      /\ UNCHANGED <<stored, server>>
  BY DEF Restart, Load
<1>2. AlwaysInv'
  BY Restarts
<1>3. \A d \in DOMAIN stored.chats : stored.chats[d].chatId = d /\ ~stored.chats[d].deleted
  BY DEF AlwaysInv, Types, FileType
<1>4. EntriesOf(mChats', objects', c) = DOMAIN stored.chats \cap {c}
  BY <1>1, <1>3 DEF EntriesOf
<1>5. FileFits'
  <2>1. DOMAIN stored'.chats = {objects'[mChats'[k]].chatId : k \in DOMAIN mChats'}
    <3>1. /\ DOMAIN mChats' = DOMAIN stored.chats /\ stored'.chats = stored.chats
          /\ \A k \in DOMAIN stored.chats : objects'[mChats'[k]].chatId = k
      BY <1>1, <1>3
    <3> QED
      BY <3>1
  <2>2. \A d \in DOMAIN stored'.chats :
          d \in EntriesOf(mChats', objects', d) /\ objects'[mChats'[d]] = stored'.chats[d]
    BY <1>1, <1>3 DEF EntriesOf
  <2> QED
    BY <2>1, <2>2 DEF FileFits
<1>6. FileInv(c)'
  <2>1. SingleInv(mChats, objects, c)'
    BY <1>1, <1>4 DEF SingleInv, Has
  <2> QED
    BY <1>2, <1>5, <2>1, SavedChat
<1>7. Copies(c)' \subseteq Copies(c)
  <2>1. \A k \in EntriesOf(mChats', objects', c) :
          k \in DOMAIN stored.chats \cap {c} /\ objects'[mChats'[k]] = stored.chats[k]
    BY <1>1, <1>4
  <2>2. ASSUME NEW y \in Copies(c)' PROVE y \in Copies(c)
    <3>1. PICK k \in EntriesOf(mChats', objects', c) : y = Copy(objects'[mChats'[k]])
      BY <1>5, <2>2, SavedCopies
    <3> QED
      BY <2>1, <3>1 DEF Copies
  <2> QED
    BY <2>2
<1>8. Accepting(c)' \subseteq Accepting(c) /\ Agreeing(c)' \subseteq Agreeing(c)
  BY <1>1 DEF Accepting, Agreeing
<1> QED
  BY <1>1, <1>6, <1>7, <1>8, ChatFewer

-----------------------------------------------------------------------------
(* The client, where a chat changes.                                       *)

\* The object x of the chat d is rewritten and saved; the entry id goes.
LEMMA RewriteSaved ==
  ASSUME AlwaysInv, AlwaysInv', NEW d \in Chats, FileInv(d), NEW x \in DOMAIN objects,
         objects[x].chatId = d, ~objects[x].deleted, NEW new \in ObjectType, new.chatId = d,
         ~new.deleted, NEW id, id \notin Chats, NEW m, m = Remove(mChats, id),
         NEW w, w = [objects EXCEPT ![x] = new], NEW p, Saved(m, w, w, p)
  PROVE  /\ FileInv(d)' /\ (\A y \in Copies(d)' : y = Copy(new))
         /\ \A c \in Chats : c # d /\ FileInv(c) => FileInv(c)' /\ Copies(c)' \subseteq Copies(c)
<1>1. /\ mChats \in [DOMAIN mChats -> DOMAIN objects] /\ objects \in [DOMAIN objects -> ObjectType]
  BY Fresh
<1>2. /\ DOMAIN m = DOMAIN mChats \ {id} /\ (\A k \in DOMAIN m : m[k] = mChats[k])
      /\ m \in [DOMAIN m -> DOMAIN w] /\ DOMAIN w = DOMAIN objects /\ w[x] = new
      /\ \A y \in DOMAIN objects : y # x => w[y] = objects[y]
      /\ w \in [DOMAIN w -> ObjectType]
  BY <1>1 DEF Remove
<1>3. /\ mChats' = m /\ \A k \in DOMAIN m : objects'[m[k]] = w[m[k]]
  <2>1. mChats' = m /\ objects' = Restrict(w, Range(m))
    BY DEF Saved
  <2> QED
    BY <1>2, <2>1, Restricted
<1>4. FileFits'
  BY <1>2, SavedFits
<1>5. PICK e \in DOMAIN mChats : mChats[e] = x
  <2>1. DOMAIN objects = Range(mChats)
    BY DEF AlwaysInv, Types
  <2> QED
    BY <1>1, <2>1 DEF Range
<1>6. /\ e \in EntriesOf(mChats, objects, d) /\ Has(mChats, d)
      /\ \A k \in EntriesOf(mChats, objects, d) : mChats[k] = x
  BY <1>5 DEF EntriesOf, FileInv, SingleInv
<1>7. ASSUME NEW k \in EntriesOf(mChats', objects', d)
      PROVE  k \in DOMAIN mChats /\ mChats'[k] = x /\ objects'[mChats'[k]] = new
  <2>1. k \in DOMAIN m /\ w[m[k]].chatId = d /\ m[k] = mChats[k] /\ m[k] \in DOMAIN objects
    BY <1>1, <1>2, <1>3, <1>7 DEF EntriesOf
  <2>2. m[k] = x
    <3>1. CASE mChats[k] = x
      BY <2>1, <3>1
    <3>2. CASE mChats[k] # x
      BY <1>2, <1>6, <2>1, <3>2 DEF EntriesOf
    <3> QED
      BY <3>1, <3>2
  <2> QED
    BY <1>2, <1>3, <2>1, <2>2
<1>8. SingleInv(mChats, objects, d)'
  <2>1. Has(mChats', d)
    BY <1>2, <1>3, <1>6 DEF Has
  <2> QED
    BY <1>7, <2>1 DEF SingleInv
<1>9. FileInv(d)' /\ \A y \in Copies(d)' : y = Copy(new)
  BY <1>4, <1>7, <1>8, SavedChat, SavedCopies
<1>10. ASSUME NEW c \in Chats, c # d, FileInv(c)
       PROVE  FileInv(c)' /\ Copies(c)' \subseteq Copies(c)
  <2>1. ASSUME NEW k \in EntriesOf(mChats', objects', c)
        PROVE  /\ k \in EntriesOf(mChats, objects, c) /\ mChats'[k] = mChats[k]
               /\ objects'[mChats'[k]] = objects[mChats[k]]
    <3>1. k \in DOMAIN m /\ w[m[k]].chatId = c /\ m[k] = mChats[k] /\ m[k] \in DOMAIN objects
      BY <1>1, <1>2, <1>3, <2>1 DEF EntriesOf
    <3>2. m[k] # x
      BY <1>2, <1>10, <3>1
    <3> QED
      BY <1>2, <1>3, <3>1, <3>2 DEF EntriesOf
  <2>2. Has(mChats', c) <=> Has(mChats, c)
    BY <1>2, <1>3 DEF Has
  <2>3. Alike(c)
    BY <2>1, <2>2 DEF Alike
  <2> QED
    BY <1>4, <1>10, <2>3, SavedAlike
<1> QED
  BY <1>9, <1>10

\* A request that is answered leads to the one request q, or to none.
LEMMA HandshakeGoesOn ==
  ASSUME NEW d \in Chats, NetInv(d), NEW r \in Accepting(d), NEW q, Accepting(d)' \subseteq {q},
         UNCHANGED <<server, answers, updates>>, AllCopies(d, "Requested")',
         q.method = "accept" /\ Running' => AllKeys(d, q.key)'
  PROVE  NetInv(d)'
<1>1. /\ Agreeing(d) = {} /\ Sent("requested", d) = {} /\ NoTwice(d)
      /\ ~server[d].ours /\ server[d].status \in {"requested", "discarded"}
  BY DEF NetInv, OnceInv, TheirsInv
<1>2. Sent("accepted", d) = {}
  BY <1>1 DEF NetInv, OursInv
<1>3. NoTwice(d)' /\ (\A kind : Sent(kind, d)' = Sent(kind, d)) /\ Agreeing(d)' = {}
  BY <1>1, SentUntouched DEF Agreeing
<1>4. OnceInv(d)'
  BY <1>1, <1>3 DEF OnceInv
<1>5. TheirsInv(d)'
  <2>1. ASSUME NEW s \in Accepting(d)'
        PROVE  /\ AllCopies(d, "Requested")'
               /\ ~server'[d].ours /\ server'[d].status \in {"requested", "discarded"}
               /\ s.method = "accept" /\ Running' => AllKeys(d, s.key)'
    <3>1. s = q
      BY <2>1
    <3>2. AllKeys(d, q.key)' => AllKeys(d, s.key)'
      BY <3>1 DEF AllKeys
    <3> QED
      BY <1>1, <3>1, <3>2
  <2> QED
    BY <1>1, <1>3, <2>1 DEF TheirsInv
<1>6. OursInv(d)' /\ AgreedInv(d)'
  BY <1>1, <1>2, <1>3 DEF OursInv, AgreedInv, AllCopies
<1> QED
  BY <1>4, <1>5, <1>6 DEF NetInv

\* A request whose entry leads to a chat: the chat was requested.
LEMMA AcceptingIs ==
  ASSUME AlwaysInv, NEW r \in calls, r.method = "getDhConfig", Has(mChats, r.answer),
         objects[mChats[r.answer]].state # "Init", \A c \in Chats : ChatInv(c)
  PROVE  /\ r.chat \in Chats /\ r \in Accepting(r.chat)
         /\ objects[mChats[r.answer]].state = "Requested"
<1>1. PICK id, x : id = r.answer /\ x = mChats[id]
  OBVIOUS
<1>2. x \in DOMAIN objects /\ objects[x].chatId = r.chat /\ r.chat \in Chats /\ id \in DOMAIN mChats
  BY <1>1, DhConfigOf DEF ChatKeys, Has
<1>3. PICK d \in Chats : d = r.chat
  BY <1>2
<1>4. r \in Accepting(d) /\ id \in EntriesOf(mChats, objects, d)
  BY <1>1, <1>2, <1>3 DEF Accepting, EntriesOf
<1>5. Copy(objects[x]) \in Copies(d) /\ AllCopies(d, "Requested")
  BY <1>1, <1>3, <1>4 DEF ChatInv, NetInv, TheirsInv, Copies
<1>6. objects[x].state = "Requested"
  BY <1>5 DEF AllCopies, Copy
<1> QED
  BY <1>1, <1>2, <1>3, <1>4, <1>6

\* onMessagesDhConfig for a chat that the peer requested: the key is made, and the
\* acceptance is sent with it.
LEMMA DhConfigAccepts ==
  ASSUME AlwaysInv, Running, NEW r \in calls, OnMessagesDhConfig(r), Has(mChats, r.answer),
         ~objects[mChats[r.answer]].deleted, objects[mChats[r.answer]].state # "Init",
         \A e \in Chats : ChatInv(e), NEW c \in Chats
  PROVE  ChatInv(c)'
<1>1. PICK id, x, sc, d, key, new, q, m, w :
        /\ id = r.answer /\ x = mChats[r.answer] /\ sc = objects[x] /\ d = r.chat
        /\ key = SharedKey(config, id, sc.gAOrB)
        /\ new = [[sc EXCEPT !.key = key] EXCEPT !.myKey = id, !.chatId = sc.chatId]
        /\ q = Call("accept", NoRequest, sc.chatId, Power(config, id), key)
        /\ m = Remove(mChats, id) /\ w = [objects EXCEPT ![x] = new]
  OBVIOUS
<1>2. r.method = "getDhConfig" /\ UNCHANGED <<answers, updates, server>>
  BY DEF OnMessagesDhConfig
<1>3. d \in Chats /\ r \in Accepting(d) /\ sc.state = "Requested"
  BY <1>1, <1>2, AcceptingIs
<1>4. /\ x \in DOMAIN objects /\ sc \in ObjectType /\ sc.chatId = d /\ ~sc.deleted /\ sc = objects[x]
      /\ id \in Nat /\ id \notin Chats
  BY <1>1, <1>2, DhConfigOf, NotIds, Fresh DEF ChatKeys
<1>5. calls' = (calls \ {r}) \cup {q} /\ SaveThen(m, w, config, w)
  BY <1>1, <1>3, <1>4 DEF OnMessagesDhConfig, Save
<1>6. /\ new \in ObjectType /\ new.chatId = d /\ new.state = "Requested" /\ ~new.deleted
      /\ new.key = key
  <2>1. new = [state |-> sc.state, chatId |-> d, myKey |-> id, key |-> key,
               gAOrB |-> sc.gAOrB, deleted |-> sc.deleted]
    BY <1>1, <1>4 DEF ObjectType
  <2>2. key \in Keys
    <3>1. sc.gAOrB \in Powers /\ config \in Int
      BY <1>4 DEF ObjectType, AlwaysInv, Types, ServerType
    <3> QED
      BY <1>1, <1>4, <3>1, KeyTypes
  <2> QED
    BY <1>3, <1>4, <2>1, <2>2 DEF ObjectType
<1>7. /\ Accepting(d)' \subseteq {q} /\ q.method = "accept" /\ q.key = key /\ q.chat = d
      /\ \A e : e # d => Accepting(e)' \subseteq Accepting(e)
  <2>1. q.method = "accept" /\ q.key = key /\ q.chat = d
    BY <1>1, <1>4 DEF Call
  <2>2. \A s \in Accepting(d) : s = r
    BY <1>3 DEF ChatInv, NetInv, OnceInv
  <2> QED
    BY <1>5, <2>1, <2>2 DEF Accepting
<1>8. AlwaysInv' /\ ChatInv(c) /\ ChatInv(d) /\ Agreeing(c)' = Agreeing(c)
  BY <1>2, <1>3, DhConfigs DEF Agreeing
<1>9. CASE UNCHANGED clientVars /\ ~Running'
  <2>1. FileInv(c)' /\ Copies(c)' = Copies(c) /\ Copies(d)' = Copies(d)
    BY <1>8, <1>9, FileUntouched DEF ChatInv, clientVars
  <2>2. CASE c # d
    BY <1>2, <1>7, <1>8, <1>9, <2>1, <2>2, ChatFewer
  <2>3. CASE c = d
    <3>1. AllCopies(d, "Requested")'
      BY <1>3, <1>8, <2>1 DEF ChatInv, NetInv, TheirsInv, AllCopies
    <3>2. NetInv(d)'
      BY <1>2, <1>3, <1>7, <1>8, <1>9, <3>1, HandshakeGoesOn DEF ChatInv
    <3> QED
      BY <2>1, <2>3, <3>2 DEF ChatInv
  <2> QED
    BY <2>2, <2>3
<1>10. CASE Saved(m, w, w, config) /\ UNCHANGED fault
  <2>1. /\ FileInv(d)' /\ (\A y \in Copies(d)' : y = Copy(new))
        /\ \A e \in Chats : e # d /\ FileInv(e) => FileInv(e)' /\ Copies(e)' \subseteq Copies(e)
    BY <1>1, <1>3, <1>4, <1>6, <1>8, <1>10, RewriteSaved DEF ChatInv
  <2>2. CASE c # d
    <3>1. FileInv(c)' /\ Copies(c)' \subseteq Copies(c) /\ Running
      BY <1>8, <2>1, <2>2 DEF ChatInv
    <3> QED
      BY <1>2, <1>7, <1>8, <2>2, <3>1, ChatFewer
  <2>3. CASE c = d
    <3>1. AllCopies(d, "Requested")' /\ AllKeys(d, q.key)'
      BY <1>6, <1>7, <2>1 DEF AllCopies, AllKeys, Copy
    <3>2. NetInv(d)'
      BY <1>2, <1>3, <1>7, <1>8, <3>1, HandshakeGoesOn DEF ChatInv
    <3> QED
      BY <2>1, <2>3, <3>2 DEF ChatInv
  <2> QED
    BY <2>2, <2>3
<1> QED
  BY <1>5, <1>9, <1>10, SavesOrEnds

\* onMessagesDhConfig for a chat of the user: it gets its identifier, which nobody
\* has heard of.
LEMMA DhConfigRequests ==
  ASSUME AlwaysInv, Running, NEW r \in calls, OnMessagesDhConfig(r), Has(mChats, r.answer),
         ~objects[mChats[r.answer]].deleted, objects[mChats[r.answer]].state = "Init",
         NEW c \in Chats, ChatInv(c)
  PROVE  ChatInv(c)'
<1>1. PICK id, x, sc, d, new, q, m, w :
        /\ id = r.answer /\ x = mChats[r.answer] /\ sc = objects[x] /\ d = NextChat
        /\ new = [sc EXCEPT !.myKey = id, !.chatId = d]
        /\ q = Call("request", NoRequest, d, Power(config, id), NoKey)
        /\ m = Insert(Remove(mChats, id), d, x) /\ w = [objects EXCEPT ![x] = new]
  OBVIOUS
<1>2. r.method = "getDhConfig" /\ UNCHANGED <<answers, updates, server>>
  BY DEF OnMessagesDhConfig
<1>3. /\ x \in DOMAIN objects /\ sc \in ObjectType /\ sc.chatId = NoChat /\ r.chat = NoChat
      /\ id \in Nat /\ ~sc.deleted /\ sc.state = "Init" /\ sc = objects[x]
      /\ id \in DOMAIN mChats /\ mChats[id] = x
  BY <1>1, <1>2, DhConfigOf DEF Has
<1>4. d \in FreeChats
  <2>1. x \in Naming
    BY <1>1, <1>2, <1>3 DEF Naming, Unnamed, Has
  <2> QED
    BY <1>1, <2>1, NextIsFree
<1>5. /\ d \in Chats /\ server[d].status = "none" /\ d \notin DOMAIN mChats
      /\ \A k \in DOMAIN mChats : objects[mChats[k]].chatId # d
  BY <1>4, FreeIs
<1>6. /\ id \notin Chats /\ NoChat \notin Chats
      /\ mChats \in [DOMAIN mChats -> DOMAIN objects] /\ objects \in [DOMAIN objects -> ObjectType]
  BY <1>3, Fresh, NotIds DEF ChatKeys
<1>7. calls' = (calls \ {r}) \cup {q} /\ SaveThen(m, w, config, w)
  BY <1>1, <1>3 DEF OnMessagesDhConfig, Save, Has
<1>8. new \in ObjectType /\ new.chatId = d /\ new.state = "Init" /\ ~new.deleted
  <2>1. new = [state |-> sc.state, chatId |-> d, myKey |-> id, key |-> sc.key,
               gAOrB |-> sc.gAOrB, deleted |-> sc.deleted]
    BY <1>1, <1>3 DEF ObjectType
  <2> QED
    BY <1>3, <1>5, <2>1 DEF ObjectType
<1>9. /\ DOMAIN m = (DOMAIN mChats \ {id}) \cup {d} /\ m[d] = x
      /\ \A k \in DOMAIN m : k # d => k \in DOMAIN mChats /\ k # id /\ m[k] = mChats[k]
      /\ \A k \in DOMAIN mChats : k # id => k \in DOMAIN m /\ k # d
      /\ DOMAIN w = DOMAIN objects /\ w[x] = new
      /\ \A y \in DOMAIN objects : y # x => w[y] = objects[y]
  BY <1>1, <1>3, <1>5 DEF Insert, Remove
<1>10. m \in [DOMAIN m -> DOMAIN w] /\ w \in [DOMAIN w -> ObjectType]
  <2>1. \A k \in DOMAIN m : m[k] \in DOMAIN w
    BY <1>3, <1>6, <1>9
  <2> QED
    BY <1>1, <1>6, <1>8, <1>9, <2>1 DEF Insert
<1>11. \A k \in DOMAIN mChats : k # id => mChats[k] # x
  BY <1>3 DEF AlwaysInv, MapInv
<1>12. /\ \A e \in Chats : Accepting(e)' \subseteq Accepting(e)
       /\ \A e : Agreeing(e)' = Agreeing(e)
  <2>1. q.method = "request"
    BY <1>1 DEF Call
  <2> QED
    BY <1>2, <1>7, <2>1 DEF Accepting, Agreeing
<1>13. AlwaysInv'
  BY DhConfigs
<1>14. CASE UNCHANGED clientVars /\ ~Running'
  <2>1. answers' \subseteq answers
    BY <1>2
  <2> QED
    BY <1>2, <1>12, <1>14, <2>1, Ends
<1>15. CASE Saved(m, w, w, config) /\ UNCHANGED fault
  <2>1. mChats' = m /\ \A k \in DOMAIN m : objects'[m[k]] = w[m[k]]
    <3>1. mChats' = m /\ objects' = Restrict(w, Range(m))
      BY <1>15 DEF Saved
    <3> QED
      BY <1>10, <3>1, Restricted
  <2>2. FileFits'
    BY <1>10, <1>15, SavedFits
  <2>3. CASE c = d
    <3>1. ASSUME NEW k \in EntriesOf(mChats', objects', d)
          PROVE  k = d /\ objects'[mChats'[k]] = new
      <4>1. k \in DOMAIN m /\ w[m[k]].chatId = d
        BY <2>1, <3>1 DEF EntriesOf
      <4>2. k = d
        BY <1>5, <1>6, <1>9, <1>11, <4>1
      <4> QED
        BY <1>9, <2>1, <4>1, <4>2
    <3>2. SingleInv(mChats, objects, d)'
      BY <1>9, <2>1, <3>1 DEF SingleInv, Has
    <3>3. FileInv(d)' /\ \A y \in Copies(d)' : y = Copy(new)
      BY <1>5, <1>13, <2>2, <3>1, <3>2, SavedChat, SavedCopies
    <3>4. AllCopies(d, "Init")'
      BY <1>8, <3>3 DEF AllCopies, Copy
    <3>5. NetInv(d) /\ NoTwice(d)
      BY <2>3 DEF ChatInv, NetInv, OnceInv
    <3>6. (\A kind : Sent(kind, d) = {}) /\ Accepting(d) = {} /\ Agreeing(d) = {}
      BY <1>5, <3>5, Unheard
    <3>7. /\ \A kind : Sent(kind, d)' = {}
          /\ Accepting(d)' = {} /\ Agreeing(d)' = {} /\ NoTwice(d)'
      BY <1>2, <1>5, <1>12, <3>5, <3>6, SentUntouched
    <3>8. OnceInv(d)' /\ TheirsInv(d)' /\ OursInv(d)'
      BY <1>2, <3>4, <3>7 DEF OnceInv, TheirsInv, OursInv
    <3>9. AgreedInv(d)'
      BY <3>4 DEF AgreedInv, AllCopies
    <3> QED
      BY <2>3, <3>3, <3>8, <3>9 DEF ChatInv, NetInv
  <2>4. CASE c # d
    <3>1. ASSUME NEW k \in EntriesOf(mChats', objects', c)
          PROVE  /\ k \in EntriesOf(mChats, objects, c) /\ mChats'[k] = mChats[k]
                 /\ objects'[mChats'[k]] = objects[mChats[k]]
      <4>1. k \in DOMAIN m /\ w[m[k]].chatId = c
        BY <2>1, <3>1 DEF EntriesOf
      <4>2. k # d
        BY <1>8, <1>9, <2>4, <4>1
      <4>3. k \in DOMAIN mChats /\ m[k] = mChats[k] /\ mChats[k] # x /\ mChats[k] \in DOMAIN objects
        BY <1>6, <1>9, <1>11, <4>1, <4>2
      <4> QED
        BY <1>9, <2>1, <4>1, <4>3 DEF EntriesOf
    <3>2. Has(mChats', c) <=> Has(mChats, c)
      BY <1>6, <1>9, <2>1, <2>4 DEF Has
    <3>3. Alike(c)
      BY <3>1, <3>2 DEF Alike
    <3>4. FileInv(c)' /\ Copies(c)' \subseteq Copies(c)
      BY <1>13, <2>2, <3>3, SavedAlike DEF ChatInv
    <3> QED
      BY <1>2, <1>12, <3>4, ChatFewer
  <2> QED
    BY <2>3, <2>4
<1> QED
  BY <1>7, <1>14, <1>15, SavesOrEnds

\* onMessagesDhConfig.
LEMMA DhConfigsAgree ==
  ASSUME AlwaysInv, Running, NEW r \in calls, OnMessagesDhConfig(r),
         \A e \in Chats : ChatInv(e), NEW c \in Chats
  PROVE  ChatInv(c)'
<1>1. CASE ~Has(mChats, r.answer) \/ objects[mChats[r.answer]].deleted
  <2>1. \E kind \in {"assert", "deleted"} : Fault(kind, r.chat)
    BY <1>1 DEF OnMessagesDhConfig
  <2>2. UNCHANGED clientVars /\ ~Running'
    BY <2>1 DEF Fault, Running, NoFault
  <2>3. calls' \subseteq calls /\ UNCHANGED <<answers, updates, server>>
    BY <1>1 DEF OnMessagesDhConfig
  <2>4. Accepting(c)' \subseteq Accepting(c)
    BY <2>3 DEF Accepting
  <2> QED
    BY <2>2, <2>3, <2>4, Ends
<1>2. CASE Has(mChats, r.answer) /\ ~objects[mChats[r.answer]].deleted
  BY <1>2, DhConfigRequests, DhConfigAccepts
<1> QED
  BY <1>1, <1>2

\* onMessagesAcceptEncryptionEncryptedChat: the chat is accepted with the key that the
\* peer kept.
LEMMA AcceptsWithKey ==
  ASSUME AlwaysInv, AlwaysInv', Running, NEW a \in answers, OnAcceptEncryption(a),
         answers' = answers \ {a}, UNCHANGED <<calls, updates, server>>,
         \A e \in Chats : ChatInv(e), NEW c \in Chats
  PROVE  ChatInv(c)'
<1>1. PICK d, x, sc, new, m, w, p :
        /\ d = a.chat /\ x = mChats[d] /\ sc = objects[x] /\ new = [sc EXCEPT !.state = "Accepted"]
        /\ m = mChats /\ w = [objects EXCEPT ![x] = new] /\ p = mP
  OBVIOUS
<1>2. a.kind = "accepted" /\ d \in Chats /\ a \in AnswerType
  BY <1>1 DEF OnAcceptEncryption, AlwaysInv, Types, NetType, AnswerType
<1>3. /\ a \in Agreeing(d) /\ Agreeing(d)' = {} /\ \A e \in Chats : Agreeing(e)' \subseteq Agreeing(e)
  <2>1. a \in Agreeing(d)
    BY <1>1, <1>2 DEF Agreeing
  <2>2. \A b \in Agreeing(d) : b = a
    <3>1. SUFFICES ASSUME NEW b \in Agreeing(d) PROVE b = a
      OBVIOUS
    <3>2. b \in AnswerType /\ b.kind = a.kind /\ b.chat = a.chat /\ b.id = a.id
      BY <1>1, <1>2, <3>1 DEF Agreeing, AlwaysInv, Types, NetType
    <3> QED
      BY <1>2, <3>2 DEF AnswerType
  <2> QED
    BY <2>1, <2>2 DEF Agreeing
<1>4. Accepting(c)' = Accepting(c) /\ Accepting(d)' = Accepting(d)
  BY DEF Accepting
<1>5. CASE ~Has(mChats, d)
  <2>1. Fault("null", d)
    BY <1>1, <1>5 DEF OnAcceptEncryption
  <2>2. UNCHANGED clientVars /\ ~Running'
    BY <2>1 DEF Fault, Running, NoFault
  <2> QED
    BY <1>4, <2>2, Ends
<1>6. CASE Has(mChats, d)
  <2>1. /\ x \in DOMAIN objects /\ sc \in ObjectType /\ sc.chatId = d /\ ~sc.deleted
        /\ d \in DOMAIN mChats
    BY <1>1, <1>2, <1>6, ObjectOf DEF Has
  <2>2. w = [objects EXCEPT ![x].state = "Accepted"]
    BY <1>1, <2>1
  <2>3. SaveThen(m, w, p, w)
    BY <1>1, <1>6, <2>2 DEF OnAcceptEncryption, Save
  <2>4. CASE UNCHANGED clientVars /\ ~Running'
    BY <1>4, <2>4, Ends
  <2>5. CASE Saved(m, w, w, p) /\ UNCHANGED fault
    <3>1. m = Remove(mChats, 0) /\ 0 \notin Chats
      <4>1. 0 \notin DOMAIN mChats /\ 0 \notin Chats
        BY Fresh, NotIds DEF ChatKeys
      <4>2. mChats \in [DOMAIN mChats -> DOMAIN objects]
        BY Fresh
      <4> QED
        BY <1>1, <4>1, <4>2 DEF Remove
    <3>2. /\ new \in ObjectType /\ new.chatId = d /\ ~new.deleted
          /\ new.state = "Accepted" /\ new.key = sc.key
      <4>1. new = [state |-> "Accepted", chatId |-> d, myKey |-> sc.myKey, key |-> sc.key,
                   gAOrB |-> sc.gAOrB, deleted |-> sc.deleted]
        BY <1>1, <2>1 DEF ObjectType
      <4> QED
        BY <2>1, <4>1 DEF ObjectType, States
    <3>3. /\ FileInv(d)' /\ (\A y \in Copies(d)' : y = Copy(new))
          /\ \A e \in Chats : e # d /\ FileInv(e) => FileInv(e)' /\ Copies(e)' \subseteq Copies(e)
      <4>1. /\ FileInv(d) /\ d \in Chats /\ x \in DOMAIN objects
            /\ objects[x].chatId = d /\ ~objects[x].deleted /\ w = [objects EXCEPT ![x] = new]
        BY <1>1, <1>2, <2>1 DEF ChatInv
      <4>2. new \in ObjectType /\ new.chatId = d /\ ~new.deleted
        BY <3>2
      <4> QED
        BY <2>5, <3>1, <4>1, <4>2, RewriteSaved
    <3>4. CASE c # d
      <4>1. FileInv(c)' /\ Copies(c)' \subseteq Copies(c) /\ ChatInv(c)
        BY <3>3, <3>4 DEF ChatInv
      <4> QED
        BY <1>3, <1>4, <4>1, ChatFewer
    <3>5. CASE c = d
      <4>1. NetInv(d) /\ NoTwice(d) /\ Copy(sc) \in Copies(d)
        <5>1. d \in EntriesOf(mChats, objects, d)
          BY <1>1, <2>1 DEF EntriesOf
        <5> QED
          BY <1>1, <1>2, <5>1 DEF ChatInv, NetInv, OnceInv, Copies
      <4>2. /\ Accepting(d) = {} /\ Sent("requested", d) = {}
            /\ ~server[d].ours /\ server[d].status \in {"accepted", "discarded"}
            /\ server[d].peerKey # NoKey => sc.key = server[d].peerKey
        BY <1>3, <4>1 DEF NetInv, OnceInv, TheirsInv, AllKeys, Copy
      <4>3. Sent("accepted", d) = {}
        BY <4>1, <4>2 DEF NetInv, OursInv
      <4>4. NoTwice(d)' /\ \A kind : Sent(kind, d)' = Sent(kind, d)
        BY <4>1, SentUntouched
      <4>5. OnceInv(d)' /\ TheirsInv(d)' /\ OursInv(d)'
        BY <1>3, <1>4, <4>2, <4>3, <4>4 DEF OnceInv, TheirsInv, OursInv
      <4>6. AgreedInv(d)'
        BY <3>2, <3>3, <4>2 DEF AgreedInv, Copy
      <4> QED
        BY <3>3, <3>5, <4>5, <4>6 DEF ChatInv, NetInv
    <3> QED
      BY <3>4, <3>5
  <2> QED
    BY <2>3, <2>4, <2>5, SavesOrEnds
<1> QED
  BY <1>5, <1>6

\* The object x of the chat d is deleted after the map was saved without it.
LEMMA DropSaved ==
  ASSUME AlwaysInv, AlwaysInv', NEW d \in Chats, FileInv(d), NEW x \in DOMAIN objects,
         objects[x].chatId = d, NEW id, id \notin Chats, NEW m, NEW o, NEW after, NEW p,
         Drop(m, o, after, x, id, d), Saved(m, o, after, p), NEW c \in Chats, FileInv(c)
  PROVE  FileInv(c)' /\ Copies(c)' \subseteq Copies(c)
<1>1. mChats \in [DOMAIN mChats -> DOMAIN objects] /\ objects \in [DOMAIN objects -> ObjectType]
  BY Fresh
<1>2. /\ DOMAIN m = DOMAIN mChats \ {id, d} /\ (\A k \in DOMAIN m : m[k] = mChats[k])
      /\ o = objects /\ after = [objects EXCEPT ![x].deleted = TRUE]
  BY DEF Drop, Deleted
<1>3. /\ DOMAIN after = DOMAIN objects /\ m \in [DOMAIN m -> DOMAIN objects]
      /\ \A y \in DOMAIN objects : y # x => after[y] = objects[y]
      /\ after[x].deleted /\ after[x].chatId = d /\ Copy(after[x]) = Copy(objects[x])
  <2>1. m \in [DOMAIN m -> DOMAIN objects]
    BY <1>1 DEF Drop
  <2>2. DOMAIN after = DOMAIN objects /\ \A y \in DOMAIN objects : y # x => after[y] = objects[y]
    BY <1>2
  <2>3. objects[x] \in ObjectType
    BY <1>1
  <2>4. after[x] = [objects[x] EXCEPT !.deleted = TRUE]
    BY <1>2
  <2>5. after[x].deleted /\ after[x].chatId = d /\ Copy(after[x]) = Copy(objects[x])
    BY <2>3, <2>4 DEF ObjectType, Copy
  <2> QED
    BY <2>1, <2>2, <2>5
<1>4. mChats' = m /\ \A k \in DOMAIN m : objects'[m[k]] = after[m[k]]
  <2>1. mChats' = m /\ objects' = Restrict(after, Range(m)) /\ m \in [DOMAIN m -> DOMAIN after]
    BY <1>3 DEF Saved
  <2> QED
    BY <2>1, Restricted
<1>5. FileFits'
  <2>1. \A y \in DOMAIN objects : Copy(after[y]) = Copy(objects[y]) /\ after[y].chatId = objects[y].chatId
    BY <1>3
  <2> QED
    BY <1>1, <1>2, <1>3, <2>1, SavedFits
<1>6. CASE c # d
  <2>1. ASSUME NEW k \in EntriesOf(mChats', objects', c)
        PROVE  /\ k \in EntriesOf(mChats, objects, c) /\ mChats'[k] = mChats[k]
               /\ objects'[mChats'[k]] = objects[mChats[k]]
    <3>1. k \in DOMAIN m /\ after[m[k]].chatId = c /\ m[k] = mChats[k] /\ m[k] \in DOMAIN objects
      BY <1>1, <1>2, <1>4, <2>1 DEF EntriesOf
    <3>2. m[k] # x
      BY <1>3, <1>6, <3>1
    <3> QED
      BY <1>2, <1>3, <1>4, <3>1, <3>2 DEF EntriesOf
  <2>2. Has(mChats', c) <=> Has(mChats, c)
    BY <1>2, <1>4, <1>6 DEF Has
  <2>3. Alike(c)
    BY <2>1, <2>2 DEF Alike
  <2> QED
    BY <1>5, <2>3, SavedAlike
<1>7. CASE c = d
  <2>1. PICK e \in DOMAIN mChats : mChats[e] = x
    <3>1. DOMAIN objects = Range(mChats)
      BY DEF AlwaysInv, Types
    <3> QED
      BY <1>1, <3>1 DEF Range
  <2>2. /\ e \in EntriesOf(mChats, objects, d)
        /\ \A k \in EntriesOf(mChats, objects, d) : mChats[k] = x
    BY <2>1 DEF EntriesOf, FileInv, SingleInv
  <2>3. ASSUME NEW k \in EntriesOf(mChats', objects', d)
        PROVE  mChats'[k] = x /\ objects'[mChats'[k]] = after[x]
    <3>1. k \in DOMAIN m /\ after[m[k]].chatId = d /\ m[k] = mChats[k] /\ m[k] \in DOMAIN objects
          /\ k \in DOMAIN mChats
      BY <1>1, <1>2, <1>4, <2>3 DEF EntriesOf
    <3>2. m[k] = x
      <4>1. CASE mChats[k] = x
        BY <3>1, <4>1
      <4>2. CASE mChats[k] # x
        BY <1>3, <2>2, <3>1, <4>2 DEF EntriesOf
      <4> QED
        BY <4>1, <4>2
    <3> QED
      BY <1>4, <3>1, <3>2
  <2>4. SingleInv(mChats, objects, d)'
    BY <1>3, <2>3 DEF SingleInv
  <2>5. FileInv(d)' /\ \A y \in Copies(d)' : y = Copy(after[x])
    BY <1>5, <2>3, <2>4, SavedChat, SavedCopies
  <2>6. Copy(after[x]) \in Copies(d)
    BY <1>3, <2>1, <2>2 DEF Copies
  <2> QED
    BY <1>7, <2>5, <2>6
<1> QED
  BY <1>6, <1>7

\* onMessagesDiscardEncryptionResult: the chat goes, or the entry of the request only.
LEMMA DiscardsAnswered ==
  ASSUME AlwaysInv, AlwaysInv', Running, NEW a \in answers, OnDiscardEncryption(a),
         answers' = answers \ {a}, UNCHANGED <<calls, updates, server>>,
         \A e \in Chats : ChatInv(e), NEW c \in Chats
  PROVE  ChatInv(c)'
<1>1. /\ a.kind \in {"discarded", "kept", "declined"} /\ a.chat \in Chats /\ a.id \in Nat
      /\ a.id \notin Chats
  BY NotIds, Fresh DEF OnDiscardEncryption, AlwaysInv, Types, NetType, AnswerType, ChatKeys
<1>2. Accepting(c)' = Accepting(c) /\ Agreeing(c)' \subseteq Agreeing(c)
  BY DEF Accepting, Agreeing
<1>3. ASSUME NEW kind \in {"assert", "deleted"}, Fault(kind, a.chat)
      PROVE  ChatInv(c)'
  <2>1. UNCHANGED clientVars /\ ~Running'
    BY <1>3 DEF Fault, Running, NoFault
  <2> QED
    BY <1>2, <2>1, Ends
<1>4. CASE ~Has(mChats, a.id)
  BY <1>3, <1>4 DEF OnDiscardEncryption
<1>5. CASE Has(mChats, a.id)
  <2>1. PICK x, id, d : x = mChats[a.id] /\ id = a.id /\ d = a.chat
    OBVIOUS
  <2>2. /\ x \in DOMAIN objects /\ objects[x].chatId = d /\ id \in DOMAIN mChats /\ mChats[id] = x
        /\ d \in Chats /\ id \notin Chats
    BY <1>1, <1>5, <2>1, Fresh DEF AlwaysInv, EntriesInv, AnswerOf, Has
  <2>3. CASE objects[x].deleted
    BY <1>3, <1>5, <2>1, <2>3 DEF OnDiscardEncryption
  <2>4. CASE ~objects[x].deleted /\ a.kind = "kept"
    <3>1. PICK m : m = Remove(mChats, id)
      OBVIOUS
    <3>2. mChats' = m /\ objects' = Restrict(objects, Range(m)) /\ UNCHANGED <<stored, fault>>
      BY <1>5, <2>1, <2>4, <3>1 DEF OnDiscardEncryption, Continue
    <3>3. /\ DOMAIN m = DOMAIN mChats \ {id} /\ (\A k \in DOMAIN m : m[k] = mChats[k])
          /\ m \in [DOMAIN m -> DOMAIN objects]
      BY <3>1, Fresh DEF Remove
    <3>4. \A k \in DOMAIN m : objects'[m[k]] = objects[m[k]]
      BY <3>2, <3>3, Restricted
    <3>5. Alike(c)
      <4>1. Has(mChats', c) <=> Has(mChats, c)
        BY <2>2, <3>2, <3>3 DEF Has
      <4>2. ASSUME NEW k \in EntriesOf(mChats', objects', c)
            PROVE  /\ k \in EntriesOf(mChats, objects, c) /\ mChats'[k] = mChats[k]
                   /\ objects'[mChats'[k]] = objects[mChats[k]]
        BY <3>2, <3>3, <3>4, <4>2 DEF EntriesOf
      <4> QED
        BY <4>1, <4>2 DEF Alike
    <3>6. \A k \in EntriesOf(mChats, objects, c) : objects[mChats[k]].deleted =>
            k \in EntriesOf(mChats', objects', c) /\ objects'[mChats'[k]].deleted
      <4>1. SUFFICES ASSUME NEW k \in EntriesOf(mChats, objects, c), objects[mChats[k]].deleted
                     PROVE  k \in EntriesOf(mChats', objects', c) /\ objects'[mChats'[k]].deleted
        OBVIOUS
      <4>2. k # id
        BY <2>2, <2>4, <4>1
      <4> QED
        BY <3>2, <3>3, <3>4, <4>1, <4>2 DEF EntriesOf
    <3>7. FileInv(c)' /\ Copies(c)' \subseteq Copies(c)
      <4>1. FileInv(c) /\ UNCHANGED stored
        BY <3>2 DEF ChatInv
      <4> QED
        BY <3>5, <3>6, <4>1, KeptAlike
    <3>8. Running' = Running
      BY <3>2 DEF Running
    <3> QED
      BY <1>2, <3>7, <3>8, ChatFewer
  <2>5. CASE ~objects[x].deleted /\ a.kind # "kept"
    <3>1. PICK p, m, o, after : p = mP /\ Drop(m, o, after, x, id, d)
      BY DEF Drop
    <3>2. SaveThen(m, o, p, after)
      <4>1. SaveThen(Forget(a), objects, mP, Deleted(x))
        BY <1>5, <2>1, <2>5 DEF OnDiscardEncryption
      <4>2. Forget(a) = m
        <5>1. Forget(a) = [k \in DOMAIN mChats \ {a.id, d} |-> mChats[k]]
          BY <2>1, <2>2 DEF Forget, Remove
        <5> QED
          BY <2>1, <3>1, <5>1 DEF Drop
      <4> QED
        BY <3>1, <4>1, <4>2 DEF Drop
    <3>3. CASE UNCHANGED clientVars /\ ~Running'
      BY <1>2, <3>3, Ends
    <3>4. CASE Saved(m, o, after, p) /\ UNCHANGED fault
      <4>1. FileInv(d) /\ FileInv(c) /\ Drop(m, o, after, x, id, d) /\ Saved(m, o, after, p)
        BY <2>2, <3>1, <3>4 DEF ChatInv
      <4>2. FileInv(c)' /\ Copies(c)' \subseteq Copies(c)
        BY <2>2, <4>1, DropSaved
      <4> QED
        BY <1>2, <4>2, ChatFewer
    <3> QED
      BY <3>2, <3>3, <3>4, SavesOrEnds
  <2> QED
    BY <2>3, <2>4, <2>5
<1> QED
  BY <1>4, <1>5

\* An answer of the server is handled.
LEMMA AnswersAgree ==
  ASSUME AlwaysInv, Running, NEW a \in answers, OnAnswer(a),
         \A e \in Chats : ChatInv(e), NEW c \in Chats
  PROVE  ChatInv(c)'
<1>1. answers' = answers \ {a} /\ UNCHANGED <<calls, updates, server>>
  BY DEF OnAnswer
<1>2. AlwaysInv'
  BY Answers
<1> QED
  BY <1>1, <1>2, AcceptsWithKey, DiscardsAnswered DEF OnAnswer

-----------------------------------------------------------------------------
(* processSecretChatUpdate, where the update does not come again.          *)

\* The update that is handled, and what is left of those of its chat.
LEMMA Handled ==
  ASSUME AlwaysInv, updates # <<>>, updates' = Tail(updates), NEW u, u = Head(updates),
         NEW d \in Chats, u.chat = d, NetInv(d)
  PROVE  /\ u \in UpdateType /\ u \in Pending /\ u \in Sent(u.kind, d) /\ NoTwice(d)'
         /\ \A kind : Sent(kind, d)' \subseteq Sent(kind, d)
         /\ \A kind : kind = u.kind /\ kind # "discarded" => Sent(kind, d)' = {}
<1>1. NoTwice(d) /\ Types
  BY DEF NetInv, OnceInv, AlwaysInv
<1>2. u \in UpdateType /\ u \in Pending
  BY <1>1, Processed
<1>3. u \in Sent(u.kind, d)
  BY <1>2 DEF Sent
<1> QED
  BY <1>1, <1>2, <1>3, OnceProcessed

\* EncryptedChatDiscarded.
LEMMA DiscardHeard ==
  ASSUME AlwaysInv, AlwaysInv', Running, NEW u \in UpdateType, OnEncryptedChatDiscarded(u),
         updates # <<>>, updates' = Tail(updates), UNCHANGED <<answers, server>>,
         \A e \in Chats : ChatInv(e), NEW c \in Chats
  PROVE  ChatInv(c)'
<1>1. UNCHANGED calls /\ u.chat \in Chats
  BY DEF OnEncryptedChatDiscarded, UpdateType
<1>2. Accepting(c)' = Accepting(c) /\ Agreeing(c)' = Agreeing(c)
  BY <1>1 DEF Accepting, Agreeing
<1>3. CASE ~Has(mChats, u.chat)
  <2>1. UNCHANGED <<mChats, objects, stored, fault>>
    BY <1>3 DEF OnEncryptedChatDiscarded, clientVars
  <2>2. FileInv(c)' /\ Copies(c)' = Copies(c) /\ Running' = Running
    BY <2>1, FileUntouched DEF ChatInv, Running
  <2> QED
    BY <1>2, <2>2, ChatFewer
<1>4. CASE Has(mChats, u.chat)
  <2>1. PICK d, x, p, m, o, after :
          d = u.chat /\ x = mChats[u.chat] /\ p = mP /\ Drop(m, o, after, x, 0, d)
    BY DEF Drop
  <2>2. x \in DOMAIN objects /\ objects[x].chatId = d /\ d \in Chats /\ 0 \notin Chats
    <3>1. 0 \notin Chats
      BY NotIds, Fresh DEF ChatKeys
    <3> QED
      BY <1>1, <1>4, <2>1, <3>1, ObjectOf
  <2>3. SaveThen(m, o, p, after)
    <3>1. SaveThen(Remove(mChats, d), objects, mP, Deleted(x))
      BY <1>4, <2>1 DEF OnEncryptedChatDiscarded
    <3>2. Remove(mChats, d) = m
      <4>1. 0 \notin DOMAIN mChats
        BY Fresh, NotIds
      <4>2. DOMAIN mChats \ {d} = DOMAIN mChats \ {0, d}
        BY <4>1
      <4> QED
        BY <2>1, <4>2 DEF Drop, Remove
    <3> QED
      BY <2>1, <3>1, <3>2 DEF Drop
  <2>4. CASE UNCHANGED clientVars /\ ~Running'
    BY <1>2, <2>4, Ends
  <2>5. CASE Saved(m, o, after, p) /\ UNCHANGED fault
    <3>1. FileInv(d) /\ FileInv(c) /\ Drop(m, o, after, x, 0, d) /\ Saved(m, o, after, p)
      BY <2>1, <2>2, <2>5 DEF ChatInv
    <3>2. FileInv(c)' /\ Copies(c)' \subseteq Copies(c)
      BY <2>2, <3>1, DropSaved
    <3> QED
      BY <1>2, <3>2, ChatFewer
  <2> QED
    BY <2>3, <2>4, <2>5, SavesOrEnds
<1> QED
  BY <1>3, <1>4

\* EncryptedChatRequested: the chat is new, and its request is under way.
LEMMA RequestHeard ==
  ASSUME AlwaysInv, AlwaysInv', Running, NEW u, u = Head(updates), OnEncryptedChatRequested(u),
         updates # <<>>, updates' = Tail(updates), UNCHANGED <<answers, server>>,
         \A e \in Chats : ChatInv(e), NEW c \in Chats
  PROVE  ChatInv(c)'
<1>1. u \in UpdateType /\ u \in Pending
  BY Processed DEF AlwaysInv
<1>2. PICK d \in Chats : d = u.chat
  BY <1>1 DEF UpdateType
<1>3. /\ u.kind = "requested" /\ u \in Sent("requested", d) /\ NoTwice(d)'
      /\ \A kind : Sent(kind, d)' \subseteq Sent(kind, d)
      /\ Sent("requested", d)' = {} /\ NetInv(d)
  <2>1. u.kind = "requested" /\ NetInv(d) /\ u.chat = d
    BY <1>2 DEF OnEncryptedChatRequested, ChatInv
  <2> QED
    BY <2>1, Handled
<1>4. /\ Copies(d) = {} /\ ~server[d].ours /\ server[d].status \in {"requested", "discarded"}
      /\ Accepting(d) = {} /\ Agreeing(d) = {}
  <2>1. server[d].status # "none" /\ server[d] \in RecordType
    BY <1>1, <1>2 DEF AlwaysInv, KnownInv, Types, ServerType
  <2>2. /\ Copies(d) = {} /\ ~server[d].ours /\ server[d].status # "accepted"
        /\ Accepting(d) = {} /\ Agreeing(d) = {}
    BY <1>3 DEF NetInv, OnceInv, TheirsInv
  <2> QED
    BY <2>1, <2>2 DEF RecordType
<1>5. EntriesOf(mChats, objects, d) = {} /\ d \notin DOMAIN stored.chats /\ d \notin DOMAIN mChats
  <2>1. EntriesOf(mChats, objects, d) = {} /\ d \notin DOMAIN stored.chats
    BY <1>4 DEF Copies
  <2>2. d \in DOMAIN mChats => d \in EntriesOf(mChats, objects, d)
    BY DEF AlwaysInv, MapInv, ChatKeys, EntriesOf
  <2> QED
    BY <2>1, <2>2
<1>6. PICK m, o : Requested(m, o, u)
  BY DEF Requested
<1>7. RequestedGives(m, o, d)
  BY <1>1, <1>2, <1>6, RequestedMap
<1>8. /\ mChats' = m /\ objects' = Restrict(o, Range(m)) /\ UNCHANGED <<stored, fault>>
      /\ Ask("getDhConfig", d)
  BY <1>2, <1>6 DEF OnEncryptedChatRequested, Continue, Requested
<1>9. PICK q : calls' = calls \cup {q} /\ q.method = "getDhConfig" /\ q.chat = d
  BY <1>8, AskedCall
<1>10. \A k \in DOMAIN m : objects'[m[k]] = o[m[k]]
  <2>1. m \in [DOMAIN m -> DOMAIN o]
    BY <1>7 DEF RequestedGives
  <2> QED
    BY <1>8, <2>1, Restricted
<1>11. /\ DOMAIN mChats' = DOMAIN mChats \cup {d, Told}
       /\ mChats'[d] = Told /\ mChats'[Told] = Told
       /\ objects'[Told].chatId = d /\ objects'[Told].state = "Requested"
       /\ \A k \in DOMAIN mChats : /\ k # d /\ k # Told /\ mChats'[k] = mChats[k]
                                   /\ objects'[mChats'[k]] = objects[mChats[k]]
  <2>1. \A k \in DOMAIN mChats : mChats[k] \in DOMAIN objects
    BY Fresh
  <2> QED
    BY <1>5, <1>7, <1>8, <1>10, <2>1 DEF RequestedGives
<1>12. Running' = Running /\ Agreeing(c)' = Agreeing(c)
  BY <1>8 DEF Running, Agreeing
<1>13. CASE c # d
  <2>1. ASSUME NEW k \in EntriesOf(mChats', objects', c)
        PROVE  /\ k \in EntriesOf(mChats, objects, c) /\ mChats'[k] = mChats[k]
               /\ objects'[mChats'[k]] = objects[mChats[k]]
    BY <1>11, <1>13, <2>1 DEF EntriesOf
  <2>2. Has(mChats', c) <=> Has(mChats, c)
    <3>1. c # Told
      BY Fresh DEF ChatKeys
    <3> QED
      BY <1>11, <1>13, <3>1 DEF Has
  <2>3. Alike(c)
    BY <2>1, <2>2 DEF Alike
  <2>4. \A k \in EntriesOf(mChats, objects, c) : objects[mChats[k]].deleted =>
          k \in EntriesOf(mChats', objects', c) /\ objects'[mChats'[k]].deleted
    BY <1>11 DEF EntriesOf
  <2>5. FileInv(c)' /\ Copies(c)' \subseteq Copies(c)
    <3>1. FileInv(c) /\ UNCHANGED stored
      BY <1>8 DEF ChatInv
    <3> QED
      BY <2>3, <2>4, <3>1, KeptAlike
  <2>6. Accepting(c)' \subseteq Accepting(c)
    BY <1>9, <1>13 DEF Accepting
  <2> QED
    BY <1>12, <2>5, <2>6, ChatFewer
<1>14. CASE c = d
  <2>1. \A k \in EntriesOf(mChats', objects', d) : mChats'[k] = Told
    BY <1>5, <1>11 DEF EntriesOf
  <2>2. SingleInv(mChats, objects, d)'
    BY <1>11, <2>1 DEF SingleInv, Has
  <2>3. Current(mChats, objects, stored.chats, d)'
    <3>1. ~Accepted(mChats', objects', d)
      BY <1>11 DEF Accepted
    <3>2. ~Has(stored'.chats, d)
      BY <1>5, <1>8 DEF Has
    <3> QED
      BY <3>1, <3>2 DEF Current
  <2>4. AllCopies(d, "Requested")'
    <3>1. \A y \in Copies(d)' : y = Copy(objects'[Told])
      BY <1>5, <1>8, <2>1 DEF Copies
    <3> QED
      BY <1>11, <3>1 DEF AllCopies, Copy
  <2>5. Accepting(d)' \subseteq {q} /\ Agreeing(d)' = {}
    BY <1>4, <1>9, <1>12, <1>14 DEF Accepting
  <2>6. OnceInv(d)'
    BY <1>3, <2>5 DEF OnceInv
  <2>7. TheirsInv(d)'
    <3>1. \A r \in Accepting(d)' : r.method # "accept"
      BY <1>9, <2>5
    <3> QED
      BY <1>3, <1>4, <2>4, <2>5, <3>1 DEF TheirsInv
  <2>8. OursInv(d)'
    <3>1. Sent("accepted", d)' = {}
      BY <1>3, <1>4 DEF NetInv, OursInv
    <3> QED
      BY <1>4, <3>1 DEF OursInv
  <2>9. AgreedInv(d)'
    BY <2>4 DEF AgreedInv, AllCopies
  <2> QED
    BY <1>14, <2>2, <2>3, <2>6, <2>7, <2>8, <2>9 DEF ChatInv, NetInv, FileInv
<1> QED
  BY <1>13, <1>14

\* What is left of an acceptance of the peer that was handled.
LEMMA AgreementGoes ==
  ASSUME NEW d \in Chats, NetInv(d), Sent("accepted", d) # {}, Sent("accepted", d)' = {},
         \A kind : Sent(kind, d)' \subseteq Sent(kind, d), NoTwice(d)',
         Accepting(d)' \subseteq Accepting(d), UNCHANGED <<answers, server>>,
         \A y \in Copies(d)' : y.state = "Accepted" => y.key = server[d].peerKey
  PROVE  NetInv(d)'
<1>1. server[d].ours /\ server[d].status \in {"accepted", "discarded"}
  BY DEF NetInv, OursInv
<1>2. Sent("requested", d) = {} /\ Accepting(d) = {} /\ Agreeing(d) = {}
  BY <1>1 DEF NetInv, TheirsInv
<1>3. Sent("requested", d)' = {} /\ Accepting(d)' = {} /\ Agreeing(d)' = {}
  BY <1>2 DEF Agreeing
<1>4. OnceInv(d)' /\ TheirsInv(d)'
  BY <1>3 DEF OnceInv, TheirsInv
<1>5. OursInv(d)'
  BY <1>1 DEF OursInv
<1>6. AgreedInv(d)'
  BY DEF AgreedInv
<1> QED
  BY <1>4, <1>5, <1>6 DEF NetInv

\* EncryptedChat: the keys fit and the chat is accepted, or it will be discarded.
LEMMA AgreementHeard ==
  ASSUME AlwaysInv, AlwaysInv', Running, NEW u, u = Head(updates), OnEncryptedChat(u),
         updates # <<>>, updates' = Tail(updates), UNCHANGED <<answers, server>>,
         \A e \in Chats : ChatInv(e), NEW c \in Chats
  PROVE  ChatInv(c)'
<1>1. u \in UpdateType /\ u \in Pending
  BY Processed DEF AlwaysInv
<1>2. PICK d \in Chats : d = u.chat
  BY <1>1 DEF UpdateType
<1>3. /\ u.kind = "accepted" /\ u \in Sent("accepted", d) /\ NoTwice(d)'
      /\ \A kind : Sent(kind, d)' \subseteq Sent(kind, d)
      /\ Sent("accepted", d)' = {} /\ NetInv(d)
  <2>1. u.kind = "accepted" /\ NetInv(d) /\ u.chat = d
    BY <1>2 DEF OnEncryptedChat, ChatInv
  <2> QED
    BY <2>1, Handled
<1>4. AllCopies(d, "Init") /\ u.key = server[d].peerKey
  BY <1>3 DEF NetInv, OursInv
<1>5. PICK x, sc, key : /\ x = mChats[d] /\ sc = objects[x]
                        /\ key = SharedKey(mP, sc.myKey, u.g)
  OBVIOUS
<1>6. Agreeing(c)' = Agreeing(c)
  BY DEF Agreeing
<1>7. CASE ~Has(mChats, d)
  <2>1. UNCHANGED <<mChats, objects, stored, fault, calls>>
    BY <1>2, <1>7 DEF OnEncryptedChat, clientVars
  <2>2. FileInv(c)' /\ Copies(c)' = Copies(c) /\ Running' = Running
    BY <2>1, FileUntouched DEF ChatInv, Running
  <2>3. Accepting(c)' = Accepting(c)
    BY <2>1 DEF Accepting
  <2> QED
    BY <1>6, <2>2, <2>3, ChatFewer
<1>8. ASSUME Has(mChats, d)
      PROVE  /\ x \in DOMAIN objects /\ sc \in ObjectType /\ sc.chatId = d /\ ~sc.deleted
             /\ d \in DOMAIN mChats /\ key \in Keys /\ sc.state = "Init"
  <2>1. /\ x \in DOMAIN objects /\ sc \in ObjectType /\ sc.chatId = d /\ ~sc.deleted
        /\ d \in DOMAIN mChats /\ sc.myKey \in Int
    BY <1>5, <1>8, ObjectOf DEF Has
  <2>2. key \in Keys
    <3>1. u.g \in Powers /\ mP \in Int
      BY <1>1, Fresh DEF UpdateType
    <3> QED
      BY <1>5, <2>1, <3>1, KeyTypes
  <2>3. Copy(sc) \in Copies(d)
    BY <1>5, <2>1 DEF Copies, EntriesOf
  <2>4. sc.state = "Init"
    BY <1>4, <2>3 DEF AllCopies, Copy
  <2> QED
    BY <2>1, <2>2, <2>4
<1>9. CASE Has(mChats, d) /\ KeyFits(key, u)
  <2>1. PICK new, m, w, p : /\ new = [sc EXCEPT !.key = key, !.state = "Accepted"]
                            /\ m = mChats /\ w = [objects EXCEPT ![x] = new] /\ p = mP
    OBVIOUS
  <2>2. w = [objects EXCEPT ![x].key = key, ![x].state = "Accepted"]
    BY <1>5, <1>8, <1>9, <2>1
  <2>3. SaveThen(m, w, p, w) /\ UNCHANGED calls
    BY <1>2, <1>5, <1>9, <2>1, <2>2 DEF OnEncryptedChat, Save
  <2>4. \A e \in Chats : Accepting(e)' = Accepting(e)
    BY <2>3 DEF Accepting
  <2>5. CASE UNCHANGED clientVars /\ ~Running'
    BY <2>4, <2>5, Ends
  <2>6. CASE Saved(m, w, w, p) /\ UNCHANGED fault
    <3>1. m = Remove(mChats, 0) /\ 0 \notin Chats
      <4>1. 0 \notin DOMAIN mChats /\ 0 \notin Chats
        BY Fresh, NotIds DEF ChatKeys
      <4>2. mChats \in [DOMAIN mChats -> DOMAIN objects]
        BY Fresh
      <4> QED
        BY <2>1, <4>1, <4>2 DEF Remove
    <3>2. /\ new \in ObjectType /\ new.chatId = d /\ ~new.deleted
          /\ new.state = "Accepted" /\ new.key = server[d].peerKey
      <4>1. new = [state |-> "Accepted", chatId |-> d, myKey |-> sc.myKey, key |-> key,
                   gAOrB |-> sc.gAOrB, deleted |-> sc.deleted]
        BY <1>8, <1>9, <2>1 DEF ObjectType
      <4>2. key = server[d].peerKey
        BY <1>4, <1>9 DEF KeyFits
      <4> QED
        BY <1>8, <1>9, <4>1, <4>2 DEF ObjectType, States
    <3>3. /\ FileInv(d)' /\ (\A y \in Copies(d)' : y = Copy(new))
          /\ \A e \in Chats : e # d /\ FileInv(e) => FileInv(e)' /\ Copies(e)' \subseteq Copies(e)
      <4>1. /\ FileInv(d) /\ x \in DOMAIN objects
            /\ objects[x].chatId = d /\ ~objects[x].deleted /\ w = [objects EXCEPT ![x] = new]
        BY <1>5, <1>8, <1>9, <2>1 DEF ChatInv
      <4>2. new \in ObjectType /\ new.chatId = d /\ ~new.deleted
        BY <3>2
      <4> QED
        BY <2>6, <3>1, <4>1, <4>2, RewriteSaved
    <3>4. CASE c # d
      <4>1. FileInv(c)' /\ Copies(c)' \subseteq Copies(c) /\ ChatInv(c)
        BY <3>3, <3>4 DEF ChatInv
      <4> QED
        BY <1>6, <2>4, <4>1, ChatFewer
    <3>5. CASE c = d
      <4>1. \A y \in Copies(d)' : y.state = "Accepted" => y.key = server[d].peerKey
        BY <3>2, <3>3 DEF Copy
      <4>2. NetInv(d)'
        BY <1>3, <2>4, <4>1, AgreementGoes
      <4> QED
        BY <3>3, <3>5, <4>2 DEF ChatInv
    <3> QED
      BY <3>4, <3>5
  <2> QED
    BY <2>3, <2>5, <2>6, SavesOrEnds
<1>10. CASE Has(mChats, d) /\ ~KeyFits(key, u)
  <2>1. PICK new, m, w : /\ new = [sc EXCEPT !.key = key]
                         /\ m = Insert(mChats, Told, x) /\ w = [objects EXCEPT ![x] = new]
    OBVIOUS
  <2>2. /\ mChats' = m /\ objects' = Restrict(w, Range(m)) /\ UNCHANGED <<stored, fault>>
        /\ Ask("discard", d)
    <3>1. w = [objects EXCEPT ![x].key = key]
      BY <1>5, <1>8, <1>10, <2>1
    <3> QED
      BY <1>2, <1>5, <1>10, <2>1, <3>1 DEF OnEncryptedChat, Continue
  <2>3. PICK q : calls' = calls \cup {q} /\ q.method = "discard"
    BY <2>2, AskedCall
  <2>4. \A e \in Chats : Accepting(e)' \subseteq Accepting(e)
    BY <2>3 DEF Accepting
  <2>5. /\ new.state = "Init" /\ new.chatId = d /\ ~new.deleted
    BY <1>8, <1>10, <2>1 DEF ObjectType
  <2>6. /\ Told \notin DOMAIN mChats /\ Told # c
        /\ mChats \in [DOMAIN mChats -> DOMAIN objects]
    BY Fresh DEF ChatKeys
  <2>7. /\ DOMAIN m = DOMAIN mChats \cup {Told} /\ m[Told] = x
        /\ (\A k \in DOMAIN mChats : m[k] = mChats[k])
        /\ DOMAIN w = DOMAIN objects /\ w[x] = new
        /\ (\A y \in DOMAIN objects : y # x => w[y] = objects[y])
        /\ m \in [DOMAIN m -> DOMAIN w]
    BY <1>8, <1>10, <2>1, <2>6 DEF Insert
  <2>8. \A k \in DOMAIN m : objects'[m[k]] = w[m[k]]
    BY <2>2, <2>7, Restricted
  <2>9. Running' = Running
    BY <2>2 DEF Running
  <2>10. CASE c # d
    <3>1. ASSUME NEW k \in EntriesOf(mChats', objects', c)
          PROVE  /\ k \in EntriesOf(mChats, objects, c) /\ mChats'[k] = mChats[k]
                 /\ objects'[mChats'[k]] = objects[mChats[k]]
      <4>1. k \in DOMAIN m /\ w[m[k]].chatId = c
        BY <2>2, <2>8, <3>1 DEF EntriesOf
      <4>2. m[k] # x /\ k # Told
        BY <2>5, <2>7, <2>10, <4>1
      <4>3. k \in DOMAIN mChats /\ m[k] = mChats[k] /\ m[k] \in DOMAIN objects
        BY <2>6, <2>7, <4>1, <4>2
      <4> QED
        BY <2>2, <2>7, <2>8, <4>1, <4>2, <4>3 DEF EntriesOf
    <3>2. \A k \in EntriesOf(mChats, objects, c) : objects[mChats[k]].deleted =>
            k \in EntriesOf(mChats', objects', c) /\ objects'[mChats'[k]].deleted
      <4>1. SUFFICES ASSUME NEW k \in EntriesOf(mChats, objects, c), objects[mChats[k]].deleted
                     PROVE  k \in EntriesOf(mChats', objects', c) /\ objects'[mChats'[k]].deleted
        OBVIOUS
      <4>2. mChats[k] # x /\ mChats[k] \in DOMAIN objects /\ k \in DOMAIN mChats
        BY <1>5, <1>8, <1>10, <2>6, <4>1 DEF EntriesOf
      <4> QED
        BY <2>2, <2>7, <2>8, <4>1, <4>2 DEF EntriesOf
    <3>3. Has(mChats', c) <=> Has(mChats, c)
      BY <2>2, <2>6, <2>7 DEF Has
    <3>4. Alike(c)
      BY <3>1, <3>3 DEF Alike
    <3>5. FileInv(c)' /\ Copies(c)' \subseteq Copies(c)
      <4>1. FileInv(c) /\ UNCHANGED stored
        BY <2>2 DEF ChatInv
      <4> QED
        BY <3>2, <3>4, <4>1, KeptAlike
    <3> QED
      BY <1>6, <2>4, <2>9, <3>5, ChatFewer
  <2>11. CASE c = d
    <3>1. /\ FileInv(d) /\ d \in EntriesOf(mChats, objects, d)
          /\ \A k \in EntriesOf(mChats, objects, d) : mChats[k] = x
      <4>1. FileInv(d) /\ d \in EntriesOf(mChats, objects, d)
        BY <1>5, <1>8, <1>10 DEF ChatInv, EntriesOf
      <4> QED
        BY <1>5, <4>1 DEF FileInv, SingleInv
    <3>2. ASSUME NEW k \in EntriesOf(mChats', objects', d)
          PROVE  mChats'[k] = x /\ objects'[mChats'[k]] = new
      <4>1. k \in DOMAIN m /\ w[m[k]].chatId = d
        BY <2>2, <2>8, <3>2 DEF EntriesOf
      <4>2. m[k] = x
        <5>1. CASE k = Told
          BY <2>7, <5>1
        <5>2. CASE k \in DOMAIN mChats
          <6>1. m[k] = mChats[k] /\ mChats[k] \in DOMAIN objects
            BY <2>6, <2>7, <5>2
          <6>2. mChats[k] = x \/ objects[mChats[k]].chatId = d
            BY <2>7, <4>1, <6>1
          <6> QED
            BY <3>1, <5>2, <6>1, <6>2 DEF EntriesOf
        <5> QED
          BY <2>7, <4>1, <5>1, <5>2
      <4> QED
        BY <2>2, <2>7, <2>8, <4>1, <4>2
    <3>3. d \in EntriesOf(mChats', objects', d) /\ Has(mChats', d)
      <4>1. d \in DOMAIN m /\ m[d] = x
        BY <1>5, <1>8, <1>10, <2>7
      <4> QED
        BY <2>2, <2>5, <2>7, <2>8, <4>1 DEF EntriesOf, Has
    <3>4. SingleInv(mChats, objects, d)'
      BY <3>2, <3>3 DEF SingleInv
    <3>5. Current(mChats, objects, stored.chats, d)'
      <4>1. ~Accepted(mChats', objects', d)
        BY <2>5, <3>2, <3>3 DEF Accepted
      <4>2. ~(Has(stored.chats, d) /\ stored.chats[d].state = "Accepted")
        <5>1. ~Accepted(mChats, objects, d)
          BY <1>5, <1>8, <1>10 DEF Accepted
        <5>2. \A k \in EntriesOf(mChats, objects, d) : ~objects[mChats[k]].deleted
          BY <1>5, <1>8, <1>10, <3>1
        <5> QED
          BY <3>1, <5>1, <5>2 DEF FileInv, Current
      <4> QED
        BY <2>2, <4>1, <4>2 DEF Current
    <3>6. \A y \in Copies(d)' : y.state = "Accepted" => y.key = server[d].peerKey
      <4>1. SUFFICES ASSUME NEW y \in Copies(d)' PROVE y.state = "Init"
        OBVIOUS
      <4>2. CASE \E k \in EntriesOf(mChats', objects', d) : y = Copy(objects'[mChats'[k]])
        BY <2>5, <3>2, <4>2 DEF Copy
      <4>3. CASE \E k \in DOMAIN stored.chats \cap {d} : y = Copy(stored.chats[k])
        BY <1>4, <4>3 DEF AllCopies, Copies
      <4> QED
        BY <2>2, <4>1, <4>2, <4>3 DEF Copies
    <3>7. NetInv(d)'
      BY <1>3, <2>4, <3>6, AgreementGoes
    <3> QED
      BY <2>11, <3>4, <3>5, <3>7 DEF ChatInv, FileInv
  <2> QED
    BY <2>10, <2>11
<1> QED
  BY <1>7, <1>9, <1>10

\* processSecretChatUpdate, of an update that will not come again.
LEMMA UpdatesAgree ==
  ASSUME AlwaysInv, Running, ProcessUpdate, repeats' = 0,
         \A e \in Chats : ChatInv(e), NEW c \in Chats
  PROVE  ChatInv(c)'
<1>1. PICK u : u = Head(updates)
  OBVIOUS
<1>2. /\ OnEncryptedChatRequested(u) \/ OnEncryptedChat(u) \/ OnEncryptedChatDiscarded(u)
      /\ updates # <<>> /\ UNCHANGED <<answers, server>>
  BY <1>1 DEF ProcessUpdate
<1>3. updates' = Tail(updates)
  <2>1. repeats \in Nat
    BY DEF AlwaysInv, Types, OtherType
  <2> QED
    BY <2>1 DEF ProcessUpdate
<1>4. AlwaysInv'
  BY Updates
<1>5. u \in UpdateType
  BY <1>1, <1>2, <1>3, Processed DEF AlwaysInv
<1>6. CASE OnEncryptedChatRequested(u)
  BY <1>1, <1>2, <1>3, <1>4, <1>6, RequestHeard
<1>7. CASE OnEncryptedChat(u)
  BY <1>1, <1>2, <1>3, <1>4, <1>7, AgreementHeard
<1>8. CASE OnEncryptedChatDiscarded(u)
  BY <1>2, <1>3, <1>4, <1>5, <1>8, DiscardHeard
<1> QED
  BY <1>2, <1>6, <1>7, <1>8

-----------------------------------------------------------------------------
(* The theorems.                                                           *)

\* At first there is no chat, and nothing is under way.
LEMMA ChatsBegin ==
  ASSUME Init, NEW c \in Chats
  PROVE  ChatInv(c)
<1>1. /\ DOMAIN mChats = {} /\ DOMAIN stored.chats = {} /\ server[c] = NoRecord
      /\ updates = <<>> /\ calls = {} /\ answers = {}
  BY DEF Init, EmptyMap
<1>2. \A kind : Sent(kind, c) = {}
  BY <1>1 DEF Sent, Pending
<1>3. NoTwice(c) /\ Accepting(c) = {} /\ Agreeing(c) = {}
  BY <1>1 DEF NoTwice, Accepting, Agreeing
<1>4. EntriesOf(mChats, objects, c) = {} /\ Copies(c) = {}
  BY <1>1 DEF EntriesOf, Copies
<1>5. OnceInv(c) /\ TheirsInv(c)
  BY <1>2, <1>3 DEF OnceInv, TheirsInv
<1>6. OursInv(c) /\ AgreedInv(c)
  BY <1>2, <1>4 DEF OursInv, AgreedInv, AllCopies
<1>7. SingleInv(mChats, objects, c) /\ Current(mChats, objects, stored.chats, c)
  BY <1>1, <1>4 DEF SingleInv, Current, Accepted, Has
<1> QED
  BY <1>5, <1>6, <1>7 DEF ChatInv, NetInv, FileInv

\* Every action keeps what is said of a chat, unless an update stays to come again.
LEMMA ChatsGoOn ==
  ASSUME AlwaysInv, [Next]_vars, repeats' = 0, \A e \in Chats : ChatInv(e), NEW c \in Chats
  PROVE  ChatInv(c)'
<1>1. ChatInv(c)
  OBVIOUS
<1>2. CASE Running /\ Create
  BY <1>1, <1>2, CreatesAside
<1>3. CASE Running /\ \E d \in Chats : UserDiscard(d)
  BY <1>1, <1>3, UserDiscardsAside
<1>4. CASE Running /\ \E r \in calls : OnMessagesDhConfig(r)
  BY <1>4, DhConfigsAgree
<1>5. CASE Running /\ \E a \in answers : OnAnswer(a)
  BY <1>5, AnswersAgree
<1>6. CASE Running /\ ProcessUpdate
  BY <1>6, UpdatesAgree
<1>7. CASE \E r \in calls : ServerExecutes(r)
  BY <1>1, <1>7, Executes
<1>8. CASE PeerActs
  BY <1>1, <1>8, PeerTouches
<1>9. CASE Restart
  BY <1>1, <1>9, RestartsAside
<1>10. CASE ServerReconfigures \/ UNCHANGED vars
  <2>1. UNCHANGED <<mChats, objects, stored, fault, calls, answers, updates, server>>
    BY <1>10 DEF ServerReconfigures, clientVars, vars
  <2>2. FileInv(c)' /\ Copies(c)' = Copies(c)
    BY <1>1, <2>1, FileUntouched DEF ChatInv
  <2>3. /\ Accepting(c)' = Accepting(c) /\ Agreeing(c)' = Agreeing(c) /\ Running' = Running
    BY <2>1 DEF Accepting, Agreeing, Running
  <2> QED
    BY <1>1, <2>1, <2>2, <2>3, ChatFewer
<1> QED
  BY <1>2, <1>3, <1>4, <1>5, <1>6, <1>7, <1>8, <1>9, <1>10 DEF Next

\* No action forgets that an update came twice.
LEMMA RepeatsStay ==
  ASSUME AlwaysInv, [Next]_vars, repeats' = 0
  PROVE  repeats = 0
<1>1. repeats \in Nat
  BY DEF AlwaysInv, Types, OtherType
<1>2. repeats' \in {repeats, repeats + 1}
  BY DEF Next, Create, UserDiscard, OnMessagesDhConfig, OnAnswer, ProcessUpdate, ServerExecutes,
         PeerActs, ServerReconfigures, Restart, boundVars, vars
<1> QED
  BY <1>1, <1>2

\* IInv is inductive: as long as no update comes twice, what is under way of a chat
\* says in which state and with which key it is, and the file says the same.
THEOREM AsLongAsOnce == Spec => []IInv
<1>1. Init => IInv
  BY Begins, ChatsBegin DEF IInv
<1>2. IInv /\ [Next]_vars /\ AlwaysInv' => IInv'
  <2>1. SUFFICES ASSUME IInv, [Next]_vars, AlwaysInv', repeats' = 0, NEW c \in Chats
                 PROVE  ChatInv(c)'
    BY DEF IInv
  <2>2. AlwaysInv /\ \A e \in Chats : ChatInv(e)
    BY <2>1, RepeatsStay DEF IInv
  <2> QED
    BY <2>1, <2>2, ChatsGoOn
<1> QED
  BY <1>1, <1>2, Always, PTL DEF Spec

\* A chat that both sides hold for accepted has one key, in memory and in the file
\* (onMessagesDhConfig, processSecretChatUpdate, writeSecretFile), for any number of
\* chats, discards, kills, renamed answers and changes of the prime.
THEOREM KeysCorrect == Spec => []KeysAgree
<1>1. IInv => KeysAgree
  <2>1. SUFFICES ASSUME IInv, repeats = 0, NEW c \in Chats,
                        server[c].status = "accepted", server[c].peerKey # NoKey
                 PROVE  /\ Accepted(mChats, objects, c) =>
                             objects[mChats[c]].key = server[c].peerKey
                        /\ Has(stored.chats, c) /\ stored.chats[c].state = "Accepted" =>
                             stored.chats[c].key = server[c].peerKey
    BY DEF KeysAgree
  <2>2. AlwaysInv /\ \A x \in Copies(c) : x.state = "Accepted" => x.key = server[c].peerKey
    BY <2>1 DEF IInv, ChatInv, NetInv, AgreedInv
  <2>3. ASSUME Accepted(mChats, objects, c)
        PROVE  objects[mChats[c]].key = server[c].peerKey
    <3>1. c \in EntriesOf(mChats, objects, c)
      BY <2>2, <2>3 DEF AlwaysInv, MapInv, Accepted, Has, EntriesOf, ChatKeys
    <3>2. Copy(objects[mChats[c]]) \in Copies(c)
      BY <3>1 DEF Copies
    <3> QED
      BY <2>2, <2>3, <3>2 DEF Accepted, Copy
  <2>4. ASSUME Has(stored.chats, c), stored.chats[c].state = "Accepted"
        PROVE  stored.chats[c].key = server[c].peerKey
    <3>1. Copy(stored.chats[c]) \in Copies(c)
      BY <2>4 DEF Copies, Has
    <3> QED
      BY <2>2, <2>4, <3>1 DEF Copy
  <2> QED
    BY <2>3, <2>4
<1> QED
  BY <1>1, AsLongAsOnce, PTL

\* What load finds in the file is what the client has: the same chats are accepted,
\* with the same keys, for any order of creations, acceptances, discards and kills.
THEOREM FileCorrect == Spec => []FileIsCurrent
<1>1. IInv => FileIsCurrent
  <2>1. SUFFICES ASSUME IInv, repeats = 0, NEW c \in Chats,
                        EntriesOf(mChats, objects, c) \subseteq {c}
                 PROVE  /\ Accepted(mChats, objects, c) <=>
                             Has(stored.chats, c) /\ stored.chats[c].state = "Accepted"
                        /\ Accepted(mChats, objects, c) =>
                             stored.chats[c].key = objects[mChats[c]].key
    BY DEF FileIsCurrent
  <2>2. AlwaysInv /\ Current(mChats, objects, stored.chats, c)
    BY <2>1 DEF IInv, ChatInv, FileInv
  <2>3. ~ \E k \in EntriesOf(mChats, objects, c) : objects[mChats[k]].deleted
    BY <2>1, <2>2 DEF AlwaysInv, MapInv, ChatKeys, EntriesOf
  <2> QED
    BY <2>2, <2>3 DEF Current
<1> QED
  BY <1>1, AsLongAsOnce, PTL
=============================================================================

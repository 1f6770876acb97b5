------------------------- MODULE SecretChatsProofs -------------------------
(***************************************************************************)
(* Proofs about SecretChats, for any number of chats and every bound.      *)
(***************************************************************************)
EXTENDS SecretChats, SequenceTheorems, FiniteSetTheorems, WellFoundedInduction, TLAPS

-----------------------------------------------------------------------------
(* The inductive invariant.                                                *)

Powers == [p : Int, x : Int]
Keys   == [primes : SUBSET Int, powers : SUBSET Int, only : Int]
States == {"Init", "Requested", "Accepted"}
ObjectType ==
  [state : States, chatId : Chats \cup {NoChat}, myKey : Int, key : Keys, gAOrB : Powers,
   deleted : BOOLEAN]
CallType ==
  [method : {"getDhConfig", "request", "accept", "discard"}, answer : Nat,
   chat : Chats \cup {NoChat}, g : Powers, key : Keys]
AnswerType == [kind : {"accepted", "discarded", "kept", "declined"}, id : Nat, chat : Chats]
UpdateType == [kind : {"requested", "accepted", "discarded"}, chat : Chats, g : Powers, key : Keys]
RecordType ==
  [status : {"none", "requested", "accepted", "discarded"}, ours : BOOLEAN, g : Powers,
   peerKey : Keys]

\* A map m of chats and requests to objects o, after n requests.
ChatKeys == Chats \cup {NoChat}
MapType(m, o, n) ==
  /\ DOMAIN m \subseteq ChatKeys \cup 1..n /\ DOMAIN o \subseteq ChatKeys \cup 1..n
  /\ m \in [DOMAIN m -> DOMAIN o] /\ o \in [DOMAIN o -> ObjectType]
  /\ \A x \in DOMAIN o : o[x].myKey \in -1..n
FileType ==
  /\ DOMAIN stored.chats \subseteq Chats \cup {NoChat}
  /\ stored.chats \in [DOMAIN stored.chats -> ObjectType]
  /\ \A c \in DOMAIN stored.chats :
       /\ stored.chats[c].chatId = c /\ ~stored.chats[c].deleted
       /\ stored.chats[c].myKey \in -1..requests
       /\ c = NoChat => stored.chats[c].state = "Init"
NetType ==
  /\ requests \in Nat
  /\ calls \subseteq CallType /\ answers \subseteq AnswerType
  /\ \A r \in calls :
       /\ r.answer <= requests
       /\ r.method \in {"getDhConfig", "discard"} <=> r.answer # NoRequest
       /\ r.method # "getDhConfig" => r.chat \in Chats
  /\ \A a \in answers :
       /\ a.id <= requests
       /\ a.kind = "accepted" => a.id = NoRequest
       /\ a.kind = "kept" => a.id # NoRequest
  /\ updates \in Seq(UpdateType)
ServerType ==
  /\ server \in [Chats -> RecordType]
  /\ config \in Nat /\ mP \in 0..config /\ stored.p \in 0..config
OtherType ==
  /\ fault \in [kind : {"none", "assert", "deleted", "null"}, chat : Chats \cup {NoChat}]
  /\ kills \in Nat /\ repeats \in Nat /\ renames \in Nat
Types ==
  /\ MapType(mChats, objects, requests) /\ DOMAIN objects = Range(mChats)
  /\ FileType /\ NetType /\ ServerType /\ OtherType

Pending == {updates[i] : i \in DOMAIN updates}

\* The map.  An entry under a chat leads to the object of that chat, which is
\* not deleted; an object that is deleted is of a chat that was discarded, and a
\* chat without an entry of its own was, too.
MapInv(m, o, s) ==
  /\ \A k \in DOMAIN m \cap ChatKeys : o[m[k]].chatId = k /\ ~o[m[k]].deleted
  /\ \A j, k \in DOMAIN m : m[j] = m[k] /\ o[m[k]].chatId = NoChat => j = k
  /\ \A k \in DOMAIN m :
       /\ o[m[k]].chatId = NoChat => o[m[k]].state = "Init" /\ ~o[m[k]].deleted
       /\ o[m[k]].deleted => s[o[m[k]].chatId].status = "discarded"
       /\ o[m[k]].chatId \in Chats =>
            Has(m, o[m[k]].chatId) \/ s[o[m[k]].chatId].status = "discarded"

\* A request, and its answer, is of the chat that its entry leads to.  An entry
\* is there until the answer, unless it came under another identifier.
CallOf(m, o, r) ==
  Has(m, r.answer) =>
    /\ o[m[r.answer]].chatId = r.chat
    /\ r.method = "getDhConfig" /\ r.chat # NoChat => o[m[r.answer]].state # "Init"
AnswerOf(m, o, a) == Has(m, a.id) => o[m[a.id]].chatId = a.chat
IdsInv ==
  /\ \A r, q \in calls : r.answer = q.answer /\ r.answer # NoRequest => r = q
  /\ \A a, b \in answers : a.id = b.id /\ a.id # NoRequest => a = b
  /\ \A r \in calls, a \in answers : r.answer = a.id => a.id = NoRequest
EntriesInv ==
  /\ \A r \in calls : CallOf(mChats, objects, r)
  /\ \A a \in answers : AnswerOf(mChats, objects, a)
PresentInv ==
  renames = 0 =>
    /\ \A r \in calls : r.answer # NoRequest => Has(mChats, r.answer)
    /\ \A a \in answers : a.id # NoRequest => Has(mChats, a.id)

\* The server knows of the chats that others are told of.
CallKnown(m, s, r) ==
  /\ r.method = "request" => s[r.chat].status = "none"
  /\ r.method = "discard" => s[r.chat].status # "none"
  /\ r.method = "accept" => Has(m, r.chat) \/ s[r.chat].status = "discarded"
KnownInv ==
  /\ \A r \in calls : CallKnown(mChats, server, r)
  /\ \A r, q \in calls :
       r.method = "request" /\ q.method = "request" /\ r.chat = q.chat => r = q
  /\ \A a \in answers :
       /\ a.kind \in {"discarded", "declined"} => Discarded(a.chat)
       /\ a.kind = "accepted" =>
            /\ server[a.chat].status # "none"
            /\ Has(mChats, a.chat) \/ Discarded(a.chat)
  /\ \A u \in Pending :
       /\ server[u.chat].status # "none"
       /\ u.kind = "discarded" => Discarded(u.chat)

\* The objects that a request under way will give a chat find one.
Naming ==
  {o \in Unnamed : \E r \in calls :
     r.method = "getDhConfig" /\ Has(mChats, r.answer) /\ mChats[r.answer] = o}
CountInv == Cardinality(Naming) <= Cardinality(FreeChats)

\* The state and the key of a chat.
Copy(x) == [state |-> x.state, key |-> x.key]

\* What ended the process.
FaultInv == Running \/ renames > 0 \/ (fault.chat \in Chats /\ Discarded(fault.chat))

\* What holds however updates are repeated and answers are renamed.
AlwaysInv ==
  /\ Types /\ MapInv(mChats, objects, server) /\ IdsInv /\ EntriesInv /\ PresentInv
  /\ KnownInv /\ CountInv /\ FaultInv

-----------------------------------------------------------------------------
(* The operators of the model.                                             *)

\* Max of a set of numbers that is not empty is one of them: the last entry that
\* load finds is an entry.
LEMMA MaxIs ==
  ASSUME NEW n \in Nat, NEW S \in SUBSET (1..n), S # {}
  PROVE  Max(S) \in S
<1> DEFINE below == {n - i : i \in S}
<1>1. PICK j \in below : \A i \in below : <<i, j>> \notin OpToRel(<, Nat)
  <2>0. \A i \in S : n - i \in Nat
    OBVIOUS
  <2>1. below \in SUBSET Nat /\ below # {}
    BY <2>0
  <2> HIDE DEF below
  <2> QED
    BY <2>1, NatLessThanWellFounded, WFMin
<1>2. PICK k \in S : j = n - k
  BY <1>1
<1>3. ASSUME NEW i \in S
      PROVE  k >= i
  <2>1. n - i \in below /\ n - i \in Nat /\ n - k \in Nat
    OBVIOUS
  <2>2. <<n - i, n - k>> \notin OpToRel(<, Nat)
    BY <1>1, <1>2, <2>1
  <2>3. ~(n - i < n - k)
    BY <2>1, <2>2 DEF OpToRel
  <2> QED
    BY <2>1, <2>3
<1> QED
  BY <1>2, <1>3 DEF Max

\* The entry of a chat that load leaves is one of the entries of the chat.
LEMMA LastIs ==
  ASSUME requests \in Nat, NEW m, NEW o, NEW c, EntriesOf(m, o, c) # {}
  PROVE  LastEntry(m, o, c) \in EntriesOf(m, o, c)
<1> DEFINE ks == EntriesOf(m, o, c) \cap 1..requests
<1>1. CASE ks = {}
  BY <1>1 DEF LastEntry
<1>2. CASE ks # {}
  <2>1. Max(ks) \in ks
    BY <1>2, MaxIs
  <2> QED
    BY <1>2, <2>1 DEF LastEntry
<1> QED
  BY <1>1, <1>2

\* What writeSecretFile writes: of each chat that an entry leads to, one object that
\* an entry of that chat leads to.
LEMMA Filed ==
  ASSUME requests \in Nat, NEW m, NEW o, NEW p,
         m \in [DOMAIN m -> DOMAIN o], o \in [DOMAIN o -> ObjectType]
  PROVE  LET f == File(m, o, p).chats
         IN  /\ File(m, o, p).p = p
             /\ DOMAIN f = {o[m[k]].chatId : k \in DOMAIN m}
             /\ f \in [DOMAIN f -> ObjectType]
             /\ \A c \in DOMAIN f : \E k \in DOMAIN m :
                  o[m[k]].chatId = c /\ f[c] = [o[m[k]] EXCEPT !.gAOrB = NoPower]
<1> DEFINE f == File(m, o, p).chats
<1>1. /\ File(m, o, p).p = p
      /\ f = [c \in {o[m[k]].chatId : k \in DOMAIN m} |->
                [o[m[LastEntry(m, o, c)]] EXCEPT !.gAOrB = NoPower]]
  BY DEF File
<1>2. DOMAIN f = {o[m[k]].chatId : k \in DOMAIN m}
  BY <1>1
<1>3. ASSUME NEW c \in DOMAIN f
      PROVE  \E k \in DOMAIN m : /\ o[m[k]].chatId = c /\ f[c] \in ObjectType
                                 /\ f[c] = [o[m[k]] EXCEPT !.gAOrB = NoPower]
  <2>1. EntriesOf(m, o, c) # {}
    BY <1>2 DEF EntriesOf
  <2>2. PICK k : k = LastEntry(m, o, c)
    OBVIOUS
  <2>3. k \in DOMAIN m /\ o[m[k]].chatId = c
    BY <2>1, <2>2, LastIs DEF EntriesOf
  <2>4. f[c] = [o[m[k]] EXCEPT !.gAOrB = NoPower]
    BY <1>1, <1>2, <2>2
  <2>5. o[m[k]] \in ObjectType /\ NoPower \in Powers
    BY <2>3 DEF NoPower, Powers
  <2>6. f[c] \in ObjectType
    BY <2>4, <2>5 DEF ObjectType
  <2> QED
    BY <2>3, <2>4, <2>6
<1>4. f \in [DOMAIN f -> ObjectType]
  <2>1. f = [c \in DOMAIN f |-> f[c]]
    BY <1>1, <1>2
  <2> HIDE DEF f
  <2> QED
    BY <1>3, <2>1
<1> QED
  BY <1>1, <1>2, <1>3, <1>4

\* The handler keeps the objects that the map still leads to, as they are.
LEMMA Restricted ==
  ASSUME NEW m, NEW o, m \in [DOMAIN m -> DOMAIN o],
         mChats' = m, objects' = Restrict(o, Range(m))
  PROVE  /\ DOMAIN mChats' = DOMAIN m /\ DOMAIN objects' = Range(mChats')
         /\ DOMAIN objects' \subseteq DOMAIN o
         /\ \A x \in DOMAIN objects' : objects'[x] = o[x]
         /\ \A k \in DOMAIN m : m[k] \in DOMAIN objects' /\ objects'[m[k]] = o[m[k]]
BY DEF Restrict, Range

\* The parts of the invariant that the map decides, once it is m.
LEMMA Becomes ==
  ASSUME NEW m, NEW o, NEW n, NEW s, MapType(m, o, n), MapInv(m, o, s),
         mChats' = m, objects' = Restrict(o, Range(m))
  PROVE  /\ MapType(mChats', objects', n) /\ DOMAIN objects' = Range(mChats')
         /\ MapInv(mChats', objects', s)
<1>1. m \in [DOMAIN m -> DOMAIN o] /\ o \in [DOMAIN o -> ObjectType]
  BY DEF MapType
<1>2. /\ DOMAIN mChats' = DOMAIN m /\ DOMAIN objects' = Range(mChats')
      /\ DOMAIN objects' \subseteq DOMAIN o
      /\ \A x \in DOMAIN objects' : objects'[x] = o[x]
      /\ \A k \in DOMAIN m : m[k] \in DOMAIN objects' /\ objects'[m[k]] = o[m[k]]
  BY <1>1, Restricted
<1>3. objects' \in [DOMAIN objects' -> ObjectType]
  BY <1>1, <1>2 DEF Restrict
<1>4. MapType(mChats', objects', n)
  BY <1>1, <1>2, <1>3 DEF MapType
<1>5. MapInv(mChats', objects', s)
  BY <1>1, <1>2 DEF MapInv, Has
<1> QED
  BY <1>2, <1>4, <1>5

\* The file that is written of it.
LEMMA Written ==
  ASSUME Types, NEW m, NEW o, NEW p, NEW n \in Nat, NEW s, MapType(m, o, n),
         \A k \in DOMAIN m :
           /\ ~o[m[k]].deleted
           /\ o[m[k]].chatId = NoChat => o[m[k]].state = "Init",
         stored' = File(m, o, p), requests' = n
  PROVE  /\ FileType' /\ stored'.p = p
         /\ DOMAIN stored'.chats = {o[m[k]].chatId : k \in DOMAIN m}
         /\ \A c \in DOMAIN stored'.chats : \E k \in DOMAIN m :
              o[m[k]].chatId = c /\ Copy(stored'.chats[c]) = Copy(o[m[k]])
<1>1. /\ m \in [DOMAIN m -> DOMAIN o] /\ o \in [DOMAIN o -> ObjectType] /\ requests \in Nat
      /\ \A x \in DOMAIN o : o[x].myKey \in -1..n
  BY DEF MapType, Types, NetType
<1> DEFINE f == stored'.chats
<1>2. /\ stored'.p = p /\ DOMAIN f = {o[m[k]].chatId : k \in DOMAIN m}
      /\ f \in [DOMAIN f -> ObjectType]
      /\ \A c \in DOMAIN f : \E k \in DOMAIN m :
           o[m[k]].chatId = c /\ f[c] = [o[m[k]] EXCEPT !.gAOrB = NoPower]
  BY <1>1, Filed
<1>3. ASSUME NEW c \in DOMAIN f
      PROVE  /\ c \in Chats \cup {NoChat} /\ f[c].chatId = c /\ ~f[c].deleted
             /\ f[c].myKey \in -1..n /\ (c = NoChat => f[c].state = "Init")
             /\ \E k \in DOMAIN m : o[m[k]].chatId = c /\ Copy(f[c]) = Copy(o[m[k]])
  <2>1. PICK k \in DOMAIN m : o[m[k]].chatId = c /\ f[c] = [o[m[k]] EXCEPT !.gAOrB = NoPower]
    BY <1>2
  <2>2. PICK x \in ObjectType : x = o[m[k]] /\ x.myKey \in -1..n
    BY <1>1, <2>1
  <2>3. /\ f[c].chatId = x.chatId /\ f[c].deleted = x.deleted /\ f[c].myKey = x.myKey
        /\ f[c].state = x.state /\ f[c].key = x.key
    BY <2>1, <2>2 DEF ObjectType
  <2>a. ~o[m[k]].deleted /\ (o[m[k]].chatId = NoChat => o[m[k]].state = "Init")
    BY <2>1
  <2>4. x.chatId = c /\ ~x.deleted /\ c \in Chats \cup {NoChat} /\ (c = NoChat => x.state = "Init")
    <3>1. x.chatId \in Chats \cup {NoChat}
      BY <2>2 DEF ObjectType
    <3> QED
      BY <2>1, <2>2, <2>a, <3>1
  <2>5. Copy(f[c]) = Copy(o[m[k]])
    BY <2>2, <2>3 DEF Copy
  <2>6. \E j \in DOMAIN m : o[m[j]].chatId = c /\ Copy(f[c]) = Copy(o[m[j]])
    BY <2>1, <2>5
  <2> QED
    BY <2>2, <2>3, <2>4, <2>6
<1>4. FileType'
  BY <1>2, <1>3 DEF FileType
<1> QED
  BY <1>2, <1>3, <1>4

-----------------------------------------------------------------------------
(* Steps of the client.                                                    *)

\* The entries of requests stay as they were, those that stay at all.
IdsKept(m, o) ==
  \A k \in DOMAIN m \cap 1..requests :
    /\ k \in DOMAIN mChats /\ m[k] = mChats[k]
    /\ o[m[k]].chatId = objects[m[k]].chatId
    /\ objects[m[k]].state # "Init" => o[m[k]].state # "Init"

\* No chat has the identifier of a request.
LEMMA NotIds ==
  ASSUME requests \in Nat
  PROVE  ChatKeys \cap Nat = {} /\ 0 \notin 1..requests /\ NoChat \notin Chats
BY ChatsAssumption DEF ChatKeys

\* A free chat is one that nothing is known of, here or at the server.
LEMMA FreeIs ==
  ASSUME AlwaysInv, NEW c \in FreeChats
  PROVE  /\ c \in Chats /\ server[c].status = "none"
         /\ \A r \in calls : r.chat # c
         /\ \A k \in DOMAIN mChats : objects[mChats[k]].chatId # c
         /\ c \notin DOMAIN stored.chats /\ c \notin DOMAIN mChats
<1>1. /\ c \in Chats /\ server[c].status = "none"
      /\ \A r \in calls : r.chat # c
      /\ \A o \in DOMAIN objects : objects[o].chatId # c
      /\ c \notin DOMAIN stored.chats
  BY DEF FreeChats
<1>2. \A k \in DOMAIN mChats : mChats[k] \in DOMAIN objects
  BY DEF AlwaysInv, Types, MapType
<1>3. \A k \in DOMAIN mChats : objects[mChats[k]].chatId # c
  BY <1>1, <1>2
<1>4. c \notin DOMAIN mChats
  BY <1>1, <1>3 DEF AlwaysInv, MapInv, ChatKeys
<1> QED
  BY <1>1, <1>3, <1>4

\* Types of a step that makes the map m of objects o.
LEMMA ClientTypes ==
  ASSUME AlwaysInv, NEW m, NEW o, NEW n \in Nat, MapType(m, o, n), MapInv(m, o, server),
         mChats' = m, objects' = Restrict(o, Range(m)), requests' = n,
         mP' \in 0..config, stored'.p \in 0..config, FileType', NetType',
         UNCHANGED <<server, config, kills, fault>>, repeats' \in Nat, renames' \in Nat
  PROVE  Types' /\ MapInv(mChats', objects', server')
<1>1. /\ MapType(mChats', objects', n) /\ DOMAIN objects' = Range(mChats')
      /\ MapInv(mChats', objects', server)
  BY Becomes
<1>2. ServerType'
  BY DEF AlwaysInv, Types, ServerType
<1>3. OtherType'
  BY DEF AlwaysInv, Types, OtherType
<1> QED
  BY <1>1, <1>2, <1>3 DEF Types

\* Requests and answers stay of the chats that their entries lead to.
LEMMA ClientEntries ==
  ASSUME AlwaysInv, NEW m, NEW o, NEW n \in Nat, MapType(m, o, n), IdsKept(m, o),
         mChats' = m, objects' = Restrict(o, Range(m)),
         \A r \in calls' : r \in calls \/ CallOf(m, o, r), answers' \subseteq answers
  PROVE  EntriesInv'
<1>1. \A k \in DOMAIN m : m[k] \in DOMAIN objects' /\ objects'[m[k]] = o[m[k]]
  BY Restricted DEF MapType
<1>0. 0 \notin DOMAIN m
  BY NotIds DEF AlwaysInv, Types, NetType, MapType
<1>2. ASSUME NEW r \in calls'
      PROVE  CallOf(mChats', objects', r)
  <2>1. CASE CallOf(m, o, r)
    BY <1>1, <2>1 DEF CallOf, Has
  <2>2. CASE r \in calls /\ Has(m, r.answer)
    <3>1. r.answer \in DOMAIN m \cap 1..requests
      <4>1. r.answer \in 0..requests /\ requests \in Nat
        BY <2>2 DEF AlwaysInv, Types, NetType, CallType
      <4>2. r.answer # 0
        BY <1>0, <2>2 DEF Has
      <4> QED
        BY <2>2, <4>1, <4>2 DEF Has
    <3>2. CallOf(mChats, objects, r)
      BY <2>2 DEF AlwaysInv, EntriesInv
    <3> QED
      BY <1>1, <3>1, <3>2 DEF IdsKept, CallOf, Has
  <2>3. CASE ~Has(m, r.answer)
    BY <2>3 DEF CallOf, Has
  <2> QED
    BY <2>1, <2>2, <2>3
<1>3. ASSUME NEW a \in answers'
      PROVE  AnswerOf(mChats', objects', a)
  <2>1. CASE Has(m, a.id)
    <3>1. a.id \in DOMAIN m \cap 1..requests
      <4>1. a \in answers /\ a.id \in 0..requests /\ requests \in Nat
        BY DEF AlwaysInv, Types, NetType, AnswerType
      <4>2. a.id # 0
        BY <1>0, <2>1 DEF Has
      <4> QED
        BY <2>1, <4>1, <4>2 DEF Has
    <3>2. AnswerOf(mChats, objects, a)
      BY DEF AlwaysInv, EntriesInv
    <3> QED
      BY <1>1, <3>1, <3>2 DEF IdsKept, AnswerOf, Has
  <2>2. CASE ~Has(m, a.id)
    BY <2>2 DEF AnswerOf, Has
  <2> QED
    BY <2>1, <2>2
<1> QED
  BY <1>2, <1>3 DEF EntriesInv

\* What is free stays free.
LEMMA FreeKept ==
  ASSUME AlwaysInv, NEW m, NEW o, m \in [DOMAIN m -> DOMAIN o],
         mChats' = m, objects' = Restrict(o, Range(m)), UNCHANGED server,
         NEW F \in SUBSET FreeChats, \A k \in DOMAIN m : o[m[k]].chatId \notin F,
         DOMAIN stored'.chats \cap F = {}, \A r \in calls' : r.chat \notin F
  PROVE  F \subseteq FreeChats'
<1>1. /\ DOMAIN objects' = Range(m) /\ \A x \in DOMAIN objects' : objects'[x] = o[x]
  BY Restricted
<1>2. ASSUME NEW c \in F, NEW x \in DOMAIN objects'
      PROVE  objects'[x].chatId # c
  <2>1. PICK k \in DOMAIN m : x = m[k]
    BY <1>1 DEF Range
  <2> QED
    BY <1>1, <2>1
<1>3. \A c \in F : c \in Chats /\ server[c].status = "none"
  BY FreeIs
<1> QED
  BY <1>2, <1>3 DEF FreeChats

\* There are finitely many chats.
LEMMA FreeFinite ==
  ASSUME NEW F \in SUBSET Chats
  PROVE  IsFiniteSet(F) /\ Cardinality(F) \in Nat /\ (Cardinality(F) > 0 => F # {})
<1>1. IsFiniteSet(F)
  BY ChatsAssumption, FS_Subset
<1>2. F = {} => Cardinality(F) = 0
  BY FS_EmptySet
<1> QED
  BY <1>1, <1>2, FS_CardinalityType

\* There are finitely many objects, and no more that a request will name than unnamed ones.
LEMMA NamingFinite ==
  ASSUME Types
  PROVE  /\ IsFiniteSet(Unnamed) /\ Cardinality(Unnamed) \in Nat
         /\ IsFiniteSet(Naming) /\ Cardinality(Naming) \in Nat
         /\ Cardinality(Naming) <= Cardinality(Unnamed)
<1>1. IsFiniteSet(ChatKeys \cup 1..requests)
  <2>1. IsFiniteSet(Chats \cup {NoChat})
    BY ChatsAssumption, FS_AddElement
  <2>2. IsFiniteSet(1..requests)
    BY FS_Interval DEF Types, NetType
  <2> QED
    BY <2>1, <2>2, FS_Union DEF ChatKeys
<1>2. Unnamed \subseteq ChatKeys \cup 1..requests
  BY DEF Unnamed, Types, MapType
<1>3. IsFiniteSet(Unnamed)
  BY <1>1, <1>2, FS_Subset
<1>4. Naming \subseteq Unnamed
  BY DEF Naming
<1> QED
  BY <1>3, <1>4, FS_Subset, FS_CardinalityType

\* CountInv of a step that names no object.
LEMMA CountKept ==
  ASSUME AlwaysInv, Naming' \subseteq Naming, FreeChats \subseteq FreeChats'
  PROVE  CountInv'
<1>1. IsFiniteSet(Naming) /\ Cardinality(Naming) \in Nat
  BY NamingFinite DEF AlwaysInv
<1>2. IsFiniteSet(FreeChats') /\ Cardinality(FreeChats') \in Nat
  <2>1. FreeChats' \in SUBSET Chats
    BY DEF FreeChats
  <2> QED
    BY <2>1, FreeFinite
<1>3. Cardinality(Naming') <= Cardinality(Naming) /\ Cardinality(Naming') \in Nat
  BY <1>1, FS_Subset, FS_CardinalityType
<1>4. Cardinality(FreeChats) <= Cardinality(FreeChats') /\ Cardinality(FreeChats) \in Nat
  BY <1>2, FS_Subset, FS_CardinalityType
<1>5. Cardinality(Naming) <= Cardinality(FreeChats)
  BY DEF AlwaysInv, CountInv
<1> QED
  BY <1>2, <1>3, <1>4, <1>5, <1>1 DEF CountInv

\* No object is found a name for that had one, or had no request.
LEMMA NamingKept ==
  ASSUME AlwaysInv, NEW m, NEW o, NEW n \in Nat, MapType(m, o, n), IdsKept(m, o),
         mChats' = m, objects' = Restrict(o, Range(m)),
         \A r \in calls' :
           \/ r \in calls \/ r.method # "getDhConfig"
           \/ Has(m, r.answer) => o[m[r.answer]].chatId # NoChat
  PROVE  Naming' \subseteq Naming
<1>1. \A k \in DOMAIN m : m[k] \in DOMAIN objects' /\ objects'[m[k]] = o[m[k]]
  BY Restricted DEF MapType
<1>2. SUFFICES ASSUME NEW x \in Naming' PROVE x \in Naming
  OBVIOUS
<1>3. PICK r \in calls' : r.method = "getDhConfig" /\ Has(m, r.answer) /\ m[r.answer] = x
  BY DEF Naming, Has
<1>4. x \in DOMAIN objects' /\ objects'[x].chatId = NoChat
  BY DEF Naming, Unnamed
<1>5. r \in calls /\ o[m[r.answer]].chatId = NoChat
  BY <1>1, <1>3, <1>4 DEF Has
<1>6. r.answer \in DOMAIN m \cap 1..requests
  <2>1. r.answer \in 0..requests /\ requests \in Nat
    BY <1>5 DEF AlwaysInv, Types, NetType, CallType
  <2>2. 0 \notin DOMAIN m
    BY NotIds DEF AlwaysInv, Types, NetType, MapType
  <2> QED
    BY <1>3, <2>1, <2>2 DEF Has
<1>7. /\ r.answer \in DOMAIN mChats /\ mChats[r.answer] = x
      /\ objects[mChats[r.answer]].chatId = NoChat
  BY <1>3, <1>5, <1>6 DEF IdsKept
<1>8. objects[x].state = "Init" /\ x \in DOMAIN objects
  BY <1>7 DEF AlwaysInv, MapInv, Types, MapType
<1> QED
  BY <1>3, <1>5, <1>7, <1>8 DEF Naming, Unnamed, Has

\* The invariant of a handler that goes on, from its parts.
LEMMA ClientStep ==
  ASSUME AlwaysInv, Running, NEW m, NEW o, NEW n \in Nat, MapType(m, o, n), MapInv(m, o, server),
         IdsKept(m, o), mChats' = m, objects' = Restrict(o, Range(m)), requests' = n,
         mP' \in 0..config, stored'.p \in 0..config, FileType', NetType',
         UNCHANGED <<server, config, kills, fault>>, repeats' \in Nat, renames' \in Nat,
         \A r \in calls' : r \in calls \/ CallOf(m, o, r), answers' \subseteq answers,
         IdsInv', PresentInv', KnownInv', CountInv'
  PROVE  AlwaysInv'
<1>1. Types' /\ MapInv(mChats', objects', server')
  BY ClientTypes
<1>2. EntriesInv'
  BY ClientEntries
<1>3. FaultInv'
  BY DEF FaultInv, Running
<1> QED
  BY <1>1, <1>2, <1>3 DEF AlwaysInv

\* KnownInv of a step that asks for N and loses entries only of discarded chats.
LEMMA KnownKept ==
  ASSUME AlwaysInv, NEW m, mChats' = m, UNCHANGED server,
         \A c \in Chats : Has(mChats, c) => Has(m, c) \/ Discarded(c),
         Pending' \subseteq Pending, answers' \subseteq answers,
         NEW N, calls' \subseteq calls \cup N,
         \A r \in N : CallKnown(m, server, r),
         \A r \in N, q \in calls : r.method = "request" => q.chat # r.chat,
         \A r, q \in N : r = q
  PROVE  KnownInv'
<1> USE DEF Has
<1>1. KnownInv /\ \A r \in calls : r.method # "getDhConfig" => r.chat \in Chats
  BY DEF AlwaysInv, Types, NetType
<1>2. ASSUME NEW r \in calls'
      PROVE  CallKnown(mChats', server', r)
  <2>1. CASE r \in N
    BY <2>1 DEF CallKnown
  <2>2. CASE r \in calls
    BY <1>1, <2>2 DEF CallKnown, KnownInv, Discarded
  <2> QED
    BY <2>1, <2>2
<1>3. ASSUME NEW r \in calls', NEW q \in calls',
             r.method = "request", q.method = "request", r.chat = q.chat
      PROVE  r = q
  <2>1. r \in N \/ r \in calls
    OBVIOUS
  <2>2. q \in N \/ q \in calls
    OBVIOUS
  <2> QED
    BY <1>1, <1>3, <2>1, <2>2 DEF KnownInv
<1>4. ASSUME NEW a \in answers'
      PROVE  /\ a.kind \in {"discarded", "declined"} => Discarded(a.chat)'
             /\ a.kind = "accepted" => /\ server'[a.chat].status # "none"
                                       /\ Has(mChats', a.chat) \/ Discarded(a.chat)'
  <2>1. a \in answers /\ a.chat \in Chats
    BY DEF AlwaysInv, Types, NetType, AnswerType
  <2> QED
    BY <1>1, <2>1 DEF KnownInv, Discarded
<1>5. \A u \in Pending' : /\ server'[u.chat].status # "none"
                          /\ u.kind = "discarded" => Discarded(u.chat)'
  BY <1>1 DEF KnownInv, Discarded
<1> QED
  BY <1>2, <1>3, <1>4, <1>5 DEF KnownInv

\* A request gets an identifier that nothing has yet, and that is filed unless the
\* answer comes under another one.
LEMMA Asks ==
  ASSUME AlwaysInv, NEW method \in {"getDhConfig", "discard"}, NEW c \in ChatKeys,
         method = "discard" => c \in Chats, Ask(method, c), UNCHANGED answers,
         updates' \in Seq(UpdateType), DOMAIN mChats \cup {Told} \subseteq DOMAIN mChats'
  PROVE  /\ requests' \in Nat /\ requests' >= Told /\ renames' \in Nat
         /\ NetType' /\ IdsInv' /\ PresentInv'
         /\ \E q : /\ calls' = calls \cup {q}
                   /\ q.method = method /\ q.chat = c /\ q.answer \in Nat /\ q.answer > requests
                   /\ q.answer = Told \/ q.answer = Told + 1
<1>1. PICK late \in 0..1 :
        /\ requests' = Told + late /\ renames' = renames + late
        /\ calls' = calls \cup {Call(method, Told + late, c, NoPower, NoKey)}
  BY DEF Ask
<1> DEFINE q == Call(method, Told + late, c, NoPower, NoKey)
<1>2. /\ requests \in Nat /\ renames \in Nat /\ calls \subseteq CallType /\ answers \subseteq AnswerType
      /\ \A r \in calls : r.answer \in 0..requests
      /\ \A a \in answers : a.id \in 0..requests
  BY DEF AlwaysInv, Types, NetType, OtherType, CallType, AnswerType
<1>3. /\ requests' \in Nat /\ requests' >= Told /\ requests' > requests /\ renames' \in Nat
      /\ renames' = 0 => late = 0 /\ renames = 0
  BY <1>1, <1>2 DEF Told
<1>4. /\ q.method = method /\ q.chat = c /\ q.answer = Told + late /\ q.answer \in Nat
      /\ q.answer > requests /\ q.answer <= requests' /\ q.answer # 0
  BY <1>1, <1>2 DEF Call, Told
<1>5. q \in CallType
  <2>1. NoPower \in Powers /\ NoKey \in Keys
    BY DEF NoPower, Powers, NoKey, Keys
  <2> QED
    BY <1>4, <2>1 DEF CallType, Call, ChatKeys
<1> HIDE DEF q
<1>6. NetType'
  <2>1. calls' \subseteq CallType
    BY <1>1, <1>2, <1>5 DEF q
  <2>2. ASSUME NEW r \in calls'
        PROVE  /\ r.answer <= requests'
               /\ r.method \in {"getDhConfig", "discard"} <=> r.answer # NoRequest
               /\ r.method # "getDhConfig" => r.chat \in Chats
    <3>1. CASE r = q
      BY <1>4, <3>1 DEF NoRequest
    <3>2. CASE r \in calls
      BY <1>2, <1>3, <3>2 DEF AlwaysInv, Types, NetType
    <3> QED
      BY <1>1, <3>1, <3>2 DEF q
  <2>3. \A a \in answers : /\ a.id <= requests' /\ (a.kind = "accepted" => a.id = NoRequest)
                           /\ a.kind = "kept" => a.id # NoRequest
    BY <1>2, <1>3 DEF AlwaysInv, Types, NetType
  <2> QED
    BY <1>2, <1>3, <2>1, <2>2, <2>3 DEF NetType
<1>7. calls' = calls \cup {q}
  BY <1>1 DEF q
<1>8. IdsInv'
  <2>1. \A r \in calls : r.answer # q.answer
    BY <1>2, <1>4
  <2>2. \A a \in answers : a.id # q.answer
    BY <1>2, <1>4
  <2> QED
    BY <1>7, <2>1, <2>2 DEF AlwaysInv, IdsInv
<1>9. PresentInv'
  <2>1. renames' = 0 => q.answer \in DOMAIN mChats'
    BY <1>3, <1>4, <1>2 DEF Told
  <2> QED
    BY <1>3, <1>7, <2>1 DEF AlwaysInv, PresentInv, Has
<1>10. q.answer = Told \/ q.answer = Told + 1
  BY <1>1, <1>2, <1>4 DEF Told
<1> QED
  BY <1>3, <1>4, <1>6, <1>7, <1>8, <1>9, <1>10

\* The update that is processed is taken from the queue, or stays.
LEMMA Processed ==
  ASSUME Types, updates # <<>>, updates' = Tail(updates) \/ updates' = updates
  PROVE  /\ updates' \in Seq(UpdateType) /\ Pending' \subseteq Pending
         /\ Head(updates) \in Pending /\ Head(updates) \in UpdateType
<1>1. updates \in Seq(UpdateType)
  BY DEF Types, NetType
<1>2. Head(updates) \in UpdateType /\ Head(updates) = updates[1] /\ 1 \in DOMAIN updates
  BY <1>1
<1>3. CASE updates' = updates
  BY <1>1, <1>2, <1>3 DEF Pending
<1>4. CASE updates' = Tail(updates)
  <2>1. Tail(updates) \in Seq(UpdateType)
    BY <1>1
  <2>2. ASSUME NEW i \in DOMAIN Tail(updates)
        PROVE  Tail(updates)[i] = updates[i + 1] /\ i + 1 \in DOMAIN updates
    BY <1>1, <2>1
  <2> QED
    BY <1>2, <1>4, <2>1, <2>2 DEF Pending
<1> QED
  BY <1>3, <1>4

-----------------------------------------------------------------------------
(* The handlers preserve what holds always.                                *)

\* Told is new, and the types of what a handler reads.
LEMMA Fresh ==
  ASSUME AlwaysInv
  PROVE  /\ Told \in Nat /\ Told > requests /\ Told \notin ChatKeys /\ requests \in Nat
         /\ \A t \in Nat : t > requests => t \notin DOMAIN mChats /\ t \notin DOMAIN objects
         /\ mChats \in [DOMAIN mChats -> DOMAIN objects] /\ objects \in [DOMAIN objects -> ObjectType]
         /\ DOMAIN mChats \subseteq ChatKeys \cup 1..requests
         /\ DOMAIN objects \subseteq ChatKeys \cup 1..requests
         /\ \A x \in DOMAIN objects : objects[x].myKey \in -1..requests
         /\ mP \in 0..config /\ stored.p \in 0..config /\ config \in Nat
         /\ repeats \in Nat /\ renames \in Nat
<1>1. requests \in Nat /\ MapType(mChats, objects, requests) /\ ServerType /\ OtherType
  BY DEF AlwaysInv, Types, NetType
<1>2. Told \in Nat /\ Told > requests /\ Told \notin ChatKeys
  BY <1>1, NotIds DEF Told
<1>3. \A t \in Nat : t > requests => t \notin ChatKeys \cup 1..requests
  BY <1>1, NotIds
<1> QED
  BY <1>1, <1>2, <1>3 DEF MapType, ServerType, OtherType

\* NewSecretChat is an object.
LEMMA NewChat == NewSecretChat \in ObjectType
BY DEF NewSecretChat, ObjectType, States, NoKey, Keys, NoPower, Powers

\* FileType of a step that does not save.
LEMMA FileStays ==
  ASSUME AlwaysInv, UNCHANGED stored, requests' \in Nat, requests' >= requests
  PROVE  FileType'
BY DEF FileType, AlwaysInv, Types, NetType

\* messagesCreateEncryptedChat.
LEMMA Creates ==
  ASSUME AlwaysInv, Running, Create
  PROVE  AlwaysInv'
<1> USE Fresh
<1>1. PICK m, o : m = Insert(mChats, Told, Told) /\ o = Insert(objects, Told, NewSecretChat)
  OBVIOUS
<1>2. /\ Cardinality(Unnamed) < Cardinality(FreeChats) /\ Ask("getDhConfig", NoChat)
      /\ mChats' = m /\ objects' = Restrict(o, Range(m)) /\ mP' = mP
      /\ UNCHANGED <<stored, fault, answers, updates, server, config, kills, repeats>>
  BY <1>1 DEF Create, Continue
<1>3. /\ DOMAIN m = DOMAIN mChats \cup {Told} /\ m[Told] = Told
      /\ \A k \in DOMAIN mChats : m[k] = mChats[k] /\ k # Told
      /\ DOMAIN o = DOMAIN objects \cup {Told} /\ o[Told] = NewSecretChat
      /\ \A x \in DOMAIN objects : o[x] = objects[x] /\ x # Told
  BY <1>1 DEF Insert
<1>4. m \in [DOMAIN m -> DOMAIN o] /\ o \in [DOMAIN o -> ObjectType]
  BY <1>1, <1>3, NewChat DEF Insert
<1>5. /\ requests' \in Nat /\ requests' >= Told /\ renames' \in Nat
      /\ NetType' /\ IdsInv' /\ PresentInv'
  <2>1. updates' \in Seq(UpdateType)
    BY <1>2 DEF AlwaysInv, Types, NetType
  <2> QED
    BY <1>2, <1>3, <2>1, Asks DEF ChatKeys
<1>6. PICK q : /\ calls' = calls \cup {q} /\ q.method = "getDhConfig" /\ q.chat = NoChat
               /\ q.answer \in Nat /\ q.answer > requests
               /\ q.answer = Told \/ q.answer = Told + 1
  <2>1. updates' \in Seq(UpdateType)
    BY <1>2 DEF AlwaysInv, Types, NetType
  <2> QED
    BY <1>2, <1>3, <2>1, Asks DEF ChatKeys
<1>n. /\ NewSecretChat.chatId = NoChat /\ NewSecretChat.state = "Init"
      /\ ~NewSecretChat.deleted /\ NewSecretChat.myKey = -1
  BY DEF NewSecretChat
<1>7. MapType(m, o, requests')
  BY <1>3, <1>4, <1>5, <1>n DEF MapType
<1>8. MapInv(m, o, server)
  BY <1>3, <1>n, NotIds DEF AlwaysInv, MapInv, Has
<1>9. IdsKept(m, o)
  BY <1>3 DEF IdsKept
<1>10. CallOf(m, o, q)
  BY <1>3, <1>6, <1>n DEF CallOf, Has
<1>11. KnownInv'
  <2>n. PICK N : N = {q}
    OBVIOUS
  <2>1. calls' \subseteq calls \cup N /\ \A r, p \in N : r = p
    BY <1>6, <2>n
  <2>2. \A r \in N : CallKnown(m, server, r)
    BY <1>6, <2>n DEF CallKnown
  <2>3. \A r \in N, p \in calls : r.method = "request" => p.chat # r.chat
    BY <1>6, <2>n
  <2>4. Pending' \subseteq Pending /\ answers' \subseteq answers
    BY <1>2 DEF Pending
  <2>5. \A c \in Chats : Has(mChats, c) => Has(m, c) \/ Discarded(c)
    BY <1>3 DEF Has
  <2> QED
    BY <1>2, <2>1, <2>2, <2>3, <2>4, <2>5, KnownKept
<1>12. CountInv'
  <2>1. FreeChats \subseteq FreeChats'
    <3>1. \A k \in DOMAIN m : o[m[k]].chatId \notin FreeChats
      BY <1>3, <1>n, FreeIs, NotIds
    <3>2. DOMAIN stored'.chats \cap FreeChats = {} /\ \A r \in calls' : r.chat \notin FreeChats
      BY <1>2, <1>6, FreeIs, NotIds
    <3>3. PICK F \in SUBSET FreeChats : F = FreeChats
      OBVIOUS
    <3>4. F \subseteq FreeChats'
      BY <1>2, <1>4, <3>1, <3>2, <3>3, FreeKept
    <3> QED
      BY <3>3, <3>4
  <2>2. Naming' \subseteq Naming \cup {Told}
    <3>1. SUFFICES ASSUME NEW x \in Naming', x # Told PROVE x \in Naming
      OBVIOUS
    <3>2. /\ x \in DOMAIN objects' /\ objects'[x].state = "Init" /\ objects'[x].chatId = NoChat
      BY DEF Naming, Unnamed
    <3>3. PICK r \in calls' : r.method = "getDhConfig" /\ r.answer \in DOMAIN m /\ m[r.answer] = x
      BY <1>2 DEF Naming, Has
    <3>4. r.answer # Told /\ r.answer \in DOMAIN mChats /\ mChats[r.answer] = x
      BY <1>3, <3>1, <3>3
    <3>5. r \in calls
      BY <1>6, <3>3, <3>4
    <3>6. x \in DOMAIN objects /\ objects[x].state = "Init" /\ objects[x].chatId = NoChat
      <4>1. objects'[x] = o[x]
        BY <1>2, <1>4, <3>2, Restricted
      <4> QED
        BY <1>3, <3>2, <3>4, <4>1
    <3> QED
      BY <3>3, <3>4, <3>5, <3>6 DEF Naming, Unnamed, Has
  <2>3. Cardinality(Naming') <= Cardinality(Naming) + 1 /\ Cardinality(Naming') \in Nat
    <3>1. IsFiniteSet(Naming) /\ Cardinality(Naming) \in Nat
      BY NamingFinite DEF AlwaysInv
    <3>2. IsFiniteSet(Naming \cup {Told}) /\ Cardinality(Naming \cup {Told}) <= Cardinality(Naming) + 1
      <4>1. /\ IsFiniteSet(Naming \cup {Told})
            /\ Cardinality(Naming \cup {Told}) =
                 IF Told \in Naming THEN Cardinality(Naming) ELSE Cardinality(Naming) + 1
        BY <3>1, FS_AddElement
      <4> QED
        BY <3>1, <4>1
    <3> QED
      BY <2>2, <3>1, <3>2, FS_Subset, FS_CardinalityType
  <2>4. Cardinality(FreeChats) <= Cardinality(FreeChats') /\ Cardinality(FreeChats) \in Nat
        /\ Cardinality(FreeChats') \in Nat
    <3>1. FreeChats' \in SUBSET Chats /\ FreeChats \in SUBSET Chats
      BY DEF FreeChats
    <3> QED
      BY <2>1, <3>1, FreeFinite, FS_Subset
  <2>5. Cardinality(Naming) <= Cardinality(Unnamed) /\ Cardinality(Unnamed) \in Nat
        /\ Cardinality(Naming) \in Nat
    BY NamingFinite DEF AlwaysInv
  <2> QED
    BY <1>2, <2>3, <2>4, <2>5 DEF CountInv
<1>13. FileType'
  BY <1>2, <1>5, FileStays
<1> QED
  BY <1>2, <1>5, <1>6, <1>7, <1>8, <1>9, <1>10, <1>11, <1>12, <1>13, ClientStep

\* CountInv of a handler that names no object, and asks for N.
LEMMA CountStep ==
  ASSUME AlwaysInv, NEW m, NEW o, NEW n \in Nat, MapType(m, o, n), IdsKept(m, o),
         mChats' = m, objects' = Restrict(o, Range(m)), UNCHANGED server,
         \A k \in DOMAIN m : o[m[k]].chatId \notin FreeChats,
         DOMAIN stored'.chats \cap FreeChats = {},
         NEW N, calls' \subseteq calls \cup N, \A r \in N : r.chat \notin FreeChats,
         \A r \in N : r.method = "getDhConfig" /\ Has(m, r.answer) => o[m[r.answer]].chatId # NoChat
  PROVE  CountInv'
<1>1. \A r \in calls' : r.chat \notin FreeChats
  BY FreeIs
<1>2. FreeChats \subseteq FreeChats'
  <2>1. PICK F \in SUBSET FreeChats : F = FreeChats
    OBVIOUS
  <2>2. /\ \A k \in DOMAIN m : o[m[k]].chatId \notin F
        /\ DOMAIN stored'.chats \cap F = {} /\ \A r \in calls' : r.chat \notin F
    BY <1>1, <2>1
  <2>3. F \subseteq FreeChats'
    BY <2>2, FreeKept DEF MapType
  <2> QED
    BY <2>1, <2>3
<1>3. Naming' \subseteq Naming
  <2>1. \A r \in calls' : \/ r \in calls \/ r.method # "getDhConfig"
                          \/ Has(m, r.answer) => o[m[r.answer]].chatId # NoChat
    OBVIOUS
  <2> QED
    BY <2>1, NamingKept
<1> QED
  BY <1>2, <1>3, CountKept

\* A chat with an entry, a file record or a server record is not free.
LEMMA OldIsUsed ==
  ASSUME AlwaysInv
  PROVE  /\ \A k \in DOMAIN mChats : objects[mChats[k]].chatId \notin FreeChats
         /\ DOMAIN stored.chats \cap FreeChats = {}
         /\ \A c \in DOMAIN mChats : c \notin FreeChats
         /\ NoChat \notin FreeChats
         /\ \A c \in Chats : server[c].status # "none" => c \notin FreeChats
<1>1. NoChat \notin FreeChats
  BY NotIds, Fresh DEF FreeChats
<1> QED
  BY <1>1, FreeIs

\* The network of a handler that asks for N, which have no identifier, and loses the
\* entry id of the request that was answered.
LEMMA NetKept ==
  ASSUME AlwaysInv, NEW id \in Nat, NEW m, mChats' = m,
         DOMAIN mChats \cap 1..requests \subseteq DOMAIN m \cup {id},
         UNCHANGED <<requests, renames>>, updates' \in Seq(UpdateType), answers' \subseteq answers,
         NEW N \in SUBSET CallType, calls' \subseteq calls \cup N,
         \A q \in N : q.answer = NoRequest /\ q.method \in {"request", "accept"} /\ q.chat \in Chats,
         \A r \in calls' : r.answer # NoRequest => r.answer # id,
         \A a \in answers' : a.id # NoRequest => a.id # id
  PROVE  NetType' /\ IdsInv' /\ PresentInv'
<1>1. /\ requests \in Nat /\ calls \subseteq CallType /\ answers \subseteq AnswerType
      /\ \A r \in calls : /\ r.answer \in Nat /\ r.answer <= requests
                          /\ r.method \in {"getDhConfig", "discard"} <=> r.answer # NoRequest
                          /\ r.method # "getDhConfig" => r.chat \in Chats
      /\ \A a \in answers : a.id \in Nat /\ a.id <= requests /\ (a.kind = "accepted" => a.id = NoRequest)
      /\ \A a \in answers : a.kind = "kept" => a.id # NoRequest
  BY DEF AlwaysInv, Types, NetType, CallType, AnswerType
<1>2. ASSUME NEW r \in calls'
      PROVE  /\ r.answer <= requests
             /\ r.method \in {"getDhConfig", "discard"} <=> r.answer # NoRequest
             /\ r.method # "getDhConfig" => r.chat \in Chats
  <2>1. CASE r \in calls
    BY <1>1, <2>1
  <2>2. CASE r \in N
    BY <1>1, <2>2 DEF NoRequest
  <2> QED
    BY <2>1, <2>2
<1>3. NetType'
  BY <1>1, <1>2 DEF NetType
<1>4. \A r \in calls' : r.answer # NoRequest => r \in calls
  OBVIOUS
<1>5. IdsInv'
  BY <1>4 DEF AlwaysInv, IdsInv
<1>6. PresentInv'
  <2>1. SUFFICES ASSUME renames = 0
                 PROVE  /\ \A r \in calls' : r.answer # NoRequest => r.answer \in DOMAIN m
                        /\ \A a \in answers' : a.id # NoRequest => a.id \in DOMAIN m
    BY DEF PresentInv, Has
  <2>2. ASSUME NEW r \in calls', r.answer # NoRequest
        PROVE  r.answer \in DOMAIN m
    <3>1. r \in calls /\ r.answer \in 1..requests
      BY <1>1, <1>4, <2>2 DEF NoRequest
    <3>2. r.answer \in DOMAIN mChats
      BY <2>1, <2>2, <3>1 DEF AlwaysInv, PresentInv, Has
    <3> QED
      BY <2>2, <3>1, <3>2
  <2>3. ASSUME NEW a \in answers', a.id # NoRequest
        PROVE  a.id \in DOMAIN m
    <3>1. a \in answers /\ a.id \in 1..requests
      BY <1>1, <2>3 DEF NoRequest
    <3>2. a.id \in DOMAIN mChats
      BY <2>1, <2>3, <3>1 DEF AlwaysInv, PresentInv, Has
    <3> QED
      BY <2>3, <3>1, <3>2
  <2> QED
    BY <2>2, <2>3
<1> QED
  BY <1>3, <1>5, <1>6

\* A handler that ends the process changes nothing else of the client.
LEMMA Faults ==
  ASSUME AlwaysInv, NEW kind \in {"assert", "deleted", "null"}, NEW c \in ChatKeys, Fault(kind, c),
         renames > 0 \/ (c \in Chats /\ Discarded(c)),
         UNCHANGED <<requests, server, config, kills, renames>>,
         repeats' \in Nat, NetType', IdsInv', PresentInv', KnownInv', CountInv',
         answers' \subseteq answers, \A r \in calls' : r \in calls \/ r.answer = NoRequest
  PROVE  AlwaysInv'
<1>1. UNCHANGED clientVars /\ fault' = [kind |-> kind, chat |-> c]
  BY DEF Fault
<1> USE DEF clientVars
<1>2. Types'
  <2>1. FileType'
    BY <1>1 DEF AlwaysInv, Types, FileType
  <2>2. ServerType'
    BY <1>1 DEF AlwaysInv, Types, ServerType
  <2>3. OtherType'
    BY <1>1 DEF AlwaysInv, Types, OtherType, ChatKeys
  <2> QED
    BY <1>1, <2>1, <2>2, <2>3 DEF AlwaysInv, Types
<1>3. MapInv(mChats', objects', server')
  BY <1>1 DEF AlwaysInv
<1>4. EntriesInv'
  <2>1. 0 \notin DOMAIN mChats
    BY Fresh, NotIds
  <2>2. \A r : CallOf(mChats', objects', r) <=> CallOf(mChats, objects, r)
    BY <1>1
  <2>3. \A a : AnswerOf(mChats', objects', a) <=> AnswerOf(mChats, objects, a)
    BY <1>1
  <2>4. \A r : r.answer = NoRequest => CallOf(mChats, objects, r)
    BY <2>1 DEF NoRequest, CallOf, Has
  <2> QED
    BY <2>2, <2>3, <2>4 DEF AlwaysInv, EntriesInv
<1>5. FaultInv'
  BY <1>1 DEF FaultInv, Discarded
<1> QED
  BY <1>2, <1>3, <1>4, <1>5 DEF AlwaysInv

\* The chat c is asked to be discarded; its object may have another key then.
AsksFor(m, o, c) ==
  /\ m = Insert(mChats, Told, mChats[c]) /\ o \in [DOMAIN objects -> ObjectType]
  /\ \A x \in DOMAIN objects :
       /\ o[x].chatId = objects[x].chatId /\ o[x].state = objects[x].state
       /\ o[x].deleted = objects[x].deleted /\ o[x].myKey = objects[x].myKey

\* messagesDiscardEncryptedChat, for the user or for a key that does not fit.
LEMMA AsksToDiscard ==
  ASSUME AlwaysInv, Running, NEW c \in Chats, c \in DOMAIN mChats, server[c].status # "none",
         Ask("discard", c), NEW m, NEW o, AsksFor(m, o, c),
         mChats' = m, objects' = Restrict(o, Range(m)),
         UNCHANGED <<mP, stored, fault, answers, server, config, kills>>,
         updates' \in Seq(UpdateType), Pending' \subseteq Pending, repeats' \in Nat
  PROVE  AlwaysInv'
<1>m. /\ m = Insert(mChats, Told, mChats[c]) /\ o \in [DOMAIN objects -> ObjectType]
      /\ \A x \in DOMAIN objects :
           /\ o[x].chatId = objects[x].chatId /\ o[x].state = objects[x].state
           /\ o[x].deleted = objects[x].deleted /\ o[x].myKey = objects[x].myKey
  BY DEF AsksFor
<1>f. /\ Told \in Nat /\ Told > requests /\ Told \notin ChatKeys /\ requests \in Nat
      /\ \A t \in Nat : t > requests => t \notin DOMAIN mChats /\ t \notin DOMAIN objects
      /\ mChats \in [DOMAIN mChats -> DOMAIN objects]
      /\ DOMAIN mChats \subseteq ChatKeys \cup 1..requests
      /\ DOMAIN objects \subseteq ChatKeys \cup 1..requests
      /\ \A x \in DOMAIN objects : objects[x].myKey \in -1..requests
      /\ mP \in 0..config /\ stored.p \in 0..config
  BY Fresh
<1>3. /\ DOMAIN m = DOMAIN mChats \cup {Told} /\ m[Told] = mChats[c]
      /\ \A k \in DOMAIN mChats : m[k] = mChats[k] /\ k # Told
  BY <1>f, <1>m DEF Insert
<1>4. m \in [DOMAIN m -> DOMAIN o] /\ DOMAIN o = DOMAIN objects /\ o \in [DOMAIN o -> ObjectType]
  BY <1>3, <1>f, <1>m DEF Insert
<1>5. /\ requests' \in Nat /\ requests' >= Told /\ renames' \in Nat
      /\ NetType' /\ IdsInv' /\ PresentInv'
  BY <1>3, Asks DEF ChatKeys
<1>6. PICK q : /\ calls' = calls \cup {q} /\ q.method = "discard" /\ q.chat = c
               /\ q.answer \in Nat /\ q.answer > requests
               /\ q.answer = Told \/ q.answer = Told + 1
  BY <1>3, Asks DEF ChatKeys
<1>7. MapType(m, o, requests')
  <2>1. \A x \in DOMAIN o : o[x].myKey \in -1..requests'
    BY <1>4, <1>5, <1>f, <1>m
  <2> QED
    BY <1>f, <1>3, <1>4, <1>5, <2>1 DEF MapType
<1>c. objects[mChats[c]].chatId = c /\ c # NoChat
  BY <1>f, NotIds DEF AlwaysInv, MapInv, ChatKeys
<1>e. \A k \in DOMAIN m :
        \/ k \in DOMAIN mChats /\ k # Told /\ m[k] = mChats[k]
        \/ k = Told /\ m[k] = mChats[c]
  BY <1>3
<1>8. MapInv(m, o, server)
  <2>1. \A k \in DOMAIN m \cap ChatKeys : o[m[k]].chatId = k /\ ~o[m[k]].deleted
    BY <1>e, <1>m, <1>f DEF AlwaysInv, MapInv
  <2>2. \A j, k \in DOMAIN m : m[j] = m[k] /\ o[m[k]].chatId = NoChat => j = k
    BY <1>e, <1>m, <1>c, <1>f DEF AlwaysInv, MapInv
  <2>3. \A k \in DOMAIN m :
          /\ o[m[k]].chatId = NoChat => o[m[k]].state = "Init" /\ ~o[m[k]].deleted
          /\ o[m[k]].deleted => server[o[m[k]].chatId].status = "discarded"
          /\ o[m[k]].chatId \in Chats =>
               Has(m, o[m[k]].chatId) \/ server[o[m[k]].chatId].status = "discarded"
    <3>1. SUFFICES ASSUME NEW k \in DOMAIN m
                   PROVE  /\ o[m[k]].chatId = NoChat => o[m[k]].state = "Init" /\ ~o[m[k]].deleted
                          /\ o[m[k]].deleted => server[o[m[k]].chatId].status = "discarded"
                          /\ o[m[k]].chatId \in Chats =>
                               Has(m, o[m[k]].chatId) \/ server[o[m[k]].chatId].status = "discarded"
      OBVIOUS
    <3>2. PICK j \in DOMAIN mChats : m[k] = mChats[j]
      BY <1>e, <1>m, <1>f
    <3>3. PICK y : y = objects[mChats[j]]
      OBVIOUS
    <3>4. /\ y.chatId = NoChat => y.state = "Init" /\ ~y.deleted
          /\ y.deleted => server[y.chatId].status = "discarded"
          /\ y.chatId \in Chats => Has(mChats, y.chatId) \/ server[y.chatId].status = "discarded"
      BY <3>2, <3>3 DEF AlwaysInv, MapInv
    <3>5. o[m[k]].chatId = y.chatId /\ o[m[k]].state = y.state /\ o[m[k]].deleted = y.deleted
      BY <3>2, <3>3, <1>f, <1>m
    <3> QED
      BY <1>3, <3>4, <3>5 DEF Has
  <2> QED
    BY <2>1, <2>2, <2>3 DEF MapInv
<1>9. IdsKept(m, o)
  BY <1>3, <1>f, <1>m DEF IdsKept
<1>10. CallOf(m, o, q)
  BY <1>f, <1>m, <1>3, <1>6, <1>c DEF CallOf, Has
<1>n. PICK N : N = {q}
  OBVIOUS
<1>11. KnownInv'
  <2>1. calls' \subseteq calls \cup N /\ \A r, p \in N : r = p
    BY <1>6, <1>n
  <2>2. \A r \in N : CallKnown(m, server, r)
    BY <1>6, <1>n DEF CallKnown
  <2>3. \A r \in N, p \in calls : r.method = "request" => p.chat # r.chat
    BY <1>6, <1>n
  <2>5. \A d \in Chats : Has(mChats, d) => Has(m, d) \/ Discarded(d)
    BY <1>3 DEF Has
  <2>6. mChats' = m /\ answers' \subseteq answers /\ UNCHANGED server
    OBVIOUS
  <2> QED
    BY <2>1, <2>2, <2>3, <2>5, <2>6, KnownKept
<1>12. CountInv'
  <2>1. \A k \in DOMAIN m : o[m[k]].chatId \notin FreeChats
    BY <1>e, <1>m, <1>f, OldIsUsed
  <2>2. DOMAIN stored'.chats \cap FreeChats = {}
    BY OldIsUsed
  <2>3. calls' \subseteq calls \cup N /\ \A r \in N : r.chat \notin FreeChats
    BY <1>6, <1>n, OldIsUsed
  <2>4. \A r \in N : r.method = "getDhConfig" /\ Has(m, r.answer) => o[m[r.answer]].chatId # NoChat
    BY <1>6, <1>n
  <2>5. mChats' = m /\ objects' = Restrict(o, Range(m)) /\ UNCHANGED server
    OBVIOUS
  <2>6. PICK n \in Nat : n = requests'
    BY <1>5
  <2>7. MapType(m, o, n) /\ IdsKept(m, o) /\ n \in Nat
    BY <1>7, <1>9, <2>6
  <2> QED
    BY <2>1, <2>2, <2>3, <2>4, <2>5, <2>7, CountStep
<1>13. FileType'
  BY <1>f, <1>5, FileStays
<1>14. /\ mChats' = m /\ objects' = Restrict(o, Range(m)) /\ repeats' \in Nat
       /\ UNCHANGED <<server, config, kills, fault>> /\ answers' \subseteq answers
       /\ mP' \in 0..config /\ stored'.p \in 0..config
  BY <1>f
<1>15. \A r \in calls' : r \in calls \/ CallOf(m, o, r)
  BY <1>6, <1>10
<1> QED
  BY <1>5, <1>7, <1>8, <1>9, <1>11, <1>12, <1>13, <1>14, <1>15, ClientStep

\* The user discards a chat.
LEMMA UserDiscards ==
  ASSUME AlwaysInv, Running, NEW c \in Chats, UserDiscard(c)
  PROVE  AlwaysInv'
<1>1. PICK m, o : m = Insert(mChats, Told, mChats[c]) /\ o = objects
  OBVIOUS
<1>2. /\ server[c].status # "none" /\ c \in DOMAIN mChats /\ Ask("discard", c)
      /\ mChats' = m /\ objects' = Restrict(o, Range(m))
      /\ UNCHANGED <<mP, stored, fault, answers, server, config, kills>>
  BY <1>1 DEF UserDiscard, Continue, Has
<1>3. updates' \in Seq(UpdateType) /\ Pending' \subseteq Pending /\ repeats' \in Nat
  <2>1. UNCHANGED <<updates, repeats>>
    BY DEF UserDiscard
  <2> QED
    BY <2>1, Fresh DEF AlwaysInv, Types, NetType, Pending
<1>4. AsksFor(m, o, c)
  BY <1>1, Fresh DEF AsksFor
<1> QED
  BY <1>2, <1>3, <1>4, AsksToDiscard

\* What writeSecretFile meets: a deleted object, or none.
LEMMA Saves ==
  ASSUME NEW m, NEW o, NEW p, NEW after, SaveThen(m, o, p, after),
         \A k \in DOMAIN m : o[m[k]].deleted => o[m[k]].chatId \in Chats /\ Discarded(o[m[k]].chatId)
  PROVE  \/ \E c \in Chats : Fault("deleted", c) /\ Discarded(c)
         \/ /\ \A k \in DOMAIN m : ~o[m[k]].deleted
            /\ mChats' = m /\ objects' = Restrict(after, Range(m)) /\ mP' = p
            /\ stored' = File(m, o, p) /\ UNCHANGED fault
<1> DEFINE dangling == {k \in DOMAIN m : o[m[k]].deleted}
<1>1. CASE dangling # {}
  <2>1. PICK k : k = CHOOSE x \in dangling : TRUE
    OBVIOUS
  <2>2. k \in DOMAIN m /\ o[m[k]].deleted
    BY <1>1, <2>1
  <2>3. Fault("deleted", o[m[k]].chatId)
    BY <1>1, <2>1 DEF SaveThen
  <2> QED
    BY <2>2, <2>3
<1>2. CASE dangling = {}
  BY <1>2 DEF SaveThen
<1> QED
  BY <1>1, <1>2

\* The map as it is.
LEMMA Unmoved ==
  ASSUME AlwaysInv
  PROVE  /\ objects = Restrict(objects, Range(mChats))
         /\ MapType(mChats, objects, requests) /\ MapInv(mChats, objects, server)
         /\ IdsKept(mChats, objects)
<1>1. objects = Restrict(objects, Range(mChats))
  BY Fresh DEF AlwaysInv, Types, Restrict
<1>2. IdsKept(mChats, objects)
  BY DEF IdsKept
<1> QED
  BY <1>1, <1>2 DEF AlwaysInv, Types

\* A handler that saves, if it is to.
LEMMA SaveStep ==
  ASSUME AlwaysInv, Running, NEW m, NEW o, NEW after, NEW p \in 0..config, SaveThen(m, o, p, after),
         MapType(m, o, requests), MapType(m, after, requests), MapInv(m, after, server),
         IdsKept(m, after),
         \A k \in DOMAIN m : o[m[k]].deleted => o[m[k]].chatId \in Chats /\ Discarded(o[m[k]].chatId),
         \A k \in DOMAIN m : o[m[k]].chatId = NoChat => o[m[k]].state = "Init",
         NEW id \in Nat, DOMAIN mChats \cap 1..requests \subseteq DOMAIN m \cup {id},
         \A c \in Chats : Has(mChats, c) => Has(m, c) \/ Discarded(c),
         UNCHANGED <<requests, renames, server, config, kills>>, repeats' \in Nat,
         updates' \in Seq(UpdateType), Pending' \subseteq Pending, answers' \subseteq answers,
         NEW N \in SUBSET CallType, calls' \subseteq calls \cup N, \A r, q \in N : r = q,
         \A q \in N : q.answer = NoRequest /\ q.method \in {"request", "accept"} /\ q.chat \in Chats,
         \A q \in N : CallKnown(m, server, q), \A q \in N : CallKnown(mChats, server, q),
         \A q \in N, r \in calls : q.method = "request" => r.chat # q.chat,
         \A r \in calls' : r.answer # NoRequest => r.answer # id,
         \A a \in answers' : a.id # NoRequest => a.id # id,
         CountInv'
  PROVE  AlwaysInv'
<1> USE Fresh
<1>1. CASE \E c \in Chats : Fault("deleted", c) /\ Discarded(c)
  <2>1. PICK c \in Chats : Fault("deleted", c) /\ Discarded(c)
    BY <1>1
  <2>2. PICK w : w = mChats
    OBVIOUS
  <2>3. mChats' = w /\ DOMAIN mChats \cap 1..requests \subseteq DOMAIN w \cup {id}
    BY <2>1, <2>2 DEF Fault, clientVars
  <2>4. NetType' /\ IdsInv' /\ PresentInv'
    BY <2>3, NetKept
  <2>5. /\ \A q \in N : CallKnown(w, server, q)
        /\ \A d \in Chats : Has(mChats, d) => Has(w, d) \/ Discarded(d)
    BY <2>2
  <2>6. KnownInv'
    BY <2>3, <2>5, KnownKept
  <2>7. c \in ChatKeys /\ \A r \in calls' : r \in calls \/ r.answer = NoRequest
    BY DEF ChatKeys
  <2> QED
    BY <2>1, <2>4, <2>6, <2>7, Faults
<1>2. CASE /\ \A k \in DOMAIN m : ~o[m[k]].deleted
           /\ mChats' = m /\ objects' = Restrict(after, Range(m)) /\ mP' = p
           /\ stored' = File(m, o, p) /\ UNCHANGED fault
  <2>1. NetType' /\ IdsInv' /\ PresentInv'
    BY <1>2, NetKept
  <2>2. KnownInv'
    BY <1>2, KnownKept
  <2>3. /\ FileType' /\ stored'.p = p
    <3>1. \A k \in DOMAIN m : ~o[m[k]].deleted /\ (o[m[k]].chatId = NoChat => o[m[k]].state = "Init")
      BY <1>2
    <3>2. requests' = requests /\ stored' = File(m, o, p) /\ Types
      BY <1>2 DEF AlwaysInv
    <3> QED
      BY <3>1, <3>2, Written
  <2>4. \A r \in calls' : r \in calls \/ CallOf(m, after, r)
    <3>1. 0 \notin DOMAIN m
      BY NotIds DEF MapType
    <3> QED
      BY <3>1 DEF CallOf, Has, NoRequest
  <2> QED
    BY <1>2, <2>1, <2>2, <2>3, <2>4, ClientStep
<1> QED
  BY <1>1, <1>2, Saves

\* CountInv of a handler that saves and names no object.
LEMMA CountSaved ==
  ASSUME AlwaysInv, NEW m, NEW o, NEW after, NEW p, SaveThen(m, o, p, after),
         MapType(m, o, requests), MapType(m, after, requests), IdsKept(m, after),
         \A k \in DOMAIN m : o[m[k]].deleted => o[m[k]].chatId \in Chats /\ Discarded(o[m[k]].chatId),
         \A k \in DOMAIN m : after[m[k]].chatId = o[m[k]].chatId /\ o[m[k]].chatId \notin FreeChats,
         UNCHANGED server, NEW N, calls' \subseteq calls \cup N,
         \A r \in N : r.chat \notin FreeChats /\ r.method # "getDhConfig"
  PROVE  CountInv'
<1> USE Fresh
<1>1. CASE \E c \in Chats : Fault("deleted", c) /\ Discarded(c)
  <2>1. PICK v, w : v = mChats /\ w = objects
    OBVIOUS
  <2>2. mChats' = v /\ objects' = w /\ stored' = stored
    BY <1>1, <2>1 DEF Fault, clientVars
  <2>3. /\ objects' = Restrict(w, Range(v)) /\ MapType(v, w, requests) /\ IdsKept(v, w)
    BY <2>1, <2>2, Unmoved
  <2>4. /\ \A k \in DOMAIN v : w[v[k]].chatId \notin FreeChats
        /\ DOMAIN stored'.chats \cap FreeChats = {}
    BY <2>1, <2>2, OldIsUsed
  <2>5. /\ \A r \in N : r.chat \notin FreeChats
        /\ \A r \in N : r.method = "getDhConfig" /\ Has(v, r.answer) => w[v[r.answer]].chatId # NoChat
    OBVIOUS
  <2>6. requests \in Nat /\ UNCHANGED server /\ calls' \subseteq calls \cup N
    OBVIOUS
  <2>7. mChats' = v /\ objects' = Restrict(w, Range(v))
    BY <2>2, <2>3
  <2>8. MapType(v, w, requests) /\ IdsKept(v, w)
    BY <2>3
  <2> QED
    BY <2>4, <2>5, <2>6, <2>7, <2>8, CountStep
<1>2. CASE /\ \A k \in DOMAIN m : ~o[m[k]].deleted
           /\ mChats' = m /\ objects' = Restrict(after, Range(m)) /\ mP' = p
           /\ stored' = File(m, o, p) /\ UNCHANGED fault
  <2>1. DOMAIN stored'.chats = {o[m[k]].chatId : k \in DOMAIN m}
    BY <1>2, Filed DEF MapType
  <2>2. DOMAIN stored'.chats \cap FreeChats = {}
    BY <2>1
  <2>3. \A k \in DOMAIN m : after[m[k]].chatId \notin FreeChats
    OBVIOUS
  <2> QED
    BY <1>2, <2>2, <2>3, CountStep
<1> QED
  BY <1>1, <1>2, Saves

\* The entry of an object that has no chat yet is of its request alone.
LEMMA NamingOnce ==
  ASSUME AlwaysInv, NEW r \in calls, r.method = "getDhConfig", Has(mChats, r.answer),
         objects[mChats[r.answer]].chatId = NoChat
  PROVE  \A q \in calls : Has(mChats, q.answer) /\ mChats[q.answer] = mChats[r.answer] => q = r
<1>1. r.answer # NoRequest
  BY DEF AlwaysInv, Types, NetType
<1>2. SUFFICES ASSUME NEW q \in calls, Has(mChats, q.answer), mChats[q.answer] = mChats[r.answer]
               PROVE  q = r
  OBVIOUS
<1>3. q.answer = r.answer
  BY <1>2 DEF AlwaysInv, MapInv, Has
<1> QED
  BY <1>1, <1>3 DEF AlwaysInv, IdsInv

\* A chat without a record is free for the object that is to be named.
LEMMA NextIsFree ==
  ASSUME AlwaysInv, NEW x \in Naming
  PROVE  NextChat \in FreeChats /\ Cardinality(Naming \ {x}) <= Cardinality(FreeChats) - 1
<1>1. IsFiniteSet(Naming) /\ Cardinality(Naming) \in Nat
  BY NamingFinite DEF AlwaysInv
<1>2. Cardinality(Naming \ {x}) = Cardinality(Naming) - 1 /\ Cardinality(Naming \ {x}) \in Nat
  BY <1>1, FS_RemoveElement, FS_CardinalityType
<1>3. FreeChats \in SUBSET Chats
  BY DEF FreeChats
<1>4. Cardinality(FreeChats) \in Nat /\ (Cardinality(FreeChats) > 0 => FreeChats # {})
  BY <1>3, FreeFinite
<1>5. Cardinality(Naming) <= Cardinality(FreeChats)
  BY DEF AlwaysInv, CountInv
<1> QED
  BY <1>1, <1>2, <1>4, <1>5 DEF NextChat

\* CountInv of the step that gives the object x the chat d.
LEMMA CountNamed ==
  ASSUME AlwaysInv, NEW x \in Naming, NEW d \in FreeChats, Naming' \subseteq Naming \ {x},
         FreeChats \ {d} \subseteq FreeChats'
  PROVE  CountInv'
<1>1. Cardinality(Naming \ {x}) <= Cardinality(FreeChats) - 1
  BY NextIsFree
<1>2. IsFiniteSet(Naming \ {x}) /\ Cardinality(Naming \ {x}) \in Nat
  <2>1. IsFiniteSet(Naming)
    BY NamingFinite DEF AlwaysInv
  <2> QED
    BY <2>1, FS_Subset, FS_CardinalityType
<1>3. Cardinality(Naming') <= Cardinality(Naming \ {x}) /\ Cardinality(Naming') \in Nat
  BY <1>2, FS_Subset, FS_CardinalityType
<1>4. FreeChats \in SUBSET Chats /\ FreeChats' \in SUBSET Chats
  BY DEF FreeChats
<1>5. IsFiniteSet(FreeChats) /\ IsFiniteSet(FreeChats') /\ Cardinality(FreeChats) \in Nat
      /\ Cardinality(FreeChats') \in Nat
  BY <1>4, FreeFinite
<1>6. Cardinality(FreeChats \ {d}) = Cardinality(FreeChats) - 1
  BY <1>5, FS_RemoveElement
<1>7. Cardinality(FreeChats \ {d}) <= Cardinality(FreeChats')
  BY <1>5, FS_Subset
<1>8. Cardinality(FreeChats \ {d}) \in Nat
  BY <1>5, FS_Subset, FS_CardinalityType
<1> QED
  BY <1>1, <1>2, <1>3, <1>5, <1>6, <1>7, <1>8 DEF CountInv

\* What else a handler leaves.
Quiet ==
  /\ UNCHANGED <<requests, renames, server, config, kills>> /\ repeats' \in Nat
  /\ updates' \in Seq(UpdateType) /\ Pending' \subseteq Pending /\ answers' \subseteq answers

\* A handler that ends the process, of a discarded chat or after a new identifier.
LEMMA FaultStep ==
  ASSUME AlwaysInv, NEW kind \in {"assert", "deleted", "null"}, NEW c \in ChatKeys, Fault(kind, c),
         renames > 0 \/ (c \in Chats /\ Discarded(c)), Quiet, calls' \subseteq calls
  PROVE  AlwaysInv'
<1>1. /\ UNCHANGED <<requests, renames, server, config, kills>> /\ repeats' \in Nat
      /\ updates' \in Seq(UpdateType) /\ Pending' \subseteq Pending /\ answers' \subseteq answers
      /\ requests \in Nat
  BY Fresh DEF Quiet
<1>5. PICK v, w, N : v = mChats /\ w = objects /\ N = {}
  OBVIOUS
<1>6. /\ mChats' = v /\ objects' = w /\ stored' = stored /\ N \in SUBSET CallType
      /\ calls' \subseteq calls \cup N
  BY <1>5 DEF Fault, clientVars
<1>7. NetType' /\ IdsInv' /\ PresentInv'
  <2>1. DOMAIN mChats \cap 1..requests \subseteq DOMAIN v \cup {0} /\ 0 \in Nat
    BY <1>5
  <2>2. updates' \in Seq(UpdateType) /\ answers' \subseteq answers /\ UNCHANGED <<requests, renames>>
    BY <1>1
  <2>3. \A q \in N : q.answer = NoRequest /\ q.method \in {"request", "accept"} /\ q.chat \in Chats
    BY <1>5
  <2>4. /\ \A q \in calls' : q.answer # NoRequest => q.answer # 0
        /\ \A a \in answers' : a.id # NoRequest => a.id # 0
    BY DEF NoRequest
  <2> QED
    BY <1>6, <2>1, <2>2, <2>3, <2>4, NetKept
<1>8. KnownInv'
  <2>1. Pending' \subseteq Pending /\ answers' \subseteq answers /\ UNCHANGED server
    BY <1>1
  <2>2. /\ \A d \in Chats : Has(mChats, d) => Has(v, d) \/ Discarded(d)
        /\ \A q \in N : CallKnown(v, server, q)
        /\ \A q \in N, p \in calls : q.method = "request" => p.chat # q.chat
        /\ \A q, p \in N : q = p
    BY <1>5
  <2> QED
    BY <1>6, <2>1, <2>2, KnownKept
<1>9. CountInv'
  <2>1. objects' = Restrict(w, Range(v)) /\ MapType(v, w, requests) /\ IdsKept(v, w)
    BY <1>5, <1>6, Unmoved
  <2>2. /\ \A k \in DOMAIN v : w[v[k]].chatId \notin FreeChats
        /\ DOMAIN stored'.chats \cap FreeChats = {}
    BY <1>5, <1>6, OldIsUsed
  <2>3. /\ \A q \in N : q.chat \notin FreeChats
        /\ \A q \in N : q.method = "getDhConfig" /\ Has(v, q.answer) => w[v[q.answer]].chatId # NoChat
    BY <1>5
  <2>4. mChats' = v /\ UNCHANGED server /\ calls' \subseteq calls \cup N /\ requests \in Nat
    BY <1>1, <1>6
  <2> QED
    BY <2>1, <2>2, <2>3, <2>4, CountStep
<1>10. \A r \in calls' : r \in calls \/ r.answer = NoRequest
  OBVIOUS
<1> QED
  BY <1>1, <1>7, <1>8, <1>9, <1>10, Faults

\* The configuration comes for a request without an entry, or for an object
\* that was deleted.
LEMMA DhConfigFaults ==
  ASSUME AlwaysInv, Running, NEW r \in calls, OnMessagesDhConfig(r),
         ~Has(mChats, r.answer) \/ objects[mChats[r.answer]].deleted
  PROVE  AlwaysInv'
<1> USE Fresh
<1>1. /\ r.method = "getDhConfig" /\ calls' = calls \ {r}
      /\ UNCHANGED <<requests, answers, updates, server, config, kills, repeats, renames>>
  BY DEF OnMessagesDhConfig, boundVars
<1>2. PICK kind \in {"assert", "deleted", "null"} : Fault(kind, r.chat)
  BY DEF OnMessagesDhConfig
<1>3. renames > 0 \/ (r.chat \in Chats /\ Discarded(r.chat))
  <2>1. CASE ~Has(mChats, r.answer)
    <3>1. r.answer # NoRequest
      BY <1>1 DEF AlwaysInv, Types, NetType
    <3> QED
      BY <2>1, <3>1 DEF AlwaysInv, PresentInv
  <2>2. CASE Has(mChats, r.answer) /\ objects[mChats[r.answer]].deleted
    <3>1. objects[mChats[r.answer]].chatId = r.chat
      BY <2>2 DEF AlwaysInv, EntriesInv, CallOf
    <3>2. r.chat \in Chats \cup {NoChat}
      BY DEF AlwaysInv, Types, NetType, CallType
    <3> QED
      BY <2>2, <3>1, <3>2 DEF AlwaysInv, MapInv, Discarded, Has
  <2> QED
    BY <2>1, <2>2
<1>4. r.chat \in ChatKeys
  BY DEF AlwaysInv, Types, NetType, CallType, ChatKeys
<1>5. Quiet
  BY <1>1 DEF Quiet, AlwaysInv, Types, NetType, Pending
<1> QED
  BY <1>1, <1>2, <1>3, <1>4, <1>5, FaultStep


\* The map m of objects w is what a handler saves that takes the entry id, if any.
Moved(m, w, id) ==
  /\ MapType(m, w, requests) /\ MapInv(m, w, server) /\ IdsKept(m, w)
  /\ \A k \in DOMAIN m :
       /\ w[m[k]].deleted => w[m[k]].chatId \in Chats /\ Discarded(w[m[k]].chatId)
       /\ w[m[k]].chatId = NoChat => w[m[k]].state = "Init"
       /\ w[m[k]].chatId \notin FreeChats
  /\ DOMAIN mChats \cap 1..requests \subseteq DOMAIN m \cup {id}
  /\ \A c \in Chats : Has(mChats, c) => Has(m, c)

\* The acceptance that a handler may send.
Acceptances(N) ==
  /\ N \in SUBSET CallType /\ \A q, p \in N : q = p
  /\ \A q \in N : q.answer = NoRequest /\ q.method = "accept" /\ q.chat \in Chats
  /\ \A q \in N : Has(mChats, q.chat) \/ Discarded(q.chat)

\* A handler that saves the map m, and may send an acceptance.
LEMMA SaveMoved ==
  ASSUME AlwaysInv, Running, NEW m, NEW w, NEW p \in 0..config, NEW id \in Nat,
         Moved(m, w, id), SaveThen(m, w, p, w), Quiet, NEW N, Acceptances(N),
         calls' \subseteq calls \cup N,
         \A r \in calls' : r.answer # NoRequest => r.answer # id,
         \A a \in answers' : a.id # NoRequest => a.id # id
  PROVE  AlwaysInv'
<1>1. MapType(m, w, requests) /\ MapInv(m, w, server) /\ IdsKept(m, w)
  BY DEF Moved
<1>2. /\ \A k \in DOMAIN m : w[m[k]].deleted => w[m[k]].chatId \in Chats /\ Discarded(w[m[k]].chatId)
      /\ \A k \in DOMAIN m : w[m[k]].chatId = NoChat => w[m[k]].state = "Init"
      /\ \A k \in DOMAIN m : w[m[k]].chatId \notin FreeChats
  BY DEF Moved
<1>3. /\ DOMAIN mChats \cap 1..requests \subseteq DOMAIN m \cup {id}
      /\ \A c \in Chats : Has(mChats, c) => Has(m, c)
  BY DEF Moved
<1>4. \A c \in Chats : Has(mChats, c) => Has(m, c) \/ Discarded(c)
  BY <1>3
<1>5. UNCHANGED <<requests, renames, server, config, kills>> /\ repeats' \in Nat
  BY DEF Quiet
<1>6. updates' \in Seq(UpdateType) /\ Pending' \subseteq Pending /\ answers' \subseteq answers
  BY DEF Quiet
<1>7. N \in SUBSET CallType /\ \A q, r \in N : q = r
  BY DEF Acceptances
<1>8. /\ \A q \in N : q.answer = NoRequest /\ q.method \in {"request", "accept"} /\ q.chat \in Chats
      /\ \A q \in N : CallKnown(m, server, q)
      /\ \A q \in N : CallKnown(mChats, server, q)
      /\ \A q \in N, r \in calls : q.method = "request" => r.chat # q.chat
      /\ \A q \in N : q.method = "accept"
  BY <1>3 DEF Acceptances, CallKnown, Discarded
<1>9. CountInv'
  <2>1. ASSUME NEW q \in N
        PROVE  q.chat \notin FreeChats /\ q.method # "getDhConfig"
    <3>1. q.chat \in Chats /\ (Has(mChats, q.chat) \/ Discarded(q.chat))
      BY DEF Acceptances
    <3> QED
      BY <1>8, <3>1, OldIsUsed DEF Has, Discarded
  <2>2. \A k \in DOMAIN m : w[m[k]].chatId = w[m[k]].chatId /\ w[m[k]].chatId \notin FreeChats
    BY <1>2
  <2> QED
    BY <1>1, <1>2, <1>5, <2>1, <2>2, CountSaved
<1> QED
  BY <1>1, <1>2, <1>3, <1>4, <1>5, <1>6, <1>7, <1>8, <1>9, SaveStep

\* The entry of a request goes, and the object x is written.
LEMMA Rewritten ==
  ASSUME AlwaysInv, NEW id \in Nat, NEW x \in DOMAIN objects, NEW new \in ObjectType,
         new.chatId = objects[x].chatId, ~new.deleted, ~objects[x].deleted,
         new.myKey \in -1..requests, new.chatId = NoChat => new.state = "Init",
         objects[x].state # "Init" => new.state # "Init",
         NEW m, m = Remove(mChats, id), NEW w, w = [objects EXCEPT ![x] = new]
  PROVE  Moved(m, w, id)
<1> USE Fresh
<1>1. /\ DOMAIN m = DOMAIN mChats \ {id} /\ \A k \in DOMAIN m : m[k] = mChats[k]
      /\ DOMAIN w = DOMAIN objects /\ w[x] = new
      /\ \A y \in DOMAIN objects : y # x => w[y] = objects[y]
  BY DEF Remove
<1>2. m \in [DOMAIN m -> DOMAIN w]
  BY <1>1 DEF Remove
<1>3. \A y \in DOMAIN w : w[y] \in ObjectType /\ w[y].myKey \in -1..requests
  BY <1>1
<1>4. \A k \in DOMAIN m :
        /\ k \in DOMAIN mChats /\ m[k] = mChats[k] /\ m[k] \in DOMAIN objects
        /\ w[m[k]].chatId = objects[m[k]].chatId
        /\ w[m[k]].deleted <=> objects[m[k]].deleted
        /\ objects[m[k]].state # "Init" => w[m[k]].state # "Init"
        /\ objects[m[k]].chatId = NoChat => w[m[k]].state = "Init"
  <2>1. SUFFICES ASSUME NEW k \in DOMAIN m
                 PROVE  /\ k \in DOMAIN mChats /\ m[k] = mChats[k] /\ m[k] \in DOMAIN objects
                        /\ w[m[k]].chatId = objects[m[k]].chatId
                        /\ w[m[k]].deleted <=> objects[m[k]].deleted
                        /\ objects[m[k]].state # "Init" => w[m[k]].state # "Init"
                        /\ objects[m[k]].chatId = NoChat => w[m[k]].state = "Init"
    OBVIOUS
  <2>2. k \in DOMAIN mChats /\ m[k] = mChats[k] /\ m[k] \in DOMAIN objects
    BY <1>1
  <2>3. objects[m[k]].chatId = NoChat => objects[m[k]].state = "Init"
    BY <2>2 DEF AlwaysInv, MapInv
  <2>4. CASE m[k] = x
    BY <1>1, <2>2, <2>4
  <2>5. CASE m[k] # x
    BY <1>1, <2>2, <2>3, <2>5
  <2> QED
    BY <2>4, <2>5
<1>5. MapType(m, w, requests)
  <2>1. w \in [DOMAIN w -> ObjectType]
    BY <1>1, <1>3
  <2>2. DOMAIN m \subseteq ChatKeys \cup 1..requests /\ DOMAIN w \subseteq ChatKeys \cup 1..requests
    BY <1>1
  <2> QED
    BY <1>2, <1>3, <2>1, <2>2 DEF MapType
<1>6. \A c \in ChatKeys : c \in DOMAIN mChats => c \in DOMAIN m
  BY <1>1, NotIds
<1>7. MapInv(m, w, server)
  BY <1>4, <1>6 DEF AlwaysInv, MapInv, Has, ChatKeys
<1>8. IdsKept(m, w)
  BY <1>4 DEF IdsKept
<1>9. \A k \in DOMAIN m : w[m[k]].deleted => w[m[k]].chatId \in Chats /\ Discarded(w[m[k]].chatId)
  <2>1. SUFFICES ASSUME NEW k \in DOMAIN m, w[m[k]].deleted
                 PROVE  w[m[k]].chatId \in Chats /\ Discarded(w[m[k]].chatId)
    OBVIOUS
  <2>2. w[m[k]] \in ObjectType
    BY <1>2, <1>3
  <2> QED
    BY <2>1, <2>2, <1>7 DEF MapInv, Discarded, ObjectType
<1>10. \A k \in DOMAIN m : w[m[k]].chatId \notin FreeChats
  BY <1>4, OldIsUsed
<1>11. \A k \in DOMAIN m : w[m[k]].chatId = NoChat => w[m[k]].state = "Init"
  BY <1>4
<1> QED
  BY <1>1, <1>5, <1>6, <1>7, <1>8, <1>9, <1>10, <1>11 DEF Moved, Has, ChatKeys

\* The entry and the object that the configuration was asked for.
LEMMA DhConfigOf ==
  ASSUME AlwaysInv, NEW r \in calls, r.method = "getDhConfig", Has(mChats, r.answer)
  PROVE  LET x == mChats[r.answer]
         IN  /\ x \in DOMAIN objects /\ objects[x] \in ObjectType
             /\ objects[x].chatId = r.chat /\ r.chat \in ChatKeys
             /\ r.chat = NoChat <=> objects[x].state = "Init"
             /\ r.answer \in Nat /\ r.answer \in 1..requests /\ r.answer # NoRequest
             /\ \A q \in calls : q # r => q.answer # r.answer
             /\ \A a \in answers : a.id # r.answer
<1> USE Fresh
<1>1. PICK x : x = mChats[r.answer]
  OBVIOUS
<1>2. x \in DOMAIN objects /\ objects[x] \in ObjectType
  BY <1>1 DEF Has
<1>3. r.answer \in Nat /\ r.answer <= requests /\ r.answer # NoRequest /\ r.chat \in ChatKeys
  BY DEF AlwaysInv, Types, NetType, CallType, ChatKeys
<1>4. objects[x].chatId = r.chat /\ (r.chat # NoChat => objects[x].state # "Init")
  BY <1>1 DEF AlwaysInv, EntriesInv, CallOf
<1>5. objects[x].chatId = NoChat => objects[x].state = "Init"
  BY <1>1 DEF AlwaysInv, MapInv, Has
<1>6. r.answer \in 1..requests
  BY <1>3 DEF NoRequest
<1>7. /\ \A q \in calls : q # r => q.answer # r.answer
      /\ \A a \in answers : a.id # r.answer
  BY <1>3 DEF AlwaysInv, IdsInv
<1> QED
  BY <1>1, <1>2, <1>3, <1>4, <1>5, <1>6, <1>7

\* Powers and keys are numbers of what they are made of.
LEMMA KeyTypes ==
  ASSUME NEW p \in Int, NEW x \in Int, NEW g \in Powers
  PROVE  Power(p, x) \in Powers /\ SharedKey(p, x, g) \in Keys /\ NoKey \in Keys /\ NoPower \in Powers
<1>1. Power(p, x) \in Powers /\ NoPower \in Powers
  BY DEF Power, NoPower, Powers
<1>2. NoKey \in Keys
  BY DEF NoKey, Keys
<1>3. g.p \in Int /\ g.x \in Int
  BY DEF Powers
<1>4. {p, g.p} \in SUBSET Int /\ {x, g.x} \in SUBSET Int /\ (IF p = g.p THEN -1 ELSE x) \in Int
  BY <1>3
<1>5. SharedKey(p, x, g) \in Keys
  BY <1>4 DEF SharedKey, Keys
<1> QED
  BY <1>1, <1>2, <1>5

\* The configuration comes for a chat of the peer: the key is made, if the
\* chat is not accepted yet.
LEMMA DhConfigAgrees ==
  ASSUME AlwaysInv, Running, NEW r \in calls, OnMessagesDhConfig(r), Has(mChats, r.answer),
         ~objects[mChats[r.answer]].deleted, objects[mChats[r.answer]].state # "Init"
  PROVE  AlwaysInv'
<1> USE Fresh
<1>1. PICK id, x, sc, m : /\ id = r.answer /\ x = mChats[r.answer] /\ sc = objects[x]
                          /\ m = Remove(mChats, id)
  OBVIOUS
<1>2. /\ r.method = "getDhConfig"
      /\ UNCHANGED <<requests, answers, updates, server, config, kills, repeats, renames>>
  BY DEF OnMessagesDhConfig, boundVars
<1>3. /\ x \in DOMAIN objects /\ sc \in ObjectType /\ sc.chatId = r.chat /\ r.chat \in Chats
      /\ id \in Nat /\ id \in 1..requests /\ ~sc.deleted /\ sc.state # "Init"
      /\ \A q \in calls : q # r => q.answer # id
      /\ \A a \in answers : a.id # id
      /\ x = mChats[id] /\ sc = objects[mChats[id]]
  BY <1>1, <1>2, DhConfigOf DEF ChatKeys
<1>k. SharedKey(config, id, sc.gAOrB) \in Keys /\ Power(config, id) \in Powers
  <2>1. sc.gAOrB \in Powers
    BY <1>3 DEF ObjectType
  <2> QED
    BY <1>3, <2>1, KeyTypes
<1>4. \E new \in ObjectType, N \in SUBSET CallType :
        /\ new.chatId = sc.chatId /\ new.state = sc.state /\ ~new.deleted /\ new.myKey = id
        /\ SaveThen(m, [objects EXCEPT ![x] = new], config, [objects EXCEPT ![x] = new])
        /\ calls' = (calls \ {r}) \cup N /\ \A q, p \in N : q = p
        /\ \A q \in N : q.answer = NoRequest /\ q.method = "accept" /\ q.chat = r.chat
  <2>1. CASE sc.state = "Requested"
    <3>1. PICK key, q : /\ key = SharedKey(config, id, sc.gAOrB)
                        /\ q = Call("accept", NoRequest, sc.chatId, Power(config, id), key)
      OBVIOUS
    <3>2. PICK new : new = [[sc EXCEPT !.key = key] EXCEPT !.myKey = id, !.chatId = sc.chatId]
      OBVIOUS
    <3>3. /\ calls' = (calls \ {r}) \cup {q}
          /\ SaveThen(m, [objects EXCEPT ![x] = new], config, [objects EXCEPT ![x] = new])
      BY <1>1, <1>3, <2>1, <3>1, <3>2 DEF OnMessagesDhConfig, Save
    <3>4. /\ new \in ObjectType /\ new.chatId = sc.chatId /\ new.state = sc.state /\ ~new.deleted
          /\ new.myKey = id
      <4>1. new = [state |-> sc.state, chatId |-> sc.chatId, myKey |-> id, key |-> key,
                   gAOrB |-> sc.gAOrB, deleted |-> sc.deleted]
        BY <1>3, <3>2 DEF ObjectType
      <4>2. id \in Int /\ key \in Keys
        BY <1>3, <1>k, <3>1
      <4> QED
        BY <1>3, <4>1, <4>2 DEF ObjectType
    <3>5. /\ q.answer = NoRequest /\ q.method = "accept" /\ q.chat = r.chat
      BY <1>3, <3>1 DEF Call
    <3>6. q \in CallType
      BY <1>3, <1>k, <3>1 DEF Call, CallType, NoRequest
    <3>7. PICK N : N = {q}
      OBVIOUS
    <3>8. /\ N \in SUBSET CallType /\ calls' = (calls \ {r}) \cup N /\ \A a, p \in N : a = p
          /\ \A a \in N : a.answer = NoRequest /\ a.method = "accept" /\ a.chat = r.chat
      BY <3>3, <3>5, <3>6, <3>7
    <3> QED
      BY <3>3, <3>4, <3>8
  <2>2. CASE sc.state = "Accepted"
    <3>2. PICK new : new = [sc EXCEPT !.myKey = id, !.chatId = sc.chatId]
      OBVIOUS
    <3>3. /\ calls' = calls \ {r}
          /\ SaveThen(m, [objects EXCEPT ![x] = new], config, [objects EXCEPT ![x] = new])
      BY <1>1, <1>3, <2>2, <3>2 DEF OnMessagesDhConfig, Save
    <3>4. /\ new \in ObjectType /\ new.chatId = sc.chatId /\ new.state = sc.state /\ ~new.deleted
          /\ new.myKey = id
      <4>1. new = [state |-> sc.state, chatId |-> sc.chatId, myKey |-> id, key |-> sc.key,
                   gAOrB |-> sc.gAOrB, deleted |-> sc.deleted]
        BY <1>3, <3>2 DEF ObjectType
      <4>2. id \in Int
        BY <1>3
      <4> QED
        BY <1>3, <4>1, <4>2 DEF ObjectType
    <3>7. PICK N : N = {}
      OBVIOUS
    <3>8. /\ N \in SUBSET CallType /\ calls' = (calls \ {r}) \cup N /\ \A a, p \in N : a = p
          /\ \A a \in N : a.answer = NoRequest /\ a.method = "accept" /\ a.chat = r.chat
      BY <3>3, <3>7
    <3> QED
      BY <3>3, <3>4, <3>8
  <2> QED
    BY <1>3, <2>1, <2>2 DEF ObjectType, States
<1>5a. PICK new \in ObjectType, N \in SUBSET CallType :
        /\ new.chatId = sc.chatId /\ new.state = sc.state /\ ~new.deleted /\ new.myKey = id
        /\ SaveThen(m, [objects EXCEPT ![x] = new], config, [objects EXCEPT ![x] = new])
        /\ calls' = (calls \ {r}) \cup N /\ \A q, p \in N : q = p
        /\ \A q \in N : q.answer = NoRequest /\ q.method = "accept" /\ q.chat = r.chat
  BY <1>4
<1>5b. PICK w : w = [objects EXCEPT ![x] = new]
  OBVIOUS
<1>5. /\ new \in ObjectType /\ N \in SUBSET CallType
      /\ new.chatId = sc.chatId /\ new.state = sc.state /\ ~new.deleted /\ new.myKey = id
      /\ w = [objects EXCEPT ![x] = new] /\ SaveThen(m, w, config, w)
      /\ calls' = (calls \ {r}) \cup N /\ \A q, p \in N : q = p
      /\ \A q \in N : q.answer = NoRequest /\ q.method = "accept" /\ q.chat = r.chat
  BY <1>5a, <1>5b
<1>6. Moved(m, w, id)
  <2>1. /\ new.chatId = objects[x].chatId /\ ~objects[x].deleted
        /\ objects[x].state # "Init" => new.state # "Init"
    BY <1>1, <1>3, <1>5
  <2>2. new.myKey \in -1..requests /\ (new.chatId = NoChat => new.state = "Init")
    BY <1>3, <1>5, NotIds
  <2>3. m = Remove(mChats, id) /\ w = [objects EXCEPT ![x] = new]
    BY <1>1, <1>5
  <2>4. id \in Nat /\ x \in DOMAIN objects /\ ~new.deleted /\ new \in ObjectType
    BY <1>3, <1>5
  <2> QED
    BY <2>1, <2>2, <2>3, <2>4, Rewritten
<1>7. /\ calls' \subseteq calls \cup N
      /\ \A q \in calls' : q.answer # NoRequest => q.answer # id
      /\ \A a \in answers' : a.id # NoRequest => a.id # id
  BY <1>2, <1>3, <1>5
<1>8. Acceptances(N)
  <2>1. Has(mChats, r.chat) \/ Discarded(r.chat)
    BY <1>1, <1>3 DEF AlwaysInv, MapInv, Discarded, Has
  <2> QED
    BY <1>3, <1>5, <2>1 DEF Acceptances
<1>9. Quiet
  <2>1. updates' \in Seq(UpdateType) /\ Pending' \subseteq Pending /\ answers' \subseteq answers
    BY <1>2 DEF AlwaysInv, Types, NetType, Pending
  <2> QED
    BY <1>2, <2>1 DEF Quiet
<1>10. SaveThen(m, w, config, w) /\ config \in 0..config /\ id \in Nat
  BY <1>3, <1>5
<1> QED
  BY <1>6, <1>7, <1>8, <1>9, <1>10, SaveMoved

\* The configuration comes for a chat of ours, which gets its identifier.
LEMMA DhConfigNames ==
  ASSUME AlwaysInv, Running, NEW r \in calls, OnMessagesDhConfig(r), Has(mChats, r.answer),
         ~objects[mChats[r.answer]].deleted, objects[mChats[r.answer]].state = "Init"
  PROVE  AlwaysInv'
<1>f. /\ requests \in Nat /\ config \in Nat /\ repeats \in Nat
      /\ mChats \in [DOMAIN mChats -> DOMAIN objects] /\ objects \in [DOMAIN objects -> ObjectType]
      /\ DOMAIN mChats \subseteq ChatKeys \cup 1..requests
      /\ DOMAIN objects \subseteq ChatKeys \cup 1..requests
      /\ \A y \in DOMAIN objects : objects[y].myKey \in -1..requests
  BY Fresh
<1>1. PICK id, x, sc, d, new : /\ id = r.answer /\ x = mChats[r.answer] /\ sc = objects[x]
                               /\ d = NextChat /\ new = [sc EXCEPT !.myKey = id, !.chatId = d]
  OBVIOUS
<1>2. /\ r.method = "getDhConfig"
      /\ UNCHANGED <<requests, answers, updates, server, config, kills, repeats, renames>>
  BY DEF OnMessagesDhConfig, boundVars
<1>3. /\ x \in DOMAIN objects /\ sc \in ObjectType /\ sc.chatId = NoChat /\ r.chat = NoChat
      /\ id \in Nat /\ id \in 1..requests /\ ~sc.deleted /\ sc.state = "Init"
      /\ \A q \in calls : q # r => q.answer # id
      /\ \A a \in answers : a.id # id
      /\ x = mChats[id] /\ sc = objects[mChats[id]] /\ id \in DOMAIN mChats
  BY <1>1, <1>2, DhConfigOf DEF Has
<1>4. x \in Naming
  BY <1>1, <1>2, <1>3 DEF Naming, Unnamed
<1>5. d \in FreeChats
  BY <1>1, <1>4, NextIsFree
<1>6. /\ d \in Chats /\ server[d].status = "none" /\ \A q \in calls : q.chat # d
      /\ d \notin DOMAIN mChats /\ d \in ChatKeys /\ d # NoChat /\ d # id /\ d \notin 1..requests
  <2>1. /\ d \in Chats /\ server[d].status = "none" /\ \A q \in calls : q.chat # d
        /\ d \notin DOMAIN mChats
    BY <1>5, FreeIs
  <2> QED
    BY <1>3, <2>1, NotIds, <1>f DEF ChatKeys
<1>7. PICK m, w, q : /\ m = Insert(Remove(mChats, id), d, x) /\ w = [objects EXCEPT ![x] = new]
                     /\ q = Call("request", NoRequest, d, Power(config, id), NoKey)
  OBVIOUS
<1>8. calls' = (calls \ {r}) \cup {q} /\ SaveThen(m, w, config, w)
  BY <1>1, <1>3, <1>7 DEF OnMessagesDhConfig, Save
<1>9. /\ new \in ObjectType /\ new.chatId = d /\ new.state = "Init" /\ ~new.deleted /\ new.myKey = id
  <2>1. new = [state |-> sc.state, chatId |-> d, myKey |-> id, key |-> sc.key,
               gAOrB |-> sc.gAOrB, deleted |-> sc.deleted]
    BY <1>1, <1>3 DEF ObjectType
  <2>2. id \in Int /\ d \in Chats \cup {NoChat}
    BY <1>3, <1>6
  <2> QED
    BY <1>3, <2>1, <2>2 DEF ObjectType
<1>10. /\ DOMAIN m = (DOMAIN mChats \ {id}) \cup {d} /\ m[d] = x
       /\ \A k \in DOMAIN m : k # d => k \in DOMAIN mChats /\ k # id /\ m[k] = mChats[k]
       /\ DOMAIN w = DOMAIN objects /\ w[x] = new
       /\ \A y \in DOMAIN objects : y # x => w[y] = objects[y]
  BY <1>3, <1>7 DEF Insert, Remove
<1>11. m \in [DOMAIN m -> DOMAIN w] /\ w \in [DOMAIN w -> ObjectType]
  <2>1. \A k \in DOMAIN m : m[k] \in DOMAIN w
    BY <1>f, <1>3, <1>10
  <2> QED
    BY <1>f, <1>7, <1>9, <2>1, <1>10 DEF Insert
<1>12. \A k \in DOMAIN m : k # d =>
         /\ k \in DOMAIN mChats /\ m[k] = mChats[k] /\ m[k] # x /\ m[k] \in DOMAIN objects
         /\ w[m[k]] = objects[m[k]]
  <2>1. \A k \in DOMAIN mChats : k # id => mChats[k] # x
    BY <1>3 DEF AlwaysInv, MapInv
  <2> QED
    BY <1>f, <1>10, <2>1
<1>13. MapType(m, w, requests)
  <2>1. DOMAIN m \subseteq ChatKeys \cup 1..requests /\ DOMAIN w \subseteq ChatKeys \cup 1..requests
    BY <1>f, <1>6, <1>10
  <2>2. \A y \in DOMAIN w : w[y].myKey \in -1..requests
    BY <1>f, <1>3, <1>9, <1>10
  <2> QED
    BY <1>11, <2>1, <2>2 DEF MapType
<1>14. /\ \A k \in DOMAIN m \cap ChatKeys : w[m[k]].chatId = k /\ ~w[m[k]].deleted
       /\ \A k \in DOMAIN m : w[m[k]].chatId = NoChat => w[m[k]].state = "Init"
  BY <1>6, <1>9, <1>10, <1>12 DEF AlwaysInv, MapInv
<1>15. MapInv(m, w, server)
  <2>1. \A j, k \in DOMAIN m : m[j] = m[k] /\ w[m[k]].chatId = NoChat => j = k
    <3>1. SUFFICES ASSUME NEW j \in DOMAIN m, NEW k \in DOMAIN m, m[j] = m[k], w[m[k]].chatId = NoChat
                   PROVE  j = k
      OBVIOUS
    <3>2. j # d /\ k # d
      BY <1>6, <1>9, <1>10, <3>1
    <3> QED
      BY <1>12, <3>1, <3>2 DEF AlwaysInv, MapInv
  <2>2. \A k \in DOMAIN m :
          /\ w[m[k]].chatId = NoChat => w[m[k]].state = "Init" /\ ~w[m[k]].deleted
          /\ w[m[k]].deleted => server[w[m[k]].chatId].status = "discarded"
          /\ w[m[k]].chatId \in Chats =>
               Has(m, w[m[k]].chatId) \/ server[w[m[k]].chatId].status = "discarded"
    <3>1. SUFFICES ASSUME NEW k \in DOMAIN m
                   PROVE  /\ w[m[k]].chatId = NoChat => w[m[k]].state = "Init" /\ ~w[m[k]].deleted
                          /\ w[m[k]].deleted => server[w[m[k]].chatId].status = "discarded"
                          /\ w[m[k]].chatId \in Chats =>
                               Has(m, w[m[k]].chatId) \/ server[w[m[k]].chatId].status = "discarded"
      OBVIOUS
    <3>2. CASE k = d
      BY <1>6, <1>9, <1>10, <3>2 DEF Has
    <3>3. CASE k # d
      <4>1. k \in DOMAIN mChats /\ w[m[k]] = objects[mChats[k]]
        BY <1>12, <3>3
      <4>2. \A c \in Chats : Has(mChats, c) => Has(m, c)
        <5>1. id \notin Chats
          BY <1>3, NotIds, <1>f DEF ChatKeys
        <5> QED
          BY <1>10, <5>1 DEF Has
      <4> QED
        BY <4>1, <4>2 DEF AlwaysInv, MapInv
    <3> QED
      BY <3>2, <3>3
  <2> QED
    BY <1>14, <2>1, <2>2 DEF MapInv
<1>16. IdsKept(m, w)
  BY <1>6, <1>12 DEF IdsKept
<1>17. \A k \in DOMAIN m : w[m[k]].deleted => w[m[k]].chatId \in Chats /\ Discarded(w[m[k]].chatId)
  <2>1. \A k \in DOMAIN m : w[m[k]].chatId \in Chats \cup {NoChat}
    BY <1>11 DEF ObjectType
  <2> QED
    BY <1>15, <2>1 DEF MapInv, Discarded
<1>18. PICK N : N = {q}
  OBVIOUS
<1>19. /\ N \in SUBSET CallType /\ \A a, b \in N : a = b
       /\ \A a \in N : a.answer = NoRequest /\ a.method = "request" /\ a.chat = d
  <2>1. Power(config, id) \in Powers /\ NoKey \in Keys
    <3>1. NoPower \in Powers
      BY DEF NoPower, Powers
    <3> QED
      BY <1>3, <1>f, <3>1, KeyTypes
  <2>2. q = [method |-> "request", answer |-> 0, chat |-> d, g |-> Power(config, id), key |-> NoKey]
    BY <1>7 DEF Call, NoRequest
  <2>3. q \in CallType
    BY <1>6, <2>1, <2>2 DEF CallType
  <2> QED
    BY <1>18, <2>2, <2>3 DEF NoRequest
<1>20. /\ calls' \subseteq calls \cup N
       /\ \A a \in calls' : a.answer # NoRequest => a.answer # id
       /\ \A a \in answers' : a.id # NoRequest => a.id # id
  BY <1>2, <1>3, <1>8, <1>18, <1>19
<1>21. CountInv'
  <2>1. \A k \in DOMAIN m : w[m[k]].chatId \notin FreeChats \ {d}
    BY <1>9, <1>10, <1>12, OldIsUsed
  <2>2. PICK F \in SUBSET FreeChats : F = FreeChats \ {d}
    OBVIOUS
  <2>3. \A a \in calls' : a.chat \notin F
    BY <1>8, <1>18, <1>19, <2>2, FreeIs
  <2>4. \A a \in calls' : a.method = "getDhConfig" => a \in calls /\ a # r
    BY <1>8, <1>18, <1>19
  <2>5. CASE \E c \in Chats : Fault("deleted", c) /\ Discarded(c)
    <3>1. PICK v, o : v = mChats /\ o = objects
      OBVIOUS
    <3>2. mChats' = v /\ objects' = o /\ stored' = stored
      BY <2>5, <3>1 DEF Fault, clientVars
    <3>3. mChats' = v /\ objects' = Restrict(o, Range(v))
      BY <3>1, <3>2, Unmoved
    <3>4. MapType(v, o, requests) /\ IdsKept(v, o)
      BY <3>1, Unmoved
    <3>5. Naming' \subseteq Naming
      <4>1. \A a \in calls' : \/ a \in calls \/ a.method # "getDhConfig"
                              \/ Has(v, a.answer) => o[v[a.answer]].chatId # NoChat
        BY <2>4
      <4>2. requests \in Nat
        BY <1>f
      <4> QED
        BY <3>3, <3>4, <4>1, <4>2, NamingKept
    <3>6. x \notin Naming'
      <4>1. \A a \in calls : Has(mChats, a.answer) /\ mChats[a.answer] = x => a = r
        BY <1>1, <1>2, <1>3, NamingOnce
      <4>2. \A a \in calls' : a.method = "getDhConfig" /\ Has(mChats, a.answer) => mChats[a.answer] # x
        BY <2>4, <4>1
      <4> QED
        BY <3>1, <3>2, <4>2 DEF Naming
    <3>7. F \subseteq FreeChats'
      <4>1. \A k \in DOMAIN v : o[v[k]].chatId \notin F
        BY <2>2, <3>1, OldIsUsed
      <4>2. DOMAIN stored'.chats \cap F = {}
        BY <2>2, <3>2, OldIsUsed
      <4>3. v \in [DOMAIN v -> DOMAIN o] /\ UNCHANGED server
        BY <1>2, <3>4 DEF MapType
      <4> QED
        BY <2>3, <3>3, <4>1, <4>2, <4>3, FreeKept
    <3> QED
      BY <1>4, <1>5, <2>2, <3>5, <3>6, <3>7, CountNamed
  <2>6. CASE /\ \A k \in DOMAIN m : ~w[m[k]].deleted
             /\ mChats' = m /\ objects' = Restrict(w, Range(m)) /\ mP' = config
             /\ stored' = File(m, w, config) /\ UNCHANGED fault
    <3>1. mChats' = m /\ objects' = Restrict(w, Range(m)) /\ stored' = File(m, w, config)
      BY <2>6
    <3>5. Naming' \subseteq Naming
      <4>1. \A a \in calls' : \/ a \in calls \/ a.method # "getDhConfig"
                              \/ Has(m, a.answer) => w[m[a.answer]].chatId # NoChat
        BY <2>4
      <4>2. requests \in Nat /\ mChats' = m /\ objects' = Restrict(w, Range(m))
        BY <1>f, <3>1
      <4> QED
        BY <1>13, <1>16, <4>1, <4>2, NamingKept
    <3>6. x \notin Naming'
      <4>1. \A y \in DOMAIN objects' : objects'[y] = w[y]
        BY <1>11, <3>1, Restricted
      <4> QED
        BY <1>6, <1>9, <1>10, <4>1 DEF Naming, Unnamed
    <3>7. F \subseteq FreeChats'
      <4>1. \A k \in DOMAIN m : w[m[k]].chatId \notin F
        BY <2>1, <2>2
      <4>2. DOMAIN stored'.chats = {w[m[k]].chatId : k \in DOMAIN m}
        <5>1. PICK p : p = config
          OBVIOUS
        <5>2. stored' = File(m, w, p) /\ requests \in Nat
          BY <1>f, <3>1, <5>1
        <5>3. DOMAIN File(m, w, p).chats = {w[m[k]].chatId : k \in DOMAIN m}
          BY <1>11, <5>2, Filed
        <5> QED
          BY <5>2, <5>3
      <4>3. DOMAIN stored'.chats \cap F = {}
        BY <4>1, <4>2
      <4>4. mChats' = m /\ objects' = Restrict(w, Range(m)) /\ UNCHANGED server
        BY <1>2, <3>1
      <4> QED
        BY <1>11, <2>3, <4>1, <4>3, <4>4, FreeKept
    <3> QED
      BY <1>4, <1>5, <2>2, <3>5, <3>6, <3>7, CountNamed
  <2> QED
    BY <1>8, <1>17, <2>5, <2>6, Saves
<1>22. UNCHANGED <<requests, renames, server, config, kills>> /\ repeats' \in Nat
  BY <1>2, <1>f
<1>23. updates' \in Seq(UpdateType) /\ Pending' \subseteq Pending /\ answers' \subseteq answers
  BY <1>2 DEF AlwaysInv, Types, NetType, Pending
<1>24. /\ DOMAIN mChats \cap 1..requests \subseteq DOMAIN m \cup {id}
       /\ \A c \in Chats : Has(mChats, c) => Has(m, c) \/ Discarded(c)
  <2>1. id \notin Chats
    BY <1>3, NotIds, <1>f DEF ChatKeys
  <2> QED
    BY <1>10, <2>1 DEF Has
<1>25. /\ \A a \in N : a.answer = NoRequest /\ a.method \in {"request", "accept"} /\ a.chat \in Chats
       /\ \A a \in N : CallKnown(m, server, a)
       /\ \A a \in N : CallKnown(mChats, server, a)
       /\ \A a \in N, b \in calls : a.method = "request" => b.chat # a.chat
  BY <1>6, <1>19 DEF CallKnown
<1>26. /\ config \in 0..config /\ id \in Nat /\ SaveThen(m, w, config, w) /\ N \in SUBSET CallType
  BY <1>f, <1>3, <1>8, <1>19
<1>27. \A a, b \in N : a = b
  BY <1>18
<1> QED
  BY <1>13, <1>14, <1>15, <1>16, <1>17, <1>20, <1>21, <1>22, <1>23, <1>24, <1>25, <1>26, <1>27, SaveStep

\* A handler that goes on and asks for nothing.
LEMMA ContinueMoved ==
  ASSUME AlwaysInv, Running, NEW m, NEW w, NEW id \in Nat, Moved(m, w, id),
         mChats' = m, objects' = Restrict(w, Range(m)), UNCHANGED <<mP, stored, fault>>,
         Quiet, calls' \subseteq calls,
         \A r \in calls' : r.answer # NoRequest => r.answer # id,
         \A a \in answers' : a.id # NoRequest => a.id # id
  PROVE  AlwaysInv'
<1>f. requests \in Nat /\ mP \in 0..config /\ stored.p \in 0..config
  BY Fresh
<1>1. MapType(m, w, requests) /\ MapInv(m, w, server) /\ IdsKept(m, w)
  BY DEF Moved
<1>2. \A k \in DOMAIN m : w[m[k]].chatId \notin FreeChats
  BY DEF Moved
<1>3. /\ DOMAIN mChats \cap 1..requests \subseteq DOMAIN m \cup {id}
      /\ \A c \in Chats : Has(mChats, c) => Has(m, c)
  BY DEF Moved
<1>4. \A c \in Chats : Has(mChats, c) => Has(m, c) \/ Discarded(c)
  BY <1>3
<1>5. UNCHANGED <<requests, renames, server, config, kills>> /\ repeats' \in Nat /\ renames' \in Nat
  BY Fresh DEF Quiet
<1>6. updates' \in Seq(UpdateType) /\ Pending' \subseteq Pending /\ answers' \subseteq answers
  BY DEF Quiet
<1>7. PICK N \in SUBSET CallType : N = {}
  OBVIOUS
<1>8. /\ \A q \in N : q.answer = NoRequest /\ q.method \in {"request", "accept"} /\ q.chat \in Chats
      /\ \A q \in N : CallKnown(m, server, q)
      /\ \A q \in N, r \in calls : q.method = "request" => r.chat # q.chat
      /\ \A q, r \in N : q = r
      /\ calls' \subseteq calls \cup N
      /\ \A q \in N : q.chat \notin FreeChats
      /\ \A q \in N : q.method = "getDhConfig" /\ Has(m, q.answer) => w[m[q.answer]].chatId # NoChat
  BY <1>7
<1>9. NetType' /\ IdsInv' /\ PresentInv'
  BY <1>3, <1>5, <1>6, <1>8, NetKept
<1>10. KnownInv'
  BY <1>4, <1>5, <1>6, <1>8, KnownKept
<1>11. CountInv'
  <2>1. DOMAIN stored'.chats \cap FreeChats = {}
    BY OldIsUsed
  <2> QED
    BY <1>f, <1>1, <1>2, <1>5, <1>8, <2>1, CountStep
<1>12. FileType'
  BY <1>f, <1>5, FileStays
<1>13. \A r \in calls' : r \in calls \/ CallOf(m, w, r)
  OBVIOUS
<1>14. requests' = requests /\ mP' \in 0..config /\ stored'.p \in 0..config
       /\ UNCHANGED <<server, config, kills, fault>>
  BY <1>f, <1>5
<1> QED
  BY <1>f, <1>1, <1>5, <1>6, <1>9, <1>10, <1>11, <1>12, <1>13, <1>14, ClientStep

\* Nothing moves.
LEMMA MovedNot == ASSUME AlwaysInv PROVE Moved(mChats, objects, 0)
<1>1. /\ MapType(mChats, objects, requests) /\ MapInv(mChats, objects, server)
      /\ IdsKept(mChats, objects)
  BY Unmoved
<1>2. \A k \in DOMAIN mChats : objects[mChats[k]] \in ObjectType
  BY <1>1 DEF MapType
<1>3. \A k \in DOMAIN mChats :
        /\ objects[mChats[k]].deleted =>
             objects[mChats[k]].chatId \in Chats /\ Discarded(objects[mChats[k]].chatId)
        /\ objects[mChats[k]].chatId = NoChat => objects[mChats[k]].state = "Init"
  BY <1>1, <1>2 DEF MapInv, Discarded, ObjectType
<1> QED
  BY <1>1, <1>3, OldIsUsed DEF Moved

\* The object x of a discarded chat c is deleted, and its entries go.
Drop(m, o, after, x, id, c) ==
  m = [k \in DOMAIN mChats \ {id, c} |-> mChats[k]] /\ o = objects /\ after = Deleted(x)

\* onMessagesDiscardEncryptionResult and an EncryptedChatDiscarded that find the chat.
LEMMA Drops ==
  ASSUME AlwaysInv, Running, NEW c \in Chats, Discarded(c), NEW x \in DOMAIN objects,
         objects[x].chatId = c, NEW id \in Nat, NEW m, NEW o, NEW after, NEW p \in 0..config,
         Drop(m, o, after, x, id, c), SaveThen(m, o, p, after), Quiet, calls' \subseteq calls,
         \A r \in calls' : r.answer # NoRequest => r.answer # id,
         \A a \in answers' : a.id # NoRequest => a.id # id
  PROVE  AlwaysInv'
<1>f. /\ requests \in Nat
      /\ mChats \in [DOMAIN mChats -> DOMAIN objects] /\ objects \in [DOMAIN objects -> ObjectType]
      /\ DOMAIN mChats \subseteq ChatKeys \cup 1..requests
      /\ DOMAIN objects \subseteq ChatKeys \cup 1..requests
      /\ \A y \in DOMAIN objects : objects[y].myKey \in -1..requests
  BY Fresh
<1>1. /\ o = objects /\ after = Deleted(x)
      /\ m = [k \in DOMAIN mChats \ {id, c} |-> mChats[k]]
  BY DEF Drop
<1>2. /\ DOMAIN m = DOMAIN mChats \ {id, c} /\ \A k \in DOMAIN m : m[k] = mChats[k]
      /\ m \in [DOMAIN m -> DOMAIN objects]
  BY <1>f, <1>1
<1>3. /\ DOMAIN after = DOMAIN objects /\ after \in [DOMAIN after -> ObjectType]
      /\ \A y \in DOMAIN objects :
           /\ after[y].chatId = objects[y].chatId /\ after[y].state = objects[y].state
           /\ after[y].myKey = objects[y].myKey
           /\ after[y].deleted <=> (y = x \/ objects[y].deleted)
  <2>1. /\ DOMAIN after = DOMAIN objects
        /\ \A y \in DOMAIN objects : y # x => after[y] = objects[y]
        /\ after[x] = [objects[x] EXCEPT !.deleted = TRUE]
    BY <1>f, <1>1 DEF Deleted
  <2>2. objects[x] \in ObjectType
    BY <1>f
  <2>3. /\ after[x] \in ObjectType /\ after[x].chatId = objects[x].chatId /\ after[x].deleted
        /\ after[x].state = objects[x].state /\ after[x].myKey = objects[x].myKey
    BY <2>1, <2>2 DEF ObjectType
  <2>4. after = [y \in DOMAIN objects |-> after[y]]
    BY <1>1 DEF Deleted
  <2>5. \A y \in DOMAIN objects : after[y] \in ObjectType
    BY <1>f, <2>1, <2>3
  <2>6. after \in [DOMAIN after -> ObjectType]
    BY <2>1, <2>4, <2>5
  <2> QED
    BY <2>1, <2>3, <2>6
<1>4. MapType(m, after, requests) /\ MapType(m, o, requests)
  BY <1>f, <1>1, <1>2, <1>3 DEF MapType
<1>5. /\ \A d \in Chats : Has(mChats, d) => Has(m, d) \/ Discarded(d)
      /\ DOMAIN mChats \cap 1..requests \subseteq DOMAIN m \cup {id}
  <2>1. id \notin Chats /\ c \notin 1..requests
    BY <1>f, NotIds DEF ChatKeys
  <2> QED
    BY <1>2, <2>1 DEF Has
<1>6. \A k \in DOMAIN m :
        /\ k \in DOMAIN mChats /\ m[k] = mChats[k] /\ m[k] \in DOMAIN objects
        /\ after[m[k]].chatId = objects[m[k]].chatId /\ after[m[k]].state = objects[m[k]].state
        /\ after[m[k]].deleted => objects[m[k]].deleted \/ objects[m[k]].chatId = c
  BY <1>2, <1>3
<1>7. MapInv(m, after, server)
  <2>1. \A k \in DOMAIN m \cap ChatKeys : after[m[k]].chatId = k /\ ~after[m[k]].deleted
    <3>1. SUFFICES ASSUME NEW k \in DOMAIN m \cap ChatKeys
                   PROVE  after[m[k]].chatId = k /\ ~after[m[k]].deleted
      OBVIOUS
    <3>2. objects[m[k]].chatId = k /\ ~objects[m[k]].deleted
      BY <1>6 DEF AlwaysInv, MapInv
    <3> QED
      BY <1>2, <1>6, <3>2
  <2>2. \A j, k \in DOMAIN m : m[j] = m[k] /\ after[m[k]].chatId = NoChat => j = k
    BY <1>6 DEF AlwaysInv, MapInv
  <2>3. \A k \in DOMAIN m :
          /\ after[m[k]].chatId = NoChat => after[m[k]].state = "Init" /\ ~after[m[k]].deleted
          /\ after[m[k]].deleted => server[after[m[k]].chatId].status = "discarded"
          /\ after[m[k]].chatId \in Chats =>
               Has(m, after[m[k]].chatId) \/ server[after[m[k]].chatId].status = "discarded"
    <3>1. SUFFICES ASSUME NEW k \in DOMAIN m
                   PROVE  /\ after[m[k]].chatId = NoChat =>
                               after[m[k]].state = "Init" /\ ~after[m[k]].deleted
                          /\ after[m[k]].deleted => server[after[m[k]].chatId].status = "discarded"
                          /\ after[m[k]].chatId \in Chats =>
                               \/ Has(m, after[m[k]].chatId)
                               \/ server[after[m[k]].chatId].status = "discarded"
      OBVIOUS
    <3>2. c # NoChat /\ server[c].status = "discarded"
      BY NotIds, <1>f DEF Discarded
    <3>3. PICK y : y = objects[m[k]]
      OBVIOUS
    <3>4. /\ y.chatId = NoChat => y.state = "Init" /\ ~y.deleted
          /\ y.deleted => server[y.chatId].status = "discarded"
          /\ y.chatId \in Chats => Has(mChats, y.chatId) \/ server[y.chatId].status = "discarded"
      BY <1>6, <3>3 DEF AlwaysInv, MapInv
    <3>5. /\ after[m[k]].chatId = y.chatId /\ after[m[k]].state = y.state
          /\ after[m[k]].deleted => y.deleted \/ y.chatId = c
      BY <1>6, <3>3
    <3>6. y.chatId \in Chats => Has(m, y.chatId) \/ server[y.chatId].status = "discarded"
      BY <1>5, <3>4 DEF Discarded
    <3> QED
      BY <3>2, <3>4, <3>5, <3>6
  <2> QED
    BY <2>1, <2>2, <2>3 DEF MapInv
<1>8. IdsKept(m, after)
  BY <1>6 DEF IdsKept
<1>9. /\ \A k \in DOMAIN m : o[m[k]].deleted => o[m[k]].chatId \in Chats /\ Discarded(o[m[k]].chatId)
      /\ \A k \in DOMAIN m : o[m[k]].chatId = NoChat => o[m[k]].state = "Init"
      /\ \A k \in DOMAIN m : after[m[k]].chatId = o[m[k]].chatId /\ o[m[k]].chatId \notin FreeChats
  BY <1>1, <1>6, MovedNot DEF Moved
<1>10. UNCHANGED <<requests, renames, server, config, kills>> /\ repeats' \in Nat
  BY DEF Quiet
<1>11. updates' \in Seq(UpdateType) /\ Pending' \subseteq Pending /\ answers' \subseteq answers
  BY DEF Quiet
<1>12. PICK N \in SUBSET CallType : N = {}
  OBVIOUS
<1>13. /\ N \in SUBSET CallType
       /\ \A q \in N : q.answer = NoRequest /\ q.method \in {"request", "accept"} /\ q.chat \in Chats
       /\ \A q \in N : CallKnown(m, server, q)
       /\ \A q \in N : CallKnown(mChats, server, q)
       /\ \A q \in N, r \in calls : q.method = "request" => r.chat # q.chat
       /\ \A q, r \in N : q = r
       /\ calls' \subseteq calls \cup N
       /\ \A q \in N : q.chat \notin FreeChats /\ q.method # "getDhConfig"
  BY <1>12
<1>15. CountInv'
  BY <1>4, <1>8, <1>9, <1>10, <1>13, CountSaved
<1>16. /\ N \in SUBSET CallType /\ calls' \subseteq calls \cup N 
  BY <1>13
<1>17. /\ \A k \in DOMAIN m : o[m[k]].deleted => o[m[k]].chatId \in Chats /\ Discarded(o[m[k]].chatId)
       /\ \A k \in DOMAIN m : o[m[k]].chatId = NoChat => o[m[k]].state = "Init"
  BY <1>9
<1>18. /\ \A q \in N : q.answer = NoRequest /\ q.method \in {"request", "accept"} /\ q.chat \in Chats
       /\ \A q \in N : CallKnown(m, server, q)
       /\ \A q \in N : CallKnown(mChats, server, q)
       /\ \A q \in N, r \in calls : q.method = "request" => r.chat # q.chat
       /\ \A q, r \in N : q = r
  BY <1>12
<1> QED
  BY <1>4, <1>5, <1>7, <1>8, <1>10, <1>11, <1>15, <1>16, <1>17, <1>18, SaveStep

\* onMessagesAcceptEncryptionEncryptedChat.
LEMMA Accepts ==
  ASSUME AlwaysInv, Running, NEW a \in answers, OnAcceptEncryption(a), Quiet, calls' \subseteq calls
  PROVE  AlwaysInv'
<1>1. a.kind = "accepted" /\ a.chat \in Chats
  BY DEF OnAcceptEncryption, AlwaysInv, Types, NetType, AnswerType
<1>2. CASE ~Has(mChats, a.chat)
  <2>1. Fault("null", a.chat)
    BY <1>2 DEF OnAcceptEncryption
  <2>2. Discarded(a.chat)
    BY <1>1, <1>2 DEF AlwaysInv, KnownInv
  <2> QED
    BY <1>1, <2>1, <2>2, FaultStep DEF ChatKeys
<1>3. CASE Has(mChats, a.chat)
  <2>1. PICK x, sc, new, w, m, p :
          /\ x = mChats[a.chat] /\ sc = objects[x] /\ new = [sc EXCEPT !.state = "Accepted"]
          /\ w = [objects EXCEPT ![x] = new] /\ m = mChats /\ p = mP
    OBVIOUS
  <2>2. SaveThen(m, w, p, w)
    BY <1>3, <2>1 DEF OnAcceptEncryption, Save
  <2>3. /\ x \in DOMAIN objects /\ sc \in ObjectType /\ sc.chatId = a.chat /\ ~sc.deleted
        /\ sc.myKey \in -1..requests /\ p \in 0..config
    BY <1>1, <1>3, <2>1, Fresh DEF AlwaysInv, MapInv, ChatKeys, Has
  <2>4. /\ new \in ObjectType /\ new.chatId = sc.chatId /\ ~new.deleted /\ new.myKey = sc.myKey
        /\ new.state = "Accepted"
    <3>1. new = [state |-> "Accepted", chatId |-> sc.chatId, myKey |-> sc.myKey, key |-> sc.key,
                 gAOrB |-> sc.gAOrB, deleted |-> sc.deleted]
      BY <2>1, <2>3 DEF ObjectType
    <3>2. "Accepted" \in States
      BY DEF States
    <3> QED
      BY <2>3, <3>1, <3>2 DEF ObjectType
  <2>5. Moved(m, w, 0)
    <3>1. m = Remove(mChats, 0)
      <4>1. 0 \notin DOMAIN mChats
        BY Fresh, NotIds
      <4> QED
        BY <2>1, <4>1, Fresh DEF Remove
    <3>2. /\ new.chatId = objects[x].chatId /\ ~objects[x].deleted
          /\ objects[x].state # "Init" => new.state # "Init"
          /\ new.chatId = NoChat => new.state = "Init"
      BY <1>1, <2>1, <2>3, <2>4, NotIds, Fresh
    <3>3. new.myKey \in -1..requests /\ 0 \in Nat /\ w = [objects EXCEPT ![x] = new]
      BY <2>1, <2>3, <2>4
    <3> QED
      BY <2>3, <2>4, <3>1, <3>2, <3>3, Rewritten
  <2>6. PICK N : N = {}
    OBVIOUS
  <2>7. Acceptances(N) /\ calls' \subseteq calls \cup N
    BY <2>6 DEF Acceptances
  <2>8. /\ \A r \in calls' : r.answer # NoRequest => r.answer # 0
        /\ \A b \in answers' : b.id # NoRequest => b.id # 0
    BY DEF NoRequest
  <2>9. p \in 0..config /\ 0 \in Nat
    BY <2>3
  <2> QED
    BY <2>2, <2>5, <2>7, <2>8, <2>9, SaveMoved
<1> QED
  BY <1>2, <1>3

\* onMessagesDiscardEncryptionResult.
LEMMA Discards ==
  ASSUME AlwaysInv, Running, NEW a \in answers, OnDiscardEncryption(a), answers' = answers \ {a},
         Quiet, calls' \subseteq calls
  PROVE  AlwaysInv'
<1>f. requests \in Nat /\ mP \in 0..config
  BY Fresh
<1>1. /\ a.kind \in {"discarded", "kept", "declined"} /\ a.chat \in Chats /\ a.id \in Nat
      /\ a.kind \in {"discarded", "declined"} => Discarded(a.chat)
      /\ a.kind = "kept" => a.id # NoRequest
  BY DEF OnDiscardEncryption, AlwaysInv, Types, NetType, AnswerType, KnownInv
<1>2. CASE ~Has(mChats, a.id)
  <2>1. Fault("assert", a.chat)
    BY <1>2 DEF OnDiscardEncryption
  <2>2. renames > 0 \/ Discarded(a.chat)
    <3>1. renames \in Nat /\ (a.id # NoRequest => renames # 0)
      BY <1>2, Fresh DEF AlwaysInv, PresentInv
    <3> QED
      BY <1>1, <3>1
  <2> QED
    BY <1>1, <2>1, <2>2, FaultStep DEF ChatKeys
<1>3. CASE Has(mChats, a.id)
  <2>1. PICK x : x = mChats[a.id]
    OBVIOUS
  <2>2. /\ x \in DOMAIN objects /\ objects[x].chatId = a.chat /\ a.id # NoRequest
    <3>1. 0 \notin DOMAIN mChats
      BY Fresh, NotIds
    <3> QED
      BY <1>3, <2>1, <3>1, Fresh DEF AlwaysInv, EntriesInv, AnswerOf, Has, NoRequest
  <2>3. /\ \A r \in calls' : r.answer # NoRequest => r.answer # a.id
        /\ \A b \in answers' : b.id # NoRequest => b.id # a.id
    BY DEF AlwaysInv, IdsInv
  <2>4. CASE objects[x].deleted
    <3>1. Fault("deleted", a.chat)
      BY <1>3, <2>1, <2>4 DEF OnDiscardEncryption
    <3>2. Discarded(a.chat)
      BY <1>3, <2>1, <2>2, <2>4 DEF AlwaysInv, MapInv, Has, Discarded
    <3> QED
      BY <1>1, <3>1, <3>2, FaultStep DEF ChatKeys
  <2>5. CASE ~objects[x].deleted /\ a.kind = "kept"
    <3>1. PICK m, w, id : m = Remove(mChats, id) /\ w = objects /\ id = a.id
      OBVIOUS
    <3>2. mChats' = m /\ objects' = Restrict(w, Range(m)) /\ UNCHANGED <<mP, stored, fault>>
      BY <1>3, <2>1, <2>5, <3>1 DEF OnDiscardEncryption, Continue
    <3>3. PICK sc \in ObjectType : sc = objects[x]
      BY <2>2, Fresh
    <3>4. Moved(m, w, id)
      <4>1. /\ sc.chatId = objects[x].chatId /\ ~sc.deleted /\ ~objects[x].deleted
            /\ sc.myKey \in -1..requests
            /\ objects[x].state # "Init" => sc.state # "Init"
            /\ sc.chatId = NoChat => sc.state = "Init"
        BY <1>1, <2>2, <2>5, <3>3, Fresh, NotIds
      <4>2. w = [objects EXCEPT ![x] = sc] /\ id \in Nat /\ m = Remove(mChats, id)
        BY <1>1, <2>2, <3>1, <3>3, Fresh
      <4> QED
        BY <2>2, <3>3, <4>1, <4>2, Rewritten
    <3>5. /\ \A r \in calls' : r.answer # NoRequest => r.answer # id
          /\ \A b \in answers' : b.id # NoRequest => b.id # id
          /\ id \in Nat
      BY <1>1, <2>3, <3>1
    <3> QED
      BY <3>2, <3>4, <3>5, ContinueMoved
  <2>6. CASE ~objects[x].deleted /\ a.kind # "kept"
    <3>1. PICK id, c, p, m, o, after :
            /\ id = a.id /\ c = a.chat /\ p = mP /\ Drop(m, o, after, x, id, c)
      BY DEF Drop
    <3>2. SaveThen(m, o, p, after)
      <4>1. SaveThen(Forget(a), objects, mP, Deleted(x))
        BY <1>3, <2>1, <2>6 DEF OnDiscardEncryption
      <4>2. Forget(a) = m
        <5>1. Forget(a) = [k \in DOMAIN mChats \ {a.id, a.chat} |-> mChats[k]]
          BY <2>1, <2>2 DEF Forget, Remove
        <5> QED
          BY <3>1, <5>1 DEF Drop
      <4> QED
        BY <3>1, <4>1, <4>2 DEF Drop
    <3>3. c \in Chats /\ Discarded(c) /\ objects[x].chatId = c /\ id \in Nat /\ p \in 0..config
      BY <1>f, <1>1, <2>2, <2>6, <3>1
    <3>4. /\ \A r \in calls' : r.answer # NoRequest => r.answer # id
          /\ \A b \in answers' : b.id # NoRequest => b.id # id
          /\ x \in DOMAIN objects /\ Drop(m, o, after, x, id, c)
      BY <2>2, <2>3, <3>1
    <3> QED
      BY <3>2, <3>3, <3>4, Drops
  <2> QED
    BY <2>4, <2>5, <2>6
<1> QED
  BY <1>2, <1>3

\* An answer of the server is handled.
LEMMA Answers ==
  ASSUME AlwaysInv, Running, NEW a \in answers, OnAnswer(a)
  PROVE  AlwaysInv'
<1>1. /\ answers' = answers \ {a}
      /\ UNCHANGED <<requests, calls, updates, server, config, kills, repeats, renames>>
  BY DEF OnAnswer, boundVars
<1>2. Quiet
  BY <1>1, Fresh DEF Quiet, AlwaysInv, Types, NetType, Pending
<1> QED
  BY <1>1, <1>2, Accepts, Discards DEF OnAnswer

\* onMessagesDhConfig.
LEMMA DhConfigs ==
  ASSUME AlwaysInv, Running, NEW r \in calls, OnMessagesDhConfig(r)
  PROVE  AlwaysInv'
BY DhConfigFaults, DhConfigAgrees, DhConfigNames

\* The entries that a request of the peer brings.
Requested(m, o, u) ==
  /\ m = FileRequested(mChats, u.chat)
  /\ o = Insert(objects, Told,
                [NewSecretChat EXCEPT !.state = "Requested", !.chatId = u.chat, !.gAOrB = u.g])

RequestedGives(m, o, c) ==
  /\ DOMAIN m = DOMAIN mChats \cup {c, Told} /\ m[c] = Told /\ m[Told] = Told
  /\ \A k \in DOMAIN mChats : k # c => m[k] = mChats[k] /\ k # Told
  /\ DOMAIN o = DOMAIN objects \cup {Told} /\ o[Told] \in ObjectType
  /\ o[Told].chatId = c /\ o[Told].state = "Requested" /\ ~o[Told].deleted
  /\ o[Told].myKey = -1 /\ o[Told].key = NoKey
  /\ \A x \in DOMAIN objects : o[x] = objects[x] /\ x # Told
  /\ m \in [DOMAIN m -> DOMAIN o] /\ o \in [DOMAIN o -> ObjectType]

\* The map and the objects then.
LEMMA RequestedMap ==
  ASSUME AlwaysInv, NEW u \in UpdateType, NEW m, NEW o, Requested(m, o, u)
  PROVE  RequestedGives(m, o, u.chat)
<1> USE Fresh
<1>1. PICK sc : sc = [NewSecretChat EXCEPT !.state = "Requested", !.chatId = u.chat, !.gAOrB = u.g]
  OBVIOUS
<1>2. sc = [state |-> "Requested", chatId |-> u.chat, myKey |-> -1, key |-> NoKey,
            gAOrB |-> u.g, deleted |-> FALSE]
  BY <1>1 DEF NewSecretChat
<1>3. u.chat \in Chats /\ u.g \in Powers
  BY DEF UpdateType
<1>4. NoKey \in Keys /\ "Requested" \in States
  BY DEF NoKey, Keys, States
<1>5. /\ sc \in ObjectType /\ sc.chatId = u.chat /\ sc.state = "Requested" /\ ~sc.deleted
      /\ sc.myKey = -1 /\ sc.key = NoKey
  BY <1>2, <1>3, <1>4 DEF ObjectType
<1>6. u.chat # Told
  BY <1>3 DEF ChatKeys
<1>7. /\ DOMAIN m = DOMAIN mChats \cup {u.chat, Told} /\ m[u.chat] = Told /\ m[Told] = Told
      /\ \A k \in DOMAIN mChats : k # u.chat => m[k] = mChats[k] /\ k # Told
  BY <1>6 DEF Requested, FileRequested, Insert
<1>8. /\ DOMAIN o = DOMAIN objects \cup {Told} /\ o[Told] = sc
      /\ \A x \in DOMAIN objects : o[x] = objects[x] /\ x # Told
  BY <1>1 DEF Requested, Insert
<1>9. m \in [DOMAIN m -> DOMAIN o]
  <2>1. \A k \in DOMAIN m : m[k] \in DOMAIN o
    BY <1>7, <1>8
  <2>2. m = [k \in DOMAIN m |-> m[k]]
    BY DEF Requested, FileRequested, Insert
  <2> QED
    BY <2>1, <2>2
<1>10. o \in [DOMAIN o -> ObjectType]
  <2>1. \A x \in DOMAIN o : o[x] \in ObjectType
    BY <1>5, <1>8
  <2>2. o = [x \in DOMAIN o |-> o[x]]
    BY DEF Requested, Insert
  <2> QED
    BY <2>1, <2>2
<1> QED
  BY <1>5, <1>7, <1>8, <1>9, <1>10 DEF RequestedGives

\* The peer asks for a chat.
LEMMA PeerIsHeard ==
  ASSUME AlwaysInv, Running, NEW u \in UpdateType, u \in Pending,
         Ask("getDhConfig", u.chat), NEW m, NEW o, Requested(m, o, u),
         mChats' = m, objects' = Restrict(o, Range(m)),
         UNCHANGED <<mP, stored, fault, answers, server, config, kills>>,
         updates' \in Seq(UpdateType), Pending' \subseteq Pending, repeats' \in Nat
  PROVE  AlwaysInv'
<1>f. /\ Told \in Nat /\ Told > requests /\ Told \notin ChatKeys /\ requests \in Nat
      /\ \A t \in Nat : t > requests => t \notin DOMAIN mChats /\ t \notin DOMAIN objects
      /\ mChats \in [DOMAIN mChats -> DOMAIN objects]
      /\ DOMAIN mChats \subseteq ChatKeys \cup 1..requests
      /\ DOMAIN objects \subseteq ChatKeys \cup 1..requests
      /\ \A x \in DOMAIN objects : objects[x].myKey \in -1..requests
      /\ mP \in 0..config /\ stored.p \in 0..config
  BY Fresh
<1>1. PICK c : c = u.chat
  OBVIOUS
<1>2. /\ DOMAIN m = DOMAIN mChats \cup {c, Told} /\ m[c] = Told /\ m[Told] = Told
      /\ \A k \in DOMAIN mChats : k # c => m[k] = mChats[k] /\ k # Told
      /\ DOMAIN o = DOMAIN objects \cup {Told} /\ o[Told].chatId = c
      /\ o[Told].state = "Requested" /\ ~o[Told].deleted /\ o[Told].myKey = -1
      /\ \A x \in DOMAIN objects : o[x] = objects[x] /\ x # Told
  <2>1. RequestedGives(m, o, c)
    BY <1>1, RequestedMap
  <2> QED
    BY <2>1 DEF RequestedGives
<1>3. m \in [DOMAIN m -> DOMAIN o] /\ o \in [DOMAIN o -> ObjectType]
  <2>1. RequestedGives(m, o, c)
    BY <1>1, RequestedMap
  <2> QED
    BY <2>1 DEF RequestedGives
<1>4. c \in Chats /\ c \in ChatKeys /\ c # NoChat /\ server[c].status # "none" /\ c \notin Nat
  <2>1. c \in Chats /\ server[c].status # "none"
    BY <1>1 DEF UpdateType, AlwaysInv, KnownInv
  <2> QED
    BY <1>f, <2>1, NotIds DEF ChatKeys
<1>5. /\ requests' \in Nat /\ requests' >= Told /\ renames' \in Nat
      /\ NetType' /\ IdsInv' /\ PresentInv'
  <2>1. DOMAIN mChats \cup {Told} \subseteq DOMAIN mChats'
    BY <1>2
  <2>2. "getDhConfig" \in {"getDhConfig", "discard"}
    OBVIOUS
  <2> QED
    BY <1>1, <1>4, <2>1, <2>2, Asks
<1>6. PICK q : /\ calls' = calls \cup {q} /\ q.method = "getDhConfig" /\ q.chat = c
               /\ q.answer \in Nat /\ q.answer > requests
               /\ q.answer = Told \/ q.answer = Told + 1
  <2>1. DOMAIN mChats \cup {Told} \subseteq DOMAIN mChats'
    BY <1>2
  <2> QED
    BY <1>1, <1>4, <2>1, Asks
<1>7. MapType(m, o, requests')
  <2>1. \A x \in DOMAIN o : o[x].myKey \in -1..requests'
    BY <1>f, <1>2, <1>5
  <2>2. DOMAIN m \subseteq ChatKeys \cup 1..requests' /\ DOMAIN o \subseteq ChatKeys \cup 1..requests'
    BY <1>f, <1>2, <1>4, <1>5
  <2> QED
    BY <1>3, <2>1, <2>2 DEF MapType
<1>8. \A k \in DOMAIN m :
        \/ /\ k \in DOMAIN mChats /\ k # c /\ k # Told /\ m[k] = mChats[k]
           /\ m[k] # Told /\ m[k] \in DOMAIN objects /\ o[m[k]] = objects[m[k]]
        \/ k \in {c, Told} /\ m[k] = Told
  BY <1>f, <1>2
<1>9. MapInv(m, o, server)
  <2>1. \A k \in DOMAIN m \cap ChatKeys : o[m[k]].chatId = k /\ ~o[m[k]].deleted
    BY <1>f, <1>2, <1>8 DEF AlwaysInv, MapInv
  <2>2. \A j, k \in DOMAIN m : m[j] = m[k] /\ o[m[k]].chatId = NoChat => j = k
    <3>1. SUFFICES ASSUME NEW j \in DOMAIN m, NEW k \in DOMAIN m, m[j] = m[k], o[m[k]].chatId = NoChat
                   PROVE  j = k
      OBVIOUS
    <3>2. m[k] # Told
      BY <1>2, <1>4, <3>1
    <3> QED
      BY <1>8, <3>1, <3>2 DEF AlwaysInv, MapInv
  <2>3. \A k \in DOMAIN m :
          /\ o[m[k]].chatId = NoChat => o[m[k]].state = "Init" /\ ~o[m[k]].deleted
          /\ o[m[k]].deleted => server[o[m[k]].chatId].status = "discarded"
          /\ o[m[k]].chatId \in Chats =>
               Has(m, o[m[k]].chatId) \/ server[o[m[k]].chatId].status = "discarded"
    <3>1. SUFFICES ASSUME NEW k \in DOMAIN m
                   PROVE  /\ o[m[k]].chatId = NoChat => o[m[k]].state = "Init" /\ ~o[m[k]].deleted
                          /\ o[m[k]].deleted => server[o[m[k]].chatId].status = "discarded"
                          /\ o[m[k]].chatId \in Chats =>
                               Has(m, o[m[k]].chatId) \/ server[o[m[k]].chatId].status = "discarded"
      OBVIOUS
    <3>2. CASE m[k] = Told
      BY <1>2, <1>4, <3>2 DEF Has
    <3>3. CASE m[k] # Told
      <4>1. k \in DOMAIN mChats /\ m[k] = mChats[k] /\ o[m[k]] = objects[mChats[k]]
        BY <1>8, <3>3
      <4>2. PICK y : y = objects[mChats[k]]
        OBVIOUS
      <4>3. /\ y.chatId = NoChat => y.state = "Init" /\ ~y.deleted
            /\ y.deleted => server[y.chatId].status = "discarded"
            /\ y.chatId \in Chats => Has(mChats, y.chatId) \/ server[y.chatId].status = "discarded"
        BY <4>1, <4>2 DEF AlwaysInv, MapInv
      <4> QED
        BY <1>2, <4>1, <4>2, <4>3 DEF Has
    <3> QED
      BY <3>2, <3>3
  <2> QED
    BY <2>1, <2>2, <2>3 DEF MapInv
<1>10. IdsKept(m, o)
  <2>1. \A k \in 1..requests : k # c /\ k # Told
    BY <1>f, <1>4
  <2> QED
    BY <1>8, <2>1 DEF IdsKept
<1>11. Has(m, q.answer) => q.answer = Told
  <2>1. q.answer \notin DOMAIN mChats /\ q.answer # c
    BY <1>f, <1>4, <1>6
  <2> QED
    BY <1>2, <2>1 DEF Has
<1>12. CallOf(m, o, q)
  BY <1>2, <1>6, <1>11 DEF CallOf
<1>13. PICK N : N = {q}
  OBVIOUS
<1>14. KnownInv'
  <2>1. calls' \subseteq calls \cup N /\ \A r, p \in N : r = p
    BY <1>6, <1>13
  <2>2. \A r \in N : CallKnown(m, server, r)
    BY <1>6, <1>13 DEF CallKnown
  <2>3. \A r \in N, p \in calls : r.method = "request" => p.chat # r.chat
    BY <1>6, <1>13
  <2>5. \A d \in Chats : Has(mChats, d) => Has(m, d) \/ Discarded(d)
    BY <1>2 DEF Has
  <2>6. mChats' = m /\ answers' \subseteq answers /\ UNCHANGED server
    OBVIOUS
  <2> QED
    BY <2>1, <2>2, <2>3, <2>5, <2>6, KnownKept
<1>15. CountInv'
  <2>1. \A k \in DOMAIN m : o[m[k]].chatId \notin FreeChats
    BY <1>2, <1>4, <1>8, OldIsUsed
  <2>2. DOMAIN stored'.chats \cap FreeChats = {}
    BY OldIsUsed
  <2>3. calls' \subseteq calls \cup N /\ \A r \in N : r.chat \notin FreeChats
    BY <1>4, <1>6, <1>13, OldIsUsed
  <2>4. \A r \in N : r.method = "getDhConfig" /\ Has(m, r.answer) => o[m[r.answer]].chatId # NoChat
    BY <1>2, <1>4, <1>11, <1>13
  <2>5. mChats' = m /\ objects' = Restrict(o, Range(m)) /\ UNCHANGED server
    OBVIOUS
  <2>6. PICK n \in Nat : n = requests'
    BY <1>5
  <2>7. MapType(m, o, n) /\ IdsKept(m, o) /\ n \in Nat
    BY <1>7, <1>10, <2>6
  <2> QED
    BY <2>1, <2>2, <2>3, <2>4, <2>5, <2>7, CountStep
<1>16. FileType'
  BY <1>f, <1>5, FileStays
<1>17. /\ mChats' = m /\ objects' = Restrict(o, Range(m)) /\ repeats' \in Nat
       /\ UNCHANGED <<server, config, kills, fault>> /\ answers' \subseteq answers
       /\ mP' \in 0..config /\ stored'.p \in 0..config
  BY <1>f
<1>18. \A r \in calls' : r \in calls \/ CallOf(m, o, r)
  BY <1>6, <1>12
<1> QED
  BY <1>5, <1>7, <1>9, <1>10, <1>14, <1>15, <1>16, <1>17, <1>18, ClientStep

\* An update that changes nothing, or that writes an object of its chat.
LEMMA NothingMoves ==
  ASSUME AlwaysInv, Running, UNCHANGED clientVars, UNCHANGED <<fault, calls>>, Quiet
  PROVE  AlwaysInv'
<1>1. PICK m, w : m = mChats /\ w = objects
  OBVIOUS
<1>2. mChats' = m /\ objects' = Restrict(w, Range(m)) /\ UNCHANGED <<mP, stored, fault>>
  BY <1>1, Unmoved DEF clientVars
<1>3. Moved(m, w, 0)
  BY <1>1, MovedNot
<1>4. /\ \A r \in calls' : r.answer # NoRequest => r.answer # 0
      /\ \A b \in answers' : b.id # NoRequest => b.id # 0
      /\ calls' \subseteq calls /\ 0 \in Nat
  BY DEF NoRequest
<1> QED
  BY <1>2, <1>3, <1>4, ContinueMoved

\* The object of a chat with an entry of its own.
LEMMA ObjectOf ==
  ASSUME AlwaysInv, NEW c \in Chats, Has(mChats, c)
  PROVE  LET x == mChats[c]
         IN  /\ x \in DOMAIN objects /\ objects[x] \in ObjectType
             /\ objects[x].chatId = c /\ ~objects[x].deleted /\ c # NoChat
             /\ objects[x].myKey \in Int /\ objects[x].myKey \in -1..requests
<1>1. PICK x : x = mChats[c]
  OBVIOUS
<1>2. x \in DOMAIN objects /\ objects[x].chatId = c /\ ~objects[x].deleted
  BY <1>1, Fresh DEF AlwaysInv, MapInv, ChatKeys, Has
<1>3. objects[x] \in ObjectType /\ objects[x].myKey \in -1..requests
  BY <1>2, Fresh
<1>4. objects[x].myKey \in Int
  BY <1>3 DEF ObjectType
<1>5. c # NoChat
  BY Fresh, NotIds
<1> QED
  BY <1>1, <1>2, <1>3, <1>4, <1>5

\* EncryptedChat: the peer agreed, or agreed to something else.
LEMMA PeerAgreed ==
  ASSUME AlwaysInv, Running, NEW u \in UpdateType, u \in Pending, OnEncryptedChat(u),
         UNCHANGED <<answers, server, config, kills>>,
         updates' \in Seq(UpdateType), Pending' \subseteq Pending, repeats' \in Nat
  PROVE  AlwaysInv'
<1>1. PICK c, x, sc, p, key :
        /\ c = u.chat /\ x = mChats[u.chat] /\ sc = objects[x] /\ p = mP
        /\ key = SharedKey(mP, objects[x].myKey, u.g)
  OBVIOUS
<1>2. c \in Chats /\ u.g \in Powers /\ server[c].status # "none"
  BY <1>1 DEF UpdateType, AlwaysInv, KnownInv
<1>3. CASE ~Has(mChats, u.chat)
  <2>1. UNCHANGED clientVars /\ UNCHANGED <<fault, requests, calls, renames>>
    BY <1>3 DEF OnEncryptedChat
  <2>2. Quiet
    BY <2>1 DEF Quiet
  <2> QED
    BY <2>1, <2>2, NothingMoves
<1>4. ASSUME Has(mChats, u.chat)
      PROVE  /\ x \in DOMAIN objects /\ sc \in ObjectType /\ sc.chatId = c /\ ~sc.deleted
             /\ c # NoChat /\ sc.myKey \in -1..requests /\ key \in Keys /\ p \in 0..config
  <2>1. /\ x \in DOMAIN objects /\ sc \in ObjectType /\ sc.chatId = c /\ ~sc.deleted
        /\ c # NoChat /\ sc.myKey \in -1..requests /\ sc.myKey \in Int
    BY <1>1, <1>2, <1>4, ObjectOf
  <2>2. p \in 0..config /\ p \in Int
    BY <1>1, Fresh
  <2>3. key \in Keys
    BY <1>1, <1>2, <2>1, <2>2, KeyTypes
  <2> QED
    BY <2>1, <2>2, <2>3
<1>5. CASE Has(mChats, u.chat) /\ KeyFits(key, u)
  <2>1. PICK new, w, m : /\ new = [sc EXCEPT !.key = key, !.state = "Accepted"]
                         /\ w = [objects EXCEPT ![x] = new] /\ m = mChats
    OBVIOUS
  <2>2. w = [objects EXCEPT ![x].key = key, ![x].state = "Accepted"]
    BY <1>1, <1>4, <1>5, <2>1
  <2>3. SaveThen(m, w, p, w) /\ UNCHANGED <<requests, calls, renames>>
    BY <1>1, <1>5, <2>1, <2>2 DEF OnEncryptedChat, Save
  <2>4. /\ new \in ObjectType /\ new.chatId = sc.chatId /\ ~new.deleted /\ new.myKey = sc.myKey
        /\ new.state = "Accepted"
    <3>1. new = [state |-> "Accepted", chatId |-> sc.chatId, myKey |-> sc.myKey, key |-> key,
                 gAOrB |-> sc.gAOrB, deleted |-> sc.deleted]
      BY <1>4, <1>5, <2>1 DEF ObjectType
    <3>2. "Accepted" \in States
      BY DEF States
    <3> QED
      BY <1>4, <1>5, <3>1, <3>2 DEF ObjectType
  <2>5. Moved(m, w, 0)
    <3>1. m = Remove(mChats, 0)
      <4>1. 0 \notin DOMAIN mChats
        BY Fresh, NotIds
      <4> QED
        BY <2>1, <4>1, Fresh DEF Remove
    <3>2. /\ new.chatId = objects[x].chatId /\ ~objects[x].deleted
          /\ objects[x].state # "Init" => new.state # "Init"
          /\ new.chatId = NoChat => new.state = "Init"
      BY <1>1, <1>4, <1>5, <2>1, <2>4
    <3>3. new.myKey \in -1..requests /\ 0 \in Nat /\ w = [objects EXCEPT ![x] = new]
      BY <1>4, <1>5, <2>1, <2>4
    <3>4. x \in DOMAIN objects /\ new \in ObjectType /\ ~new.deleted
      BY <1>4, <1>5, <2>4
    <3> QED
      BY <3>1, <3>2, <3>3, <3>4, Rewritten
  <2>6. PICK N : N = {}
    OBVIOUS
  <2>7. Acceptances(N) /\ calls' \subseteq calls \cup N
    BY <2>3, <2>6 DEF Acceptances
  <2>8. /\ \A r \in calls' : r.answer # NoRequest => r.answer # 0
        /\ \A b \in answers' : b.id # NoRequest => b.id # 0
    BY DEF NoRequest
  <2>9. p \in 0..config /\ 0 \in Nat /\ SaveThen(m, w, p, w)
    BY <1>4, <1>5, <2>3
  <2>10. Quiet
    BY <2>3 DEF Quiet
  <2> QED
    BY <2>5, <2>7, <2>8, <2>9, <2>10, SaveMoved
<1>6. CASE Has(mChats, u.chat) /\ ~KeyFits(key, u)
  <2>1. PICK new, w, m : /\ new = [sc EXCEPT !.key = key]
                         /\ w = [objects EXCEPT ![x] = new] /\ m = Insert(mChats, Told, x)
    OBVIOUS
  <2>2. w = [objects EXCEPT ![x].key = key]
    BY <1>1, <1>4, <1>6, <2>1
  <2>3. /\ Ask("discard", c) /\ mChats' = m /\ objects' = Restrict(w, Range(m))
        /\ UNCHANGED <<mP, stored, fault>>
    BY <1>1, <1>6, <2>1, <2>2 DEF OnEncryptedChat, Continue
  <2>4. /\ new \in ObjectType /\ new.chatId = sc.chatId /\ new.deleted = sc.deleted
        /\ new.myKey = sc.myKey /\ new.state = sc.state
    <3>1. new = [state |-> sc.state, chatId |-> sc.chatId, myKey |-> sc.myKey, key |-> key,
                 gAOrB |-> sc.gAOrB, deleted |-> sc.deleted]
      BY <1>4, <1>6, <2>1 DEF ObjectType
    <3> QED
      BY <1>4, <1>6, <3>1 DEF ObjectType
  <2>5. AsksFor(m, w, c)
    <3>1. w \in [DOMAIN objects -> ObjectType]
      BY <2>1, <2>4, Fresh
    <3>2. \A y \in DOMAIN objects :
            /\ w[y].chatId = objects[y].chatId /\ w[y].state = objects[y].state
            /\ w[y].deleted = objects[y].deleted /\ w[y].myKey = objects[y].myKey
      BY <1>1, <2>1, <2>4
    <3> QED
      BY <1>1, <2>1, <3>1, <3>2 DEF AsksFor
  <2>6. c \in DOMAIN mChats
    BY <1>1, <1>6 DEF Has
  <2> QED
    BY <1>2, <2>3, <2>5, <2>6, AsksToDiscard
<1> QED
  BY <1>3, <1>5, <1>6

\* EncryptedChatDiscarded.
LEMMA PeerDiscarded ==
  ASSUME AlwaysInv, Running, NEW u \in UpdateType, u \in Pending, OnEncryptedChatDiscarded(u),
         UNCHANGED <<answers, server, config, kills>>,
         updates' \in Seq(UpdateType), Pending' \subseteq Pending, repeats' \in Nat
  PROVE  AlwaysInv'
<1>1. UNCHANGED <<requests, calls, renames>> /\ u.kind = "discarded"
  BY DEF OnEncryptedChatDiscarded
<1>2. Quiet
  BY <1>1 DEF Quiet
<1>3. CASE ~Has(mChats, u.chat)
  BY <1>1, <1>2, <1>3, NothingMoves DEF OnEncryptedChatDiscarded
<1>4. CASE Has(mChats, u.chat)
  <2>1. u.chat \in Chats /\ Discarded(u.chat)
    BY <1>1 DEF UpdateType, AlwaysInv, KnownInv
  <2>2. PICK id, c, p, m, o, after, x :
          /\ id = 0 /\ c = u.chat /\ p = mP /\ x = mChats[u.chat] /\ Drop(m, o, after, x, id, c)
    BY DEF Drop
  <2>3. x \in DOMAIN objects /\ objects[x].chatId = c
    BY <1>4, <2>1, <2>2, ObjectOf
  <2>4. SaveThen(m, o, p, after)
    <3>1. SaveThen(Remove(mChats, c), objects, mP, Deleted(x))
      BY <1>4, <2>2 DEF OnEncryptedChatDiscarded
    <3>2. Remove(mChats, c) = m
      <4>1. 0 \notin DOMAIN mChats
        BY Fresh, NotIds
      <4>2. DOMAIN mChats \ {c} = DOMAIN mChats \ {0, c}
        BY <4>1
      <4> QED
        BY <2>2, <4>2 DEF Drop, Remove
    <3> QED
      BY <2>2, <3>1, <3>2 DEF Drop
  <2>5. c \in Chats /\ Discarded(c) /\ id \in Nat /\ p \in 0..config /\ Drop(m, o, after, x, id, c)
    BY <2>1, <2>2, Fresh
  <2>6. /\ \A r \in calls' : r.answer # NoRequest => r.answer # id
        /\ \A b \in answers' : b.id # NoRequest => b.id # id
        /\ calls' \subseteq calls
    BY <1>1, <2>2 DEF NoRequest
  <2> QED
    BY <1>2, <2>3, <2>4, <2>5, <2>6, Drops
<1> QED
  BY <1>3, <1>4

\* processSecretChatUpdate.
LEMMA Updates ==
  ASSUME AlwaysInv, Running, ProcessUpdate
  PROVE  AlwaysInv'
<1>1. PICK u : u = Head(updates)
  OBVIOUS
<1>2. /\ updates # <<>>
      /\ OnEncryptedChatRequested(u) \/ OnEncryptedChat(u) \/ OnEncryptedChatDiscarded(u)
      /\ \/ updates' = Tail(updates) /\ UNCHANGED repeats
         \/ repeats' = repeats + 1 /\ UNCHANGED updates
      /\ UNCHANGED <<answers, server, config, kills>>
  BY <1>1 DEF ProcessUpdate
<1>3. /\ updates' \in Seq(UpdateType) /\ Pending' \subseteq Pending
      /\ u \in Pending /\ u \in UpdateType
  BY <1>1, <1>2, Processed DEF AlwaysInv
<1>4. repeats' \in Nat /\ UNCHANGED <<answers, server, config, kills>>
  BY <1>2, Fresh
<1>5. CASE OnEncryptedChatRequested(u)
  <2>1. PICK m, o : Requested(m, o, u)
    BY DEF Requested
  <2>2. /\ Ask("getDhConfig", u.chat) /\ mChats' = m /\ objects' = Restrict(o, Range(m))
        /\ UNCHANGED <<mP, stored, fault>>
    BY <1>5, <2>1 DEF OnEncryptedChatRequested, Continue, Requested
  <2> QED
    BY <1>3, <1>4, <2>1, <2>2, PeerIsHeard
<1> QED
  BY <1>2, <1>3, <1>4, <1>5, PeerAgreed, PeerDiscarded

-----------------------------------------------------------------------------
(* The server, the peer and the restart preserve it.                       *)

\* What the server may answer: with the identifier of a request it takes.
Answered(A) ==
  /\ A \in SUBSET AnswerType /\ \A a, b \in A : a = b
  /\ answers' \subseteq answers \cup A
  /\ \A a \in A : a.id # NoRequest =>
       \E r \in calls : r.answer = a.id /\ r.chat = a.chat /\ r \notin calls'
  /\ \A a \in A :
       /\ a.kind = "accepted" => a.id = NoRequest
       /\ a.kind = "kept" => a.id # NoRequest
       /\ a.kind \in {"discarded", "declined"} => Discarded(a.chat)'
       /\ a.kind = "accepted" => /\ server'[a.chat].status # "none"
                                 /\ Has(mChats, a.chat) \/ Discarded(a.chat)'

\* The network of a step of the server that answers A.
LEMMA NetAnswered ==
  ASSUME AlwaysInv, UNCHANGED <<mChats, objects, requests, renames>>, calls' \subseteq calls,
         updates' \in Seq(UpdateType), NEW A, Answered(A)
  PROVE  NetType' /\ IdsInv' /\ PresentInv' /\ EntriesInv'
<1>1. /\ requests \in Nat /\ calls \subseteq CallType /\ answers \subseteq AnswerType
      /\ \A r \in calls : /\ r.answer \in Nat /\ r.answer <= requests
                          /\ r.method \in {"getDhConfig", "discard"} <=> r.answer # NoRequest
                          /\ r.method # "getDhConfig" => r.chat \in Chats
      /\ \A a \in answers : /\ a.id <= requests /\ (a.kind = "accepted" => a.id = NoRequest)
                            /\ a.kind = "kept" => a.id # NoRequest
  BY DEF AlwaysInv, Types, NetType, CallType
<1>2. /\ A \in SUBSET AnswerType /\ \A a, b \in A : a = b
      /\ answers' \subseteq answers \cup A
      /\ \A a \in A : /\ a.kind = "accepted" => a.id = NoRequest
                      /\ a.kind = "kept" => a.id # NoRequest
  BY DEF Answered
<1>3. ASSUME NEW a \in A, a.id # NoRequest
      PROVE  \E r \in calls : r.answer = a.id /\ r.chat = a.chat /\ r \notin calls'
  BY <1>3 DEF Answered
<1>4. NetType'
  <2>1. \A a \in A : a.id <= requests
    <3>1. SUFFICES ASSUME NEW a \in A PROVE a.id <= requests
      OBVIOUS
    <3>2. CASE a.id = NoRequest
      BY <1>1, <3>2 DEF NoRequest
    <3>3. CASE a.id # NoRequest
      BY <1>1, <1>3, <3>3
    <3> QED
      BY <3>2, <3>3
  <2>2. answers' \subseteq AnswerType
    BY <1>1, <1>2
  <2> QED
    BY <1>1, <1>2, <2>1, <2>2 DEF NetType
<1>5. IdsInv'
  <2>1. \A a \in A, b \in answers : a.id = b.id => a.id = NoRequest
    BY <1>3 DEF AlwaysInv, IdsInv
  <2>2. \A a \in A, r \in calls' : r.answer = a.id => a.id = NoRequest
    BY <1>3 DEF AlwaysInv, IdsInv
  <2>3. \A a, b \in answers' : a.id = b.id /\ a.id # NoRequest => a = b
    <3>1. SUFFICES ASSUME NEW a \in answers', NEW b \in answers', a.id = b.id, a.id # NoRequest
                   PROVE  a = b
      OBVIOUS
    <3>2. (a \in answers \/ a \in A) /\ (b \in answers \/ b \in A)
      BY <1>2
    <3> QED
      BY <1>2, <2>1, <3>1, <3>2 DEF AlwaysInv, IdsInv
  <2>4. \A r \in calls', a \in answers' : r.answer = a.id => a.id = NoRequest
    BY <1>2, <2>2 DEF AlwaysInv, IdsInv
  <2>5. \A r, q \in calls' : r.answer = q.answer /\ r.answer # NoRequest => r = q
    BY DEF AlwaysInv, IdsInv
  <2> QED
    BY <2>3, <2>4, <2>5 DEF IdsInv
<1>6. PresentInv'
  BY <1>2, <1>3 DEF AlwaysInv, PresentInv, Has
<1>7. EntriesInv'
  <2>1. 0 \notin DOMAIN mChats
    BY Fresh, NotIds
  <2>2. \A a \in A : AnswerOf(mChats, objects, a)
    <3>1. SUFFICES ASSUME NEW a \in A, Has(mChats, a.id)
                   PROVE  objects[mChats[a.id]].chatId = a.chat
      BY DEF AnswerOf
    <3>2. PICK r \in calls : r.answer = a.id /\ r.chat = a.chat
      BY <1>3, <2>1, <3>1 DEF Has, NoRequest
    <3> QED
      BY <3>1, <3>2 DEF AlwaysInv, EntriesInv, CallOf
  <2>3. \A a \in answers : AnswerOf(mChats, objects, a)
    BY DEF AlwaysInv, EntriesInv
  <2>4. \A a \in answers' : AnswerOf(mChats', objects', a)
    BY <1>2, <2>2, <2>3
  <2>5. \A r \in calls' : CallOf(mChats', objects', r)
    BY DEF AlwaysInv, EntriesInv
  <2> QED
    BY <2>4, <2>5 DEF EntriesInv
<1> QED
  BY <1>4, <1>5, <1>6, <1>7

\* The invariant of a step of the server or the peer.
LEMMA ServerStep ==
  ASSUME AlwaysInv, UNCHANGED clientVars, UNCHANGED <<fault, requests, kills, repeats, renames>>,
         config' \in Nat, config' >= config, server' \in [Chats -> RecordType],
         \A c \in Chats : server[c].status # "none" => server'[c].status # "none",
         \A c \in Chats : Discarded(c) => Discarded(c)',
         calls' \subseteq calls,
         \A q \in calls' : q.method = "request" => server'[q.chat].status = "none",
         NEW A, Answered(A), updates' \in Seq(UpdateType),
         \A u \in Pending' : \/ u \in Pending
                             \/ /\ server'[u.chat].status # "none"
                                /\ u.kind = "discarded" => Discarded(u.chat)',
         CountInv'
  PROVE  AlwaysInv'
<1>1. UNCHANGED <<mChats, objects, mP, stored>>
  BY DEF clientVars
<1>2. NetType' /\ IdsInv' /\ PresentInv' /\ EntriesInv'
  BY <1>1, NetAnswered
<1>3. Types'
  <2>1. MapType(mChats', objects', requests') /\ DOMAIN objects' = Range(mChats')
    BY <1>1 DEF AlwaysInv, Types
  <2>2. FileType'
    BY <1>1 DEF AlwaysInv, Types, FileType
  <2>3. ServerType'
    BY <1>1 DEF AlwaysInv, Types, ServerType
  <2>4. OtherType'
    BY DEF AlwaysInv, Types, OtherType
  <2> QED
    BY <1>2, <2>1, <2>2, <2>3, <2>4 DEF Types
<1>4. MapInv(mChats', objects', server')
  <2>1. \A k \in DOMAIN mChats : objects[mChats[k]].chatId \in Chats \cup {NoChat}
    BY Fresh DEF ObjectType
  <2> QED
    BY <1>1, <2>1 DEF AlwaysInv, MapInv, Discarded
<1>5. KnownInv'
  <2>1. \A r \in calls' : CallKnown(mChats', server', r)
    <3>1. SUFFICES ASSUME NEW r \in calls' PROVE CallKnown(mChats', server', r)
      OBVIOUS
    <3>2. r \in calls /\ CallKnown(mChats, server, r) /\ (r.method # "getDhConfig" => r.chat \in Chats)
      BY DEF AlwaysInv, KnownInv, Types, NetType
    <3> QED
      BY <1>1, <3>2 DEF CallKnown, Discarded, Has
  <2>2. \A r, q \in calls' :
          r.method = "request" /\ q.method = "request" /\ r.chat = q.chat => r = q
    BY DEF AlwaysInv, KnownInv
  <2>3. \A a \in answers' :
          /\ a.kind \in {"discarded", "declined"} => Discarded(a.chat)'
          /\ a.kind = "accepted" => /\ server'[a.chat].status # "none"
                                    /\ Has(mChats', a.chat) \/ Discarded(a.chat)'
    <3>1. ASSUME NEW a \in answers
          PROVE  /\ a.kind \in {"discarded", "declined"} => Discarded(a.chat)'
                 /\ a.kind = "accepted" => /\ server'[a.chat].status # "none"
                                           /\ Has(mChats', a.chat) \/ Discarded(a.chat)'
      <4>1. a.chat \in Chats
        BY DEF AlwaysInv, Types, NetType, AnswerType
      <4>2. /\ a.kind \in {"discarded", "declined"} => Discarded(a.chat)
            /\ a.kind = "accepted" => /\ server[a.chat].status # "none"
                                      /\ Has(mChats, a.chat) \/ Discarded(a.chat)
        BY DEF AlwaysInv, KnownInv
      <4> QED
        BY <1>1, <4>1, <4>2
    <3>2. /\ answers' \subseteq answers \cup A
          /\ \A a \in A : /\ a.kind \in {"discarded", "declined"} => Discarded(a.chat)'
                          /\ a.kind = "accepted" => /\ server'[a.chat].status # "none"
                                                    /\ Has(mChats, a.chat) \/ Discarded(a.chat)'
      BY DEF Answered
    <3> QED
      BY <1>1, <3>1, <3>2
  <2>4. \A u \in Pending' : /\ server'[u.chat].status # "none"
                            /\ u.kind = "discarded" => Discarded(u.chat)'
    <3>1. SUFFICES ASSUME NEW u \in Pending
                   PROVE  /\ server'[u.chat].status # "none"
                          /\ u.kind = "discarded" => Discarded(u.chat)'
      OBVIOUS
    <3>2. u.chat \in Chats
      <4>1. updates \in Seq(UpdateType)
        BY DEF AlwaysInv, Types, NetType
      <4>2. PICK i \in DOMAIN updates : u = updates[i]
        BY DEF Pending
      <4>3. u \in UpdateType
        BY <4>1, <4>2
      <4> QED
        BY <4>3 DEF UpdateType
    <3> QED
      BY <3>2 DEF AlwaysInv, KnownInv
  <2> QED
    BY <2>1, <2>2, <2>3, <2>4 DEF KnownInv
<1>6. FaultInv'
  BY DEF AlwaysInv, FaultInv, Running
<1> QED
  BY <1>2, <1>3, <1>4, <1>5, <1>6 DEF AlwaysInv

\* CountInv of a step of the server or the peer that takes no free chat.
LEMMA CountAside ==
  ASSUME AlwaysInv, UNCHANGED <<mChats, objects, stored>>, calls' \subseteq calls,
         \A c \in FreeChats : server'[c] = server[c]
  PROVE  CountInv'
<1>1. Naming' \subseteq Naming
  BY DEF Naming, Unnamed, Has
<1>2. FreeChats \subseteq FreeChats'
  BY DEF FreeChats
<1> QED
  BY <1>1, <1>2, CountKept

\* An update comes after those under way.
LEMMA Appended ==
  ASSUME AlwaysInv, NEW u \in UpdateType, updates' = Append(updates, u)
  PROVE  updates' \in Seq(UpdateType) /\ Pending' = Pending \cup {u}
<1>1. updates \in Seq(UpdateType)
  BY DEF AlwaysInv, Types, NetType
<1>2. /\ updates' \in Seq(UpdateType) /\ DOMAIN updates' = 1..(Len(updates) + 1)
      /\ DOMAIN updates = 1..Len(updates) /\ Len(updates) \in Nat
      /\ updates'[Len(updates) + 1] = u
      /\ \A i \in DOMAIN updates : updates'[i] = updates[i]
  BY <1>1
<1>3. DOMAIN updates' = DOMAIN updates \cup {Len(updates) + 1}
  BY <1>2
<1> QED
  BY <1>2, <1>3 DEF Pending

\* The server executes a request.
LEMMA ServerExecutesKeeps ==
  ASSUME AlwaysInv, NEW r \in calls, ServerExecutes(r)
  PROVE  AlwaysInv'
<1>f. config \in Nat /\ server \in [Chats -> RecordType] /\ r \in CallType
  BY DEF AlwaysInv, Types, ServerType, NetType
<1>1. /\ ServerRequest(r) \/ ServerAccept(r) \/ ServerDiscard(r)
      /\ calls' = calls \ {r}
      /\ UNCHANGED clientVars
      /\ UNCHANGED <<fault, requests, updates, config, kills, repeats, renames>>
  BY DEF ServerExecutes, boundVars
<1>2. r.method \in {"request", "accept", "discard"} /\ r.chat \in Chats
  <2>1. r.method \in {"request", "accept", "discard"}
    BY <1>1 DEF ServerRequest, ServerAccept, ServerDiscard
  <2> QED
    BY <2>1 DEF AlwaysInv, Types, NetType
<1>3. PICK c : c = r.chat
  OBVIOUS
<1>4. c \in Chats /\ c \notin FreeChats
  BY <1>2, <1>3, FreeIs
<1>n. answers \subseteq AnswerType /\ r.answer \in Nat
      /\ (r.method \in {"getDhConfig", "discard"} <=> r.answer # NoRequest)
  BY DEF AlwaysInv, Types, NetType, CallType
<1>5. \E A : \E rec \in RecordType :
        /\ server' = [server EXCEPT ![c] = rec] /\ Answered(A)
        /\ server[c].status # "none" => rec.status # "none"
        /\ Discarded(c) => rec.status = "discarded"
        /\ rec.status # server[c].status => r.method = "request" \/ server[c].status # "none"
  <2>1. CASE ServerRequest(r)
    <3>1. PICK A, rec :
            /\ A = {}
            /\ rec = [status |-> "requested", ours |-> TRUE, g |-> r.g, peerKey |-> NoKey]
      OBVIOUS
    <3>2. rec \in RecordType /\ rec.status = "requested"
      <4>1. NoKey \in Keys /\ r.g \in Powers
        BY <1>f DEF NoKey, Keys, CallType
      <4> QED
        BY <3>1, <4>1 DEF RecordType
    <3>3. server' = [server EXCEPT ![c] = rec] /\ answers' = answers /\ r.method = "request"
      BY <1>3, <2>1, <3>1 DEF ServerRequest
    <3>4. Answered(A)
      BY <3>1, <3>3 DEF Answered
    <3>5. server[c].status = "none"
      BY <1>3, <3>3 DEF AlwaysInv, KnownInv, CallKnown
    <3> QED
      BY <3>2, <3>3, <3>4, <3>5 DEF Discarded
  <2>2. CASE ServerAccept(r)
    <3>0. r.method = "accept" /\ r.answer = NoRequest
      BY <1>n, <2>2 DEF ServerAccept
    <3>1. CASE server[c].status = "requested"
      <4>1. PICK key, k : /\ key = SharedKey(server[c].g.p, Peer, r.g)
                          /\ k = IF key = r.key THEN key ELSE NoKey
        OBVIOUS
      <4>2. PICK a, A, rec :
              /\ a = Answer("accepted", NoRequest, c) /\ A = {a}
              /\ rec = [server[c] EXCEPT !.status = "accepted", !.peerKey = k]
        OBVIOUS
      <4>3. /\ answers' = answers \cup {a} /\ server' = [server EXCEPT ![c] = rec]
        <5>1. /\ answers' = answers \cup {a}
              /\ server' = [server EXCEPT ![c].status = "accepted", ![c].peerKey = k]
          BY <1>3, <2>2, <3>1, <4>1, <4>2 DEF ServerAccept
        <5> QED
          BY <1>4, <1>f, <4>2, <5>1
      <4>4. k \in Keys
        <5>1. r.key \in Keys /\ NoKey \in Keys
          BY <1>f DEF CallType, NoKey, Keys
        <5> QED
          BY <4>1, <5>1
      <4>5. rec \in RecordType /\ rec.status = "accepted"
        <5>1. server[c] \in RecordType
          BY <1>4, <1>f
        <5> QED
          BY <4>2, <4>4, <5>1 DEF RecordType
      <4>6. a \in AnswerType /\ a.kind = "accepted" /\ a.id = NoRequest /\ a.chat = c
        BY <1>4, <4>2 DEF Answer, AnswerType, NoRequest
      <4>7. Has(mChats, c) \/ Discarded(c)
        BY <1>3, <3>0 DEF AlwaysInv, KnownInv, CallKnown, Discarded
      <4>8. Has(mChats, c) /\ server'[c].status # "none"
        BY <1>4, <1>f, <3>1, <4>3, <4>5, <4>7 DEF Discarded
      <4>9. Answered(A)
        BY <4>2, <4>3, <4>6, <4>8 DEF Answered
      <4> QED
        BY <3>1, <4>3, <4>5, <4>9 DEF Discarded
    <3>2. CASE server[c].status = "discarded"
      <4>1. PICK a, A, rec : a = Answer("declined", NoRequest, c) /\ A = {a} /\ rec = server[c]
        OBVIOUS
      <4>2. answers' = answers \cup {a} /\ server' = server
        BY <1>3, <2>2, <3>2, <4>1 DEF ServerAccept
      <4>3. rec \in RecordType /\ server' = [server EXCEPT ![c] = rec]
        BY <1>4, <1>f, <4>1, <4>2
      <4>4. a \in AnswerType /\ a.kind = "declined" /\ a.id = NoRequest /\ a.chat = c
        BY <1>4, <4>1 DEF Answer, AnswerType, NoRequest
      <4>5. Answered(A)
        BY <3>2, <4>1, <4>2, <4>4 DEF Answered, Discarded
      <4> QED
        BY <3>2, <4>1, <4>3, <4>5
    <3>3. CASE server[c].status \notin {"requested", "discarded"}
      <4>1. PICK A, rec : A = {} /\ rec = server[c]
        OBVIOUS
      <4>2. answers' = answers /\ server' = server
        BY <1>3, <2>2, <3>3 DEF ServerAccept
      <4>3. rec \in RecordType /\ server' = [server EXCEPT ![c] = rec]
        BY <1>4, <1>f, <4>1, <4>2
      <4>4. Answered(A)
        BY <4>1, <4>2 DEF Answered
      <4> QED
        BY <3>3, <4>1, <4>3, <4>4 DEF Discarded
    <3> QED
      BY <3>1, <3>2, <3>3
  <2>3. CASE ServerDiscard(r)
    <3>0. r.method = "discard" /\ r.answer # NoRequest /\ server[c].status # "none"
      BY <1>3, <1>n, <2>3 DEF ServerDiscard, AlwaysInv, KnownInv, CallKnown
    <3>1. PICK kind \in {"declined", "discarded", "kept"},
               rec \in {server[c], [server[c] EXCEPT !.status = "discarded"]} :
            /\ answers' = answers \cup {Answer(kind, r.answer, c)}
            /\ server' = [server EXCEPT ![c] = rec]
            /\ kind \in {"discarded", "declined"} => rec.status = "discarded"
            /\ Discarded(c) => rec.status = "discarded"
      <4>1. server[c] \in RecordType /\ [server[c] EXCEPT !.status = "discarded"].status = "discarded"
        BY <1>4, <1>f DEF RecordType
      <4>2. server = [server EXCEPT ![c] = server[c]]
        BY <1>4, <1>f
      <4>3. [server EXCEPT ![c].status = "discarded"]
              = [server EXCEPT ![c] = [server[c] EXCEPT !.status = "discarded"]]
        BY <1>4, <1>f
      <4>4. \/ /\ server[c].status = "discarded"
               /\ answers' = answers \cup {Answer("declined", r.answer, c)} /\ server' = server
            \/ /\ server[c].status # "discarded"
               /\ answers' = answers \cup {Answer("discarded", r.answer, c)}
               /\ server' = [server EXCEPT ![c].status = "discarded"]
            \/ /\ server[c].status # "discarded"
               /\ answers' = answers \cup {Answer("kept", r.answer, c)} /\ server' = server
        BY <1>3, <2>3 DEF ServerDiscard
      <4> QED
        BY <4>1, <4>2, <4>3, <4>4 DEF Discarded
    <3>2. rec \in RecordType /\ rec.status # "none"
      <4>1. server[c] \in RecordType
        BY <1>4, <1>f
      <4> QED
        BY <3>0, <3>1, <4>1 DEF RecordType
    <3>3. PICK a, A : a = Answer(kind, r.answer, c) /\ A = {a}
      OBVIOUS
    <3>4. a \in AnswerType /\ a.kind = kind /\ a.id = r.answer /\ a.chat = c
      BY <1>4, <1>n, <3>1, <3>3 DEF Answer, AnswerType
    <3>5. kind \in {"discarded", "declined"} => Discarded(c)'
      BY <1>4, <1>f, <3>1 DEF Discarded
    <3>6. Answered(A)
      BY <1>1, <1>3, <3>0, <3>1, <3>3, <3>4, <3>5 DEF Answered
    <3> QED
      BY <3>0, <3>1, <3>2, <3>6
  <2> QED
    BY <1>1, <2>1, <2>2, <2>3
<1>6. PICK A : \E rec \in RecordType :
        /\ server' = [server EXCEPT ![c] = rec] /\ Answered(A)
        /\ server[c].status # "none" => rec.status # "none"
        /\ Discarded(c) => rec.status = "discarded"
        /\ rec.status # server[c].status => r.method = "request" \/ server[c].status # "none"
  BY <1>5
<1>r. PICK rec \in RecordType :
        /\ server' = [server EXCEPT ![c] = rec] /\ Answered(A)
        /\ server[c].status # "none" => rec.status # "none"
        /\ Discarded(c) => rec.status = "discarded"
        /\ rec.status # server[c].status => r.method = "request" \/ server[c].status # "none"
  BY <1>6
<1>7. /\ server' \in [Chats -> RecordType] /\ server'[c] = rec
      /\ \A d \in Chats : d # c => server'[d] = server[d]
  BY <1>4, <1>r, <1>f
<1>8. /\ \A d \in Chats : server[d].status # "none" => server'[d].status # "none"
      /\ \A d \in Chats : Discarded(d) => Discarded(d)'
  BY <1>r, <1>7 DEF Discarded
<1>9. \A q \in calls' : q.method = "request" => server'[q.chat].status = "none"
  <2>1. SUFFICES ASSUME NEW q \in calls, q # r, q.method = "request"
                 PROVE  server'[q.chat].status = "none"
    BY <1>1
  <2>2. q.chat \in Chats /\ server[q.chat].status = "none"
    BY <2>1 DEF AlwaysInv, Types, NetType, KnownInv, CallKnown
  <2>3. q.chat = c => r.method # "request"
    BY <1>3, <2>1 DEF AlwaysInv, KnownInv
  <2> QED
    BY <1>r, <1>7, <2>2, <2>3
<1>10. CountInv'
  <2>1. \A d \in FreeChats : server'[d] = server[d]
    BY <1>4, <1>7 DEF FreeChats
  <2> QED
    BY <1>1, <2>1, CountAside DEF clientVars
<1>11. /\ updates' \in Seq(UpdateType) /\ config' \in Nat /\ config' >= config
       /\ calls' \subseteq calls /\ \A u \in Pending' : u \in Pending
  BY <1>1, <1>f DEF AlwaysInv, Types, NetType, Pending
<1> QED
  BY <1>1, <1>r, <1>7, <1>8, <1>9, <1>10, <1>11, ServerStep

\* A step that does not answer.
LEMMA NoAnswer == ASSUME UNCHANGED answers PROVE Answered({})
BY DEF Answered

\* The peer changes the record of the chat c and the update u says so.
LEMMA PeerRecord ==
  ASSUME AlwaysInv, NEW c \in Chats, NEW rec \in RecordType, server' = [server EXCEPT ![c] = rec],
         NEW u \in UpdateType, updates' = Append(updates, u), u.chat = c,
         UNCHANGED clientVars, UNCHANGED <<fault, requests, calls, answers, config>>,
         UNCHANGED boundVars, rec.status # "none", Discarded(c) => rec.status = "discarded",
         u.kind = "discarded" => rec.status = "discarded",
         server[c].status = "none" => \A q \in calls : q.chat # c, CountInv'
  PROVE  AlwaysInv'
<1>1. config \in Nat /\ server \in [Chats -> RecordType]
  BY DEF AlwaysInv, Types, ServerType
<1>2. /\ server' \in [Chats -> RecordType] /\ server'[c] = rec
      /\ \A d \in Chats : d # c => server'[d] = server[d]
  BY <1>1
<1>3. /\ \A d \in Chats : server[d].status # "none" => server'[d].status # "none"
      /\ \A d \in Chats : Discarded(d) => Discarded(d)'
  BY <1>2 DEF Discarded
<1>4. \A q \in calls' : q.method = "request" => server'[q.chat].status = "none"
  <2>1. SUFFICES ASSUME NEW q \in calls, q.method = "request"
                 PROVE  server'[q.chat].status = "none"
    OBVIOUS
  <2>2. q.chat \in Chats /\ server[q.chat].status = "none"
    BY <2>1 DEF AlwaysInv, Types, NetType, KnownInv, CallKnown
  <2> QED
    BY <1>2, <2>2
<1>5. /\ updates' \in Seq(UpdateType)
      /\ \A v \in Pending' : \/ v \in Pending
                             \/ /\ server'[v.chat].status # "none"
                                /\ v.kind = "discarded" => Discarded(v.chat)'
  <2>1. updates' \in Seq(UpdateType) /\ Pending' = Pending \cup {u}
    BY Appended
  <2>2. server'[u.chat].status # "none" /\ (u.kind = "discarded" => Discarded(u.chat)')
    BY <1>2 DEF Discarded
  <2> QED
    BY <2>1, <2>2
<1>6. PICK A : Answered(A)
  BY NoAnswer
<1>7. /\ UNCHANGED <<fault, requests, kills, repeats, renames>> /\ config' \in Nat
      /\ config' >= config /\ calls' \subseteq calls
  BY <1>1 DEF boundVars
<1>8. server' \in [Chats -> RecordType]
  BY <1>2
<1> QED
  BY <1>3, <1>4, <1>5, <1>6, <1>7, <1>8, ServerStep

\* The peer asks for a chat.
LEMMA PeerRequestsKeeps ==
  ASSUME AlwaysInv, PeerRequests, UNCHANGED clientVars, UNCHANGED boundVars,
         UNCHANGED <<fault, requests, calls, answers, config>>
  PROVE  AlwaysInv'
<1>1. PICK c, g, rec, u :
        /\ c = NextChat /\ g = Power(config, Peer)
        /\ rec = [NoRecord EXCEPT !.status = "requested", !.g = g]
        /\ u = Update("requested", c, g, NoKey)
  OBVIOUS
<1>2. /\ Cardinality(Unnamed) < Cardinality(FreeChats)
      /\ server' = [server EXCEPT ![c] = rec] /\ updates' = Append(updates, u)
  BY <1>1 DEF PeerRequests
<1>3. FreeChats \in SUBSET Chats
  BY DEF FreeChats
<1>4. /\ Cardinality(Unnamed) \in Nat /\ Cardinality(Naming) \in Nat
      /\ Cardinality(Naming) <= Cardinality(Unnamed)
  BY NamingFinite DEF AlwaysInv
<1>5. /\ IsFiniteSet(FreeChats) /\ Cardinality(FreeChats) \in Nat
      /\ (Cardinality(FreeChats) > 0 => FreeChats # {})
  BY <1>3, FreeFinite
<1>6. c \in FreeChats
  BY <1>1, <1>2, <1>4, <1>5 DEF NextChat
<1>7. /\ c \in Chats /\ server[c].status = "none" /\ \A q \in calls : q.chat # c
  BY <1>6, FreeIs
<1>8. g \in Powers /\ NoKey \in Keys /\ config \in Nat /\ server \in [Chats -> RecordType]
  <2>1. config \in Nat /\ server \in [Chats -> RecordType]
    BY DEF AlwaysInv, Types, ServerType
  <2> QED
    BY <1>1, <2>1 DEF Power, Powers, NoKey, Keys, Peer
<1>9. rec \in RecordType /\ rec.status = "requested"
  <2>1. rec = [status |-> "requested", ours |-> FALSE, g |-> g, peerKey |-> NoKey]
    BY <1>1 DEF NoRecord
  <2> QED
    BY <1>8, <2>1 DEF RecordType
<1>10. u \in UpdateType /\ u.chat = c /\ u.kind = "requested"
  BY <1>1, <1>7, <1>8 DEF Update, UpdateType
<1>11. CountInv'
  <2>1. Naming' = Naming
    BY DEF clientVars, Naming, Unnamed
  <2>2. FreeChats \ {c} \subseteq FreeChats'
    <3>1. \A d \in FreeChats \ {c} : server'[d] = server[d]
      BY <1>2, <1>3, <1>8
    <3> QED
      BY <3>1 DEF FreeChats, clientVars
  <2>3. FreeChats' \in SUBSET Chats
    BY DEF FreeChats
  <2>4. IsFiniteSet(FreeChats') /\ Cardinality(FreeChats') \in Nat
    BY <2>3, FreeFinite
  <2>5. Cardinality(FreeChats \ {c}) = Cardinality(FreeChats) - 1
    BY <1>5, <1>6, FS_RemoveElement
  <2>6. Cardinality(FreeChats \ {c}) <= Cardinality(FreeChats')
    BY <2>2, <2>4, FS_Subset
  <2> QED
    BY <1>2, <1>4, <1>5, <2>1, <2>4, <2>5, <2>6 DEF CountInv
<1>12. rec.status # "none" /\ (Discarded(c) => rec.status = "discarded") /\ u.kind # "discarded"
  BY <1>7, <1>9, <1>10 DEF Discarded
<1> QED
  BY <1>2, <1>7, <1>9, <1>10, <1>11, <1>12, PeerRecord

\* The peer asks for a chat, agrees to one or discards one.
LEMMA PeerActsKeeps ==
  ASSUME AlwaysInv, PeerActs
  PROVE  AlwaysInv'
<1>1. /\ UNCHANGED clientVars /\ UNCHANGED boundVars
      /\ UNCHANGED <<fault, requests, calls, answers, config>>
  BY DEF PeerActs
<1>2. config \in Nat /\ server \in [Chats -> RecordType]
  BY DEF AlwaysInv, Types, ServerType
<1>3. ASSUME NEW c \in Chats, NEW rec \in RecordType, server' = [server EXCEPT ![c] = rec],
             server[c].status # "none"
      PROVE  CountInv'
  <2>1. c \notin FreeChats
    BY <1>3 DEF FreeChats
  <2>2. \A d \in FreeChats : server'[d] = server[d]
    BY <1>2, <1>3, <2>1 DEF FreeChats
  <2> QED
    BY <1>1, <2>2, CountAside DEF clientVars
<1>4. ASSUME NEW c \in Chats, PeerAccepts(c)
      PROVE  AlwaysInv'
  <2>1. PICK key, rec, u :
          /\ key = SharedKey(config, Peer, server[c].g)
          /\ rec = [server[c] EXCEPT !.status = "accepted", !.peerKey = key]
          /\ u = Update("accepted", c, Power(config, Peer), key)
    OBVIOUS
  <2>2. server[c].status = "requested" /\ updates' = Append(updates, u) /\ server[c] \in RecordType
    BY <1>2, <1>4, <2>1 DEF PeerAccepts
  <2>3. server' = [server EXCEPT ![c] = rec]
    <3>1. server' = [server EXCEPT ![c].status = "accepted", ![c].peerKey = key]
      BY <1>4, <2>1 DEF PeerAccepts
    <3> QED
      BY <1>2, <2>1, <3>1
  <2>4. key \in Keys /\ Power(config, Peer) \in Powers
    <3>1. server[c].g \in Powers /\ config \in Int /\ Peer \in Int
      BY <1>2, <2>2 DEF RecordType, Peer
    <3> QED
      BY <2>1, <3>1, KeyTypes
  <2>5. rec \in RecordType /\ rec.status = "accepted"
    BY <2>1, <2>2, <2>4 DEF RecordType
  <2>6. u \in UpdateType /\ u.chat = c /\ u.kind = "accepted"
    BY <2>1, <2>4 DEF Update, UpdateType
  <2>7. CountInv'
    BY <1>3, <2>2, <2>3, <2>5
  <2>8. /\ rec.status # "none" /\ (Discarded(c) => rec.status = "discarded") /\ u.kind # "discarded"
        /\ server[c].status # "none"
    BY <2>2, <2>5, <2>6 DEF Discarded
  <2> QED
    BY <1>1, <2>2, <2>3, <2>5, <2>6, <2>7, <2>8, PeerRecord
<1>5. ASSUME NEW c \in Chats, PeerDiscards(c)
      PROVE  AlwaysInv'
  <2>1. PICK rec, u : /\ rec = [server[c] EXCEPT !.status = "discarded"]
                      /\ u = Update("discarded", c, NoPower, NoKey)
    OBVIOUS
  <2>2. /\ server[c].status # "none" /\ updates' = Append(updates, u) /\ server[c] \in RecordType
    BY <1>2, <1>5, <2>1 DEF PeerDiscards
  <2>3. server' = [server EXCEPT ![c] = rec]
    BY <1>2, <1>5, <2>1 DEF PeerDiscards
  <2>5. rec \in RecordType /\ rec.status = "discarded"
    BY <2>1, <2>2 DEF RecordType
  <2>6. u \in UpdateType /\ u.chat = c /\ u.kind = "discarded"
    <3>1. NoPower \in Powers /\ NoKey \in Keys
      BY DEF NoPower, Powers, NoKey, Keys
    <3> QED
      BY <2>1, <3>1 DEF Update, UpdateType
  <2>7. CountInv'
    BY <1>3, <2>2, <2>3, <2>5
  <2>8. rec.status # "none" /\ server[c].status # "none"
    BY <2>2, <2>5
  <2> QED
    BY <1>1, <2>2, <2>3, <2>5, <2>6, <2>7, <2>8, PeerRecord
<1> QED
  BY <1>1, <1>4, <1>5, PeerRequestsKeeps DEF PeerActs

\* The server has another prime.
LEMMA Reconfigures ==
  ASSUME AlwaysInv, ServerReconfigures
  PROVE  AlwaysInv'
<1>1. /\ config' = config + 1 /\ UNCHANGED clientVars
      /\ UNCHANGED <<fault, requests, calls, answers, updates, server, kills, repeats, renames>>
  BY DEF ServerReconfigures, boundVars
<1>2. config \in Nat /\ server \in [Chats -> RecordType] /\ updates \in Seq(UpdateType)
  BY DEF AlwaysInv, Types, ServerType, NetType
<1>3. PICK A : Answered(A)
  BY <1>1, NoAnswer
<1>4. CountInv'
  BY <1>1, CountAside DEF clientVars
<1>5. \A q \in calls' : q.method = "request" => server'[q.chat].status = "none"
  BY <1>1 DEF AlwaysInv, KnownInv, CallKnown
<1>6. config' \in Nat /\ config' >= config
  BY <1>1, <1>2
<1>7. \A c \in Chats : Discarded(c) => Discarded(c)'
  BY <1>1 DEF Discarded
<1>8. Pending' = Pending
  BY <1>1 DEF Pending
<1> QED
  BY <1>1, <1>2, <1>3, <1>4, <1>5, <1>6, <1>7, <1>8, ServerStep

\* A restart begins with the chats of the file.
LEMMA Restarts ==
  ASSUME AlwaysInv, Restart
  PROVE  AlwaysInv'
<1>f. /\ requests \in Nat /\ updates \in Seq(UpdateType) /\ kills \in Nat
      /\ FileType /\ ServerType /\ OtherType
  BY DEF AlwaysInv, Types, NetType, OtherType
<1>1. /\ mP' = stored.p /\ mChats' = [c \in DOMAIN stored.chats |-> c] /\ objects' = stored.chats
      /\ fault' = NoFault /\ calls' = {} /\ answers' = {} /\ updates' \in {<<>>, updates}
      /\ UNCHANGED <<stored, requests, server, config, repeats, renames>>
      /\ kills' \in {kills, kills + 1}
  BY DEF Restart, Load
<1>2. /\ DOMAIN mChats' = DOMAIN stored.chats /\ \A k \in DOMAIN mChats' : mChats'[k] = k
      /\ DOMAIN mChats' \subseteq Chats \cup {NoChat}
      /\ \A k \in DOMAIN mChats' :
           /\ objects'[k].chatId = k /\ ~objects'[k].deleted /\ objects'[k].myKey \in -1..requests
           /\ k = NoChat => objects'[k].state = "Init"
  BY <1>1, <1>f DEF FileType
<1>3. MapType(mChats', objects', requests')
  <2>1. DOMAIN mChats' \subseteq ChatKeys /\ DOMAIN objects' \subseteq ChatKeys
    BY <1>1, <1>2 DEF ChatKeys
  <2>2. mChats' \in [DOMAIN mChats' -> DOMAIN objects']
    BY <1>1
  <2>3. objects' \in [DOMAIN objects' -> ObjectType]
    BY <1>1, <1>f DEF FileType
  <2> QED
    BY <1>1, <1>2, <2>1, <2>2, <2>3 DEF MapType
<1>4. DOMAIN objects' = Range(mChats')
  BY <1>1 DEF Range
<1>5. NetType'
  <2>1. updates' \in Seq(UpdateType)
    <3>1. <<>> \in Seq(UpdateType)
      OBVIOUS
    <3>2. updates' = <<>> \/ updates' = updates
      BY <1>1
    <3> QED
      BY <1>f, <3>1, <3>2
  <2> QED
    BY <1>1, <1>f, <2>1 DEF NetType
<1>6. FileType' /\ ServerType'
  BY <1>1, <1>f DEF FileType, ServerType
<1>7. OtherType'
  BY <1>1, <1>f DEF OtherType, NoFault
<1>8. MapInv(mChats', objects', server')
  BY <1>1, <1>2 DEF MapInv, Has
<1>9. IdsInv' /\ EntriesInv' /\ PresentInv'
  BY <1>1 DEF IdsInv, EntriesInv, PresentInv
<1>10. KnownInv'
  <2>1. Pending' \subseteq Pending
    BY <1>1 DEF Pending
  <2>2. \A u \in Pending' : /\ server'[u.chat].status # "none"
                            /\ u.kind = "discarded" => Discarded(u.chat)'
    BY <1>1, <2>1 DEF AlwaysInv, KnownInv, Discarded
  <2> QED
    BY <1>1, <2>2 DEF KnownInv
<1>11. CountInv'
  <2>1. Naming' = {}
    BY <1>1 DEF Naming
  <2>2. FreeChats' \in SUBSET Chats
    BY DEF FreeChats
  <2>3. Cardinality(FreeChats') \in Nat
    BY <2>2, FreeFinite
  <2> QED
    BY <2>1, <2>3, FS_EmptySet DEF CountInv
<1>12. FaultInv'
  BY <1>1 DEF FaultInv, Running
<1> QED
  BY <1>3, <1>4, <1>5, <1>6, <1>7, <1>8, <1>9, <1>10, <1>11, <1>12 DEF AlwaysInv, Types

\* The initial state.
LEMMA Begins ==
  ASSUME Init
  PROVE  AlwaysInv
<1> USE DEF Init
<1>1. DOMAIN mChats = {} /\ DOMAIN objects = {} /\ DOMAIN stored.chats = {}
  BY DEF EmptyMap
<1>2. MapType(mChats, objects, requests) /\ DOMAIN objects = Range(mChats)
  BY <1>1 DEF MapType, EmptyMap, Range
<1>3. FileType
  BY <1>1 DEF FileType, EmptyMap
<1>4. NetType
  BY DEF NetType
<1>5. ServerType
  <2>1. NoRecord \in RecordType
    <3>1. NoPower \in Powers /\ NoKey \in Keys
      BY DEF NoPower, Powers, NoKey, Keys
    <3> QED
      BY <3>1 DEF NoRecord, RecordType
  <2> QED
    BY <2>1 DEF ServerType
<1>6. OtherType
  BY DEF OtherType, NoFault
<1>7. MapInv(mChats, objects, server) /\ IdsInv /\ EntriesInv /\ PresentInv
  BY <1>1 DEF MapInv, IdsInv, EntriesInv, PresentInv
<1>8. KnownInv
  BY DEF KnownInv, Pending
<1>9. CountInv
  <2>1. Naming = {}
    BY DEF Naming
  <2>2. FreeChats \in SUBSET Chats
    BY DEF FreeChats
  <2>3. Cardinality(FreeChats) \in Nat
    BY <2>2, FreeFinite
  <2> QED
    BY <2>1, <2>3, FS_EmptySet DEF CountInv
<1>10. FaultInv
  BY DEF FaultInv, Running
<1> QED
  BY <1>2, <1>3, <1>4, <1>5, <1>6, <1>7, <1>8, <1>9, <1>10 DEF AlwaysInv, Types

\* A step of something else.
LEMMA Stutters ==
  ASSUME AlwaysInv, UNCHANGED vars
  PROVE  AlwaysInv'
<1>1. /\ UNCHANGED <<mChats, objects, mP, stored, fault, requests, calls, answers>>
      /\ UNCHANGED <<updates, server, config, kills, repeats, renames>>
  BY DEF vars
<1>2. Types'
  BY <1>1 DEF AlwaysInv, Types, FileType, NetType, ServerType, OtherType
<1>3. IdsInv' /\ EntriesInv' /\ PresentInv' /\ FaultInv' /\ MapInv(mChats', objects', server')
  BY <1>1 DEF AlwaysInv, IdsInv, EntriesInv, PresentInv, FaultInv, Running, Discarded
<1>4. KnownInv'
  BY <1>1 DEF AlwaysInv, KnownInv, Pending, Discarded
<1>5. CountInv'
  BY <1>1 DEF AlwaysInv, CountInv, Naming, Unnamed, FreeChats
<1> QED
  BY <1>2, <1>3, <1>4, <1>5 DEF AlwaysInv

\* AlwaysInv is inductive: every action of the client, the server and the peer keeps
\* the map of chats and requests, the objects and what is under way in agreement.
THEOREM Always == Spec => []AlwaysInv
<1>1. Init => AlwaysInv
  BY Begins
<1>2. AlwaysInv /\ [Next]_vars => AlwaysInv'
  BY Creates, UserDiscards, DhConfigs, Answers, Updates, ServerExecutesKeeps, PeerActsKeeps,
     Reconfigures, Restarts, Stutters DEF Next
<1> QED
  BY <1>1, <1>2, PTL DEF Spec

\* Every variable has its type, for any number of chats and any bounds.
THEOREM TypeCorrect == Spec => []TypeOK
<1>1. AlwaysInv => TypeOK
  <2>1. SUFFICES ASSUME AlwaysInv PROVE TypeOK
    OBVIOUS
  <2>2. DOMAIN mChats \subseteq Ids /\ Range(mChats) = DOMAIN objects
    BY <2>1, Fresh DEF AlwaysInv, Types, Ids, ChatKeys
  <2>3. DOMAIN stored.chats \subseteq Chats \cup {NoChat}
    BY <2>1 DEF AlwaysInv, Types, FileType
  <2>4. \A o \in DOMAIN objects :
          /\ objects[o].state \in {"Init", "Requested", "Accepted"}
          /\ objects[o].chatId \in Chats \cup {NoChat}
          /\ objects[o].myKey \in -1..requests
    BY <2>1, Fresh DEF ObjectType, States
  <2>5. fault.kind \in {"none", "assert", "deleted", "null"} /\ fault.chat \in Chats \cup {NoChat}
    BY <2>1 DEF AlwaysInv, Types, OtherType
  <2>6. \A r \in calls : r.method \in {"getDhConfig", "request", "accept", "discard"}
    BY <2>1 DEF AlwaysInv, Types, NetType, CallType
  <2>7. \A c \in Chats : server[c].status \in {"none", "requested", "accepted", "discarded"}
    BY <2>1 DEF AlwaysInv, Types, ServerType, RecordType
  <2>8. mP \in 0..config /\ stored.p \in 0..config
    BY <2>1 DEF AlwaysInv, Types, ServerType
  <2>9. requests \in Nat /\ kills \in Nat /\ repeats \in Nat /\ renames \in Nat
    BY <2>1 DEF AlwaysInv, Types, NetType, OtherType
  <2> QED
    BY <2>2, <2>3, <2>4, <2>5, <2>6, <2>7, <2>8, <2>9 DEF TypeOK
<1> QED
  BY <1>1, Always, PTL

\* The process ends only over a chat that was discarded, or after the answer to a
\* request came under another identifier; an entry under a chat never leads to a
\* deleted object (onMessagesDhConfig, onMessagesDiscardEncryptionResult,
\* writeSecretFile), for any number of chats, requests, kills and repeated updates.
THEOREM FaultsCorrect == Spec => []FaultsNeedDiscard
<1>1. AlwaysInv => FaultsNeedDiscard
  <2>1. SUFFICES ASSUME AlwaysInv PROVE FaultsNeedDiscard
    OBVIOUS
  <2>2. ChatsAreLive
    <3>1. DOMAIN mChats \ 1..requests \subseteq DOMAIN mChats \cap ChatKeys
      BY <2>1, Fresh
    <3> QED
      BY <2>1, <3>1 DEF ChatsAreLive, AlwaysInv, MapInv
  <2>3. Running \/ renames > 0 \/ (fault.chat \in Chats /\ Discarded(fault.chat))
    BY <2>1 DEF AlwaysInv, FaultInv
  <2> QED
    BY <2>2, <2>3 DEF FaultsNeedDiscard
<1> QED
  BY <1>1, Always, PTL
=============================================================================

------------------------- MODULE FileHandlerProofs -------------------------
(***************************************************************************)
(* Proofs about FileHandler, for any number of files and data centers and  *)
(* every bound.                                                            *)
(***************************************************************************)
EXTENDS FileHandler, FiniteSetTheorems, SequenceTheorems, TLAPS

-----------------------------------------------------------------------------
(* The inductive invariant.                                                *)

\* The sessions of a manager m, and what the code keeps of them.
Opened == {"unconnected", "connecting", "connected"}
ManagerType(m) ==
  /\ m \in [counts : [DCs -> Int], ids : [DCs -> Nat], files : SUBSET Nat, sockets : Seq(SocketType)]
  /\ m.files \subseteq DOMAIN m.sockets
  /\ \A dc \in DCs : m.ids[dc] \in DOMAIN m.sockets \cup {NoSession}

\* The queries c of the sessions of m: no two that were sent have one identifier.
Ids      == Int \ {0}
PartType == [file : Files, from : Nat]
CallsOk(c, m) ==
  /\ c \subseteq [id : Ids, session : Nat, file : Files, from : Nat] /\ IsFiniteSet(c)
  /\ \A r \in c : r.session \in DOMAIN m.sockets
  /\ \A r, q \in c : r.id = q.id /\ r.id # Offline => r = q

\* Every download is in one place: under one identifier or among those that
\* wait for its session.  Only one that exists is.
Placed(map, wait, session) ==
  /\ map \in [DOMAIN map -> Downloads] /\ DOMAIN map \subseteq Ids /\ IsFiniteSet(DOMAIN map)
  /\ wait \in [DOMAIN wait -> SUBSET Downloads]
  /\ \A i, j \in DOMAIN map : map[i] = map[j] => i = j
  /\ \A i \in DOMAIN map : session[map[i]] # NoSession
  /\ \A s \in DOMAIN wait : \A f \in wait[s] : session[f] = s /\ s # NoSession
  /\ \A s \in DOMAIN wait, i \in DOMAIN map : map[i] \notin wait[s]

UploadsInv ==
  /\ mUploadsMap \subseteq Engines
  /\ mInitialUploadsMap \in [DOMAIN mInitialUploadsMap -> SUBSET Engines]
  /\ uploadSession \in [Uploads -> Sessions \cup {NoSession}]
  /\ \A e \in mUploadsMap : uploadSession[e.op] # NoSession /\ e.op \in asked
  /\ uploadedParts \in [Engines -> Nat]
  /\ sentMedia \subseteq Uploads
DownloadsInv ==
  /\ Placed(mDownloadsMap, mInitialDownloadsMap, downloadSession)
  /\ mCancelDownloadsMap \subseteq mActiveDownloadsMap
  /\ downloadSession \in [Downloads -> Sessions \cup {NoSession}]
  /\ \A d \in Downloads : downloadSession[d] # NoSession => d \in asked
  /\ bytes \in [Downloads -> Seq(Downloads \X Nat)]
  /\ finished \subseteq Downloads
TransfersInv ==
  /\ DOMAIN transfers \subseteq TransferDcs \cap asked
  /\ transfers \in [DOMAIN transfers -> Sessions]
BaseInv ==
  /\ ManagerType(manager) /\ CallsOk(calls, manager)
  /\ UploadsInv /\ DownloadsInv /\ TransfersInv
  /\ offlines \in Nat

-----------------------------------------------------------------------------
(* Finite sets.                                                            *)

\* The types of the constants.
LEMMA Constants ==
  /\ IsFiniteSet(Downloads) /\ IsFiniteSet(Uploads) /\ IsFiniteSet(DCs)
  /\ Downloads \cap Engines = {} /\ Thumbs \subseteq Uploads /\ WorkingDc \in DCs
  /\ TransferDcs \subseteq DCs /\ DcNum \in [Downloads -> DCs]
  /\ Length \in [Downloads -> Nat \ {0}] /\ Parts \in Nat \ {0}
<1>1. Engines \subseteq [op : Uploads, type : {"Main", "Thumbnail"}]
  BY FilesAssumption DEF Engines, Engine
<1> QED
  BY <1>1, FilesAssumption

\* What a function makes of a finite set is finite.
LEMMA ImageFinite ==
  ASSUME NEW S, IsFiniteSet(S), NEW g, DOMAIN g = S
  PROVE  IsFiniteSet({g[x] : x \in S})
<1>1. PICK h : h = [x \in S |-> g[x]]
  OBVIOUS
<1>2. h \in Surjection(S, {g[x] : x \in S})
  BY <1>1 DEF Surjection
<1> QED
  BY <1>2, FS_Surjection

\* There are enough numbers that are not in a finite set.
LEMMA EnoughLeft ==
  ASSUME NEW used, IsFiniteSet(used), NEW parts, IsFiniteSet(parts)
  PROVE  ExistsInjection(parts, (1..(Cardinality(used) + Cardinality(parts))) \ used)
<1>1. PICK u, p, all : /\ u = Cardinality(used) /\ p = Cardinality(parts) /\ all = 1..(u + p)
                       /\ u \in Nat /\ p \in Nat
  BY FS_CardinalityType
<1>2. PICK left : left = all \ used
  OBVIOUS
<1>3. IsFiniteSet(all) /\ Cardinality(all) = u + p
  <2>1. 1 \in Int /\ u + p \in Int /\ u + p \in Nat
    BY <1>1
  <2>2. IsFiniteSet(1..(u + p)) /\ Cardinality(1..(u + p)) = IF 1 > u + p THEN 0 ELSE (u + p) - 1 + 1
    BY <2>1, FS_Interval
  <2> QED
    BY <1>1, <2>1, <2>2
<1>4. IsFiniteSet(left) /\ Cardinality(left) \in Nat /\ Cardinality(left) >= p
  <2>1. IsFiniteSet(left) /\ Cardinality(left) = Cardinality(all) - Cardinality(all \cap used)
    BY <1>2, <1>3, FS_Difference
  <2>2. Cardinality(all \cap used) <= u
    BY <1>1, FS_Intersection
  <2>3. Cardinality(left) \in Nat /\ Cardinality(all \cap used) \in Nat
    BY <2>1, <1>3, FS_CardinalityType, FS_Intersection
  <2>4. PICK x, y : x = Cardinality(left) /\ y = Cardinality(all \cap used)
    OBVIOUS
  <2>5. x = u + p - y /\ y <= u /\ x \in Nat /\ y \in Nat
    BY <1>1, <1>3, <2>1, <2>2, <2>3, <2>4
  <2>6. x >= p
    BY <1>1, <2>5
  <2> QED
    BY <2>1, <2>3, <2>4, <2>6
<1>5. PICK g : g \in Bijection(1..p, parts)
  BY <1>1, FS_CardinalityType DEF ExistsBijection
<1>6. PICK h : h \in Bijection(1..Cardinality(left), left)
  BY <1>4, FS_CardinalityType DEF ExistsBijection
<1>7. PICK inv : inv = [x \in parts |-> CHOOSE i \in 1..p : g[i] = x]
  OBVIOUS
<1>8. \A x \in parts : inv[x] \in 1..p /\ g[inv[x]] = x
  BY <1>5, <1>7 DEF Bijection, Surjection, Injection
<1>9. PICK k : k = [x \in parts |-> h[inv[x]]]
  OBVIOUS
<1>10. \A i \in 1..p : i \in 1..Cardinality(left)
  BY <1>1, <1>4
<1>11. k \in [parts -> left]
  BY <1>6, <1>8, <1>9, <1>10 DEF Bijection, Injection
<1>12. ASSUME NEW x \in parts, NEW y \in parts, k[x] = k[y]
       PROVE  x = y
  <2>1. inv[x] \in 1..Cardinality(left) /\ inv[y] \in 1..Cardinality(left)
    BY <1>8, <1>10
  <2>2. h[inv[x]] = h[inv[y]]
    BY <1>9, <1>12
  <2>3. inv[x] = inv[y]
    BY <1>6, <2>1, <2>2 DEF Bijection, Injection, IsInjective
  <2> QED
    BY <1>8, <2>3
<1>13. k \in Injection(parts, left)
  BY <1>11, <1>12 DEF Injection, IsInjective
<1> QED
  BY <1>1, <1>2, <1>13 DEF ExistsInjection

\* The identifiers of new queries are new, and different.
Fresh(c, parts, ids) ==
  /\ ids \in [parts -> Nat \ {0}] /\ \A p, q \in parts : ids[p] = ids[q] => p = q
  /\ \A p \in parts : ids[p] \notin DOMAIN mDownloadsMap /\ \A r \in c : r.id # ids[p]

LEMMA NewIdsAre ==
  ASSUME NEW c, IsFiniteSet(c), IsFiniteSet(DOMAIN mDownloadsMap), NEW parts, IsFiniteSet(parts),
         NEW ids, ids = NewIds(c, parts)
  PROVE  Fresh(c, parts, ids)
<1>1. IsFiniteSet(UsedIds(c))
  <2>1. PICK g : g = [r \in c |-> r.id]
    OBVIOUS
  <2>2. {g[r] : r \in c} = {r.id : r \in c}
    BY <2>1
  <2>3. IsFiniteSet({r.id : r \in c})
    BY <2>1, <2>2, ImageFinite
  <2> QED
    BY <2>3, FS_Union DEF UsedIds
<1>2. PICK left : left = (1..(Cardinality(UsedIds(c)) + Cardinality(parts))) \ UsedIds(c)
  OBVIOUS
<1>3. ids \in Injection(parts, left)
  BY <1>1, <1>2, EnoughLeft DEF NewIds, ExistsInjection
<1>4. left \subseteq Nat \ {0}
  BY <1>1, <1>2, FS_CardinalityType
<1>5. ids \in [parts -> left] /\ \A p, q \in parts : ids[p] = ids[q] => p = q
  BY <1>3 DEF Injection, IsInjective
<1>6. \A p \in parts : ids[p] \in left /\ ids[p] \notin UsedIds(c)
  BY <1>2, <1>5
<1> QED
  BY <1>4, <1>5, <1>6 DEF UsedIds, Fresh

-----------------------------------------------------------------------------
(* The manager.                                                            *)

\* In a later manager n the sessions of m have their DCs and what was
\* connected to them.
Later(m, n) ==
  /\ DOMAIN m.sockets \subseteq DOMAIN n.sockets
  /\ \A s \in DOMAIN m.sockets : n.sockets[s].dc = m.sockets[s].dc

LEMMA LaterTrans ==
  ASSUME NEW m, NEW k, Later(m, k), NEW n, Later(k, n)
  PROVE  Later(m, n)
BY DEF Later

\* A session is changed, or the counts of a DC.
LEMMA ManagerParts ==
  ASSUME NEW m, ManagerType(m)
  PROVE  /\ m.counts \in [DCs -> Int] /\ m.ids \in [DCs -> Nat] /\ m.sockets \in Seq(SocketType)
         /\ m.files \subseteq DOMAIN m.sockets /\ DOMAIN m.sockets = 1..Len(m.sockets)
         /\ m = [counts |-> m.counts, ids |-> m.ids, files |-> m.files, sockets |-> m.sockets]
         /\ Later(m, m) /\ NoSession \notin DOMAIN m.sockets
BY DEF ManagerType, Later, NoSession

\* The manager n is m but for these parts.
LEMMA ManagerOf ==
  ASSUME NEW m, ManagerType(m), NEW counts \in [DCs -> Int], NEW ids \in [DCs -> Nat],
         NEW files \in SUBSET DOMAIN m.sockets, NEW sockets \in Seq(SocketType),
         DOMAIN m.sockets \subseteq DOMAIN sockets,
         \A s \in DOMAIN m.sockets : sockets[s].dc = m.sockets[s].dc,
         \A dc \in DCs : ids[dc] \in {m.ids[dc], NoSession},
         NEW n, n = [counts |-> counts, ids |-> ids, files |-> files, sockets |-> sockets]
  PROVE  ManagerType(n) /\ Later(m, n)
<1>1. files \in SUBSET Nat
  BY DEF ManagerType
<1>2. \A dc \in DCs : ids[dc] \in DOMAIN sockets \cup {NoSession}
  BY DEF ManagerType
<1> QED
  BY <1>1, <1>2 DEF ManagerType, Later

\* A session of m gets another record of the same DC.
SocketIs(m, s, x, n) ==
  /\ ManagerType(n) /\ Later(m, n) /\ n.counts = m.counts /\ n.ids = m.ids /\ n.files = m.files
  /\ DOMAIN n.sockets = DOMAIN m.sockets /\ n.sockets[s] = x
  /\ \A t \in DOMAIN m.sockets : t # s => n.sockets[t] = m.sockets[t]

LEMMA SocketSet ==
  ASSUME NEW m, ManagerType(m), NEW s \in DOMAIN m.sockets, NEW x \in SocketType, x.dc = m.sockets[s].dc,
         NEW n, n = [m EXCEPT !.sockets[s] = x]
  PROVE  SocketIs(m, s, x, n)
<1>1. PICK ss : ss = [m.sockets EXCEPT ![s] = x]
  OBVIOUS
<1>2. ss \in Seq(SocketType) /\ DOMAIN ss = DOMAIN m.sockets
  BY <1>1, ManagerParts
<1>3. n = [counts |-> m.counts, ids |-> m.ids, files |-> m.files, sockets |-> ss]
  BY <1>1, ManagerParts
<1>4. \A t \in DOMAIN m.sockets : ss[t] = IF t = s THEN x ELSE m.sockets[t]
  BY <1>1, <1>2, ManagerParts
<1>5. /\ m.counts \in [DCs -> Int] /\ m.ids \in [DCs -> Nat] /\ m.files \in SUBSET DOMAIN m.sockets
      /\ \A t \in DOMAIN m.sockets : ss[t].dc = m.sockets[t].dc
  BY <1>4, ManagerParts
<1>6. ManagerType(n) /\ Later(m, n)
  BY <1>2, <1>3, <1>5, ManagerOf
<1> QED
  BY <1>2, <1>3, <1>4, <1>6 DEF SocketIs

\* connectToServer, and connect to a signal.
Reached(m, n) ==
  /\ ManagerType(n) /\ Later(m, n) /\ n.counts = m.counts /\ n.ids = m.ids /\ n.files = m.files
  /\ DOMAIN n.sockets = DOMAIN m.sockets
  /\ \A t \in DOMAIN m.sockets : m.sockets[t].state \in Opened => n.sockets[t].state \in Opened

LEMMA ConnectIs ==
  ASSUME NEW m, ManagerType(m), NEW s \in DOMAIN m.sockets, NEW slot \in {"upload", "download", "rename"},
         NEW n, n = ConnectToServer(m, s) \/ n = ConnectSlot(m, s, slot)
  PROVE  Reached(m, n) /\ (n = ConnectSlot(m, s, slot) => State(n, s) = State(m, s))
<1>1. PICK x : x = m.sockets[s]
  OBVIOUS
<1>2. x \in SocketType
  BY <1>1, ManagerParts
<1>3. PICK y : /\ y \in SocketType /\ y.dc = x.dc /\ n = [m EXCEPT !.sockets[s] = y]
               /\ x.state \in Opened => y.state \in Opened
               /\ n = ConnectSlot(m, s, slot) => y.state = x.state
  <2>1. CASE n = ConnectSlot(m, s, slot)
    <3>1. PICK y : y = [x EXCEPT !.slots = @ \cup {slot}]
      OBVIOUS
    <3>2. y \in SocketType /\ y.dc = x.dc /\ y.state = x.state
      BY <1>2, <3>1 DEF SocketType
    <3>3. n = [m EXCEPT !.sockets[s] = y]
      BY <1>1, <2>1, <3>1, ManagerParts DEF ConnectSlot
    <3> QED
      BY <3>2, <3>3
  <2>2. CASE n # ConnectSlot(m, s, slot) /\ State(m, s) = "unconnected"
    <3>1. PICK y : y = [x EXCEPT !.state = "connecting"]
      OBVIOUS
    <3>2. y \in SocketType /\ y.dc = x.dc /\ y.state = "connecting"
      BY <1>2, <3>1 DEF SocketType
    <3>3. n = [m EXCEPT !.sockets[s] = y]
      BY <1>1, <2>2, <3>1, ManagerParts DEF ConnectToServer
    <3> QED
      BY <2>2, <3>2, <3>3 DEF Opened
  <2>3. CASE n # ConnectSlot(m, s, slot) /\ State(m, s) # "unconnected"
    <3>1. n = m
      BY <2>3 DEF ConnectToServer
    <3>2. n = [m EXCEPT !.sockets[s] = x]
      BY <1>1, <3>1, ManagerParts
    <3> QED
      BY <1>2, <2>3, <3>2
  <2> QED
    BY <2>1, <2>2, <2>3
<1> QED
  BY <1>1, <1>3, SocketSet DEF State, Reached, SocketIs

LEMMA ConnectedIs ==
  ASSUME NEW m, ManagerType(m), NEW s \in DOMAIN m.sockets, NEW slot \in {"upload", "download", "rename"},
         NEW n, n = ConnectToServer(ConnectSlot(m, s, slot), s)
  PROVE  Reached(m, n)
<1>1. PICK k : k = ConnectSlot(m, s, slot)
  OBVIOUS
<1>2. Reached(m, k)
  BY <1>1, ConnectIs
<1>3. ManagerType(k) /\ s \in DOMAIN k.sockets /\ n = ConnectToServer(k, s)
  BY <1>1, <1>2 DEF Reached
<1>4. Reached(k, n)
  BY <1>3, ConnectIs
<1> QED
  BY <1>2, <1>4 DEF Reached, Later

\* Session::close.
LEMMA CloseIs ==
  ASSUME NEW m, ManagerType(m), NEW s \in DOMAIN m.sockets, NEW atOnce \in BOOLEAN,
         NEW n, n = CloseSession(m, s, atOnce)
  PROVE  /\ ManagerType(n) /\ Later(m, n) /\ n.counts = m.counts /\ n.ids = m.ids
         /\ n.files \in {m.files, m.files \ {s}} /\ DOMAIN n.sockets = DOMAIN m.sockets
         /\ \A t \in DOMAIN m.sockets : t # s => n.sockets[t] = m.sockets[t]
<1>1. PICK x : x = m.sockets[s]
  OBVIOUS
<1>2. x \in SocketType
  BY <1>1, ManagerParts
<1>3. CASE ~(atOnce \/ State(m, s) = "unconnected")
  <2>1. PICK y : y = [x EXCEPT !.state = "closing"]
    OBVIOUS
  <2>2. y \in SocketType /\ y.dc = x.dc
    BY <1>2, <2>1 DEF SocketType
  <2>3. n = [m EXCEPT !.sockets[s] = y]
    BY <1>1, <1>3, <2>1, ManagerParts DEF CloseSession
  <2> QED
    BY <1>1, <2>2, <2>3, SocketSet DEF SocketIs
<1>4. CASE atOnce \/ State(m, s) = "unconnected"
  <2>1. PICK y : y = [dc |-> x.dc, state |-> "deleted", slots |-> {}]
    OBVIOUS
  <2>2. y \in SocketType /\ y.dc = x.dc
    BY <1>2, <2>1 DEF SocketType
  <2>3. PICK k : k = [m EXCEPT !.sockets[s] = y]
    OBVIOUS
  <2>4. /\ ManagerType(k) /\ Later(m, k) /\ k.counts = m.counts /\ k.ids = m.ids /\ k.files = m.files
        /\ DOMAIN k.sockets = DOMAIN m.sockets
        /\ \A t \in DOMAIN m.sockets : t # s => k.sockets[t] = m.sockets[t]
    BY <1>1, <2>2, <2>3, SocketSet DEF SocketIs
  <2>5. n = [counts |-> k.counts, ids |-> k.ids, files |-> m.files \ {s}, sockets |-> k.sockets]
    <3>1. m = [counts |-> m.counts, ids |-> m.ids, files |-> m.files, sockets |-> m.sockets]
      BY ManagerParts
    <3>2. n = [m EXCEPT !.files = @ \ {s}, !.sockets[s] = y]
      BY <1>1, <1>4, <2>1 DEF CloseSession
    <3> QED
      BY <2>3, <3>1, <3>2
  <2>6. ManagerType(n) /\ Later(k, n)
    <3>1. m.files \ {s} \in SUBSET DOMAIN k.sockets
      BY <2>4, ManagerParts
    <3>2. /\ k.counts \in [DCs -> Int] /\ k.ids \in [DCs -> Nat] /\ k.sockets \in Seq(SocketType)
          /\ \A dc \in DCs : k.ids[dc] \in {k.ids[dc], NoSession}
      BY <2>4, ManagerParts
    <3> QED
      BY <2>4, <2>5, <3>1, <3>2, ManagerOf
  <2> QED
    BY <2>4, <2>5, <2>6 DEF Later
<1> QED
  BY <1>3, <1>4

\* The DC of a session, and its count.
LEMMA DcOf ==
  ASSUME NEW m, ManagerType(m), NEW s \in DOMAIN m.sockets
  PROVE  m.sockets[s].dc \in DCs /\ m.counts[m.sockets[s].dc] \in Int
<1>1. m.sockets \in Seq(SocketType) /\ m.counts \in [DCs -> Int]
  BY ManagerParts
<1>2. m.sockets[s] \in SocketType
  BY <1>1
<1> QED
  BY <1>1, <1>2 DEF SocketType

\* The manager n is m, where the DC has this count and session.
Recounted(m, dc, count, s, n) ==
  /\ ManagerType(n) /\ Later(m, n) /\ n.files = m.files /\ n.sockets = m.sockets
  /\ n.counts[dc] = count /\ n.ids[dc] = s
  /\ \A e \in DCs : e # dc => n.counts[e] = m.counts[e] /\ n.ids[e] = m.ids[e]

LEMMA CountedIs ==
  ASSUME NEW m, ManagerType(m), NEW dc \in DCs, NEW count \in Int, NEW s \in {m.ids[dc], NoSession},
         NEW n, n = Counted(m, dc, count, s)
  PROVE  Recounted(m, dc, count, s, n)
<1>1. PICK C, I, F, S : C = m.counts /\ I = m.ids /\ F = m.files /\ S = m.sockets
  OBVIOUS
<1>2. PICK counts, ids : counts = [C EXCEPT ![dc] = count] /\ ids = [I EXCEPT ![dc] = s]
  OBVIOUS
<1>3. n = [counts |-> counts, ids |-> ids, files |-> F, sockets |-> S]
  <2>1. m = [counts |-> C, ids |-> I, files |-> F, sockets |-> S]
    BY <1>1, ManagerParts
  <2> QED
    BY <1>2, <2>1 DEF Counted
<1>4. /\ C \in [DCs -> Int] /\ I \in [DCs -> Nat] /\ F \in SUBSET DOMAIN S /\ S \in Seq(SocketType)
      /\ s \in {I[dc], NoSession}
  BY <1>1, ManagerParts
<1>5. counts \in [DCs -> Int] /\ ids \in [DCs -> Nat]
  BY <1>2, <1>4 DEF NoSession
<1>6. \A e \in DCs : /\ counts[e] = IF e = dc THEN count ELSE C[e]
                     /\ ids[e] = IF e = dc THEN s ELSE I[e]
  BY <1>2, <1>4
<1>7. ManagerType(n) /\ Later(m, n)
  <2>1. /\ F \in SUBSET DOMAIN m.sockets /\ DOMAIN m.sockets \subseteq DOMAIN S
        /\ \A e \in DCs : ids[e] \in {m.ids[e], NoSession}
        /\ \A t \in DOMAIN m.sockets : S[t].dc = m.sockets[t].dc
    BY <1>1, <1>4, <1>6
  <2> QED
    BY <1>3, <1>4, <1>5, <2>1, ManagerOf
<1>8. n.counts = counts /\ n.ids = ids /\ n.files = F /\ n.sockets = S
  BY <1>3
<1> QED
  BY <1>1, <1>6, <1>7, <1>8 DEF Recounted

\* The manager n is m after the session s was released k times.
Freed(m, s, k, n) ==
  /\ ManagerType(n) /\ Later(m, n) /\ DOMAIN n.sockets = DOMAIN m.sockets
  /\ \A t \in DOMAIN m.sockets : t # s => n.sockets[t] = m.sockets[t]
  /\ \A t \in m.files : t # s => t \in n.files
  /\ \A e \in DCs : e # m.sockets[s].dc => n.counts[e] = m.counts[e] /\ n.ids[e] = m.ids[e]
  /\ s \in m.files /\ m.counts[m.sockets[s].dc] >= k =>
       /\ n.counts[m.sockets[s].dc] = m.counts[m.sockets[s].dc] - k
       /\ m.counts[m.sockets[s].dc] # k =>
            n.ids[m.sockets[s].dc] = m.ids[m.sockets[s].dc] /\ n.sockets[s] = m.sockets[s] /\ s \in n.files
       /\ m.counts[m.sockets[s].dc] = k /\ k > 0 => n.ids[m.sockets[s].dc] = NoSession

\* A release that closes the session.
LEMMA FreedClosed ==
  ASSUME NEW m, ManagerType(m), NEW s \in m.files, NEW k \in Nat, NEW atOnce \in BOOLEAN,
         NEW h, Recounted(m, m.sockets[s].dc, 0, NoSession, h), m.counts[m.sockets[s].dc] \in 1..k,
         NEW n, n = CloseSession(h, s, atOnce)
  PROVE  Freed(m, s, k, n)
<1>1. s \in DOMAIN m.sockets
  BY ManagerParts
<1>2. PICK dc \in DCs : dc = m.sockets[s].dc /\ m.counts[dc] \in Int
  BY <1>1, DcOf
<1>3. /\ ManagerType(h) /\ Later(m, h) /\ h.files = m.files /\ h.sockets = m.sockets
      /\ h.counts[dc] = 0 /\ h.ids[dc] = NoSession
      /\ \A e \in DCs : e # dc => h.counts[e] = m.counts[e] /\ h.ids[e] = m.ids[e]
  BY <1>2 DEF Recounted
<1>5. /\ ManagerType(n) /\ Later(h, n) /\ n.counts = h.counts /\ n.ids = h.ids
      /\ n.files \in {h.files, h.files \ {s}} /\ DOMAIN n.sockets = DOMAIN h.sockets
      /\ \A t \in DOMAIN h.sockets : t # s => n.sockets[t] = h.sockets[t]
  BY <1>1, <1>3, CloseIs
<1>6. m.counts[dc] >= k => m.counts[dc] = k /\ m.counts[dc] - k = 0
  BY <1>2
<1>7. Later(m, n) /\ DOMAIN n.sockets = DOMAIN m.sockets
  BY <1>3, <1>5 DEF Later
<1>8. \A t \in DOMAIN m.sockets : t # s => n.sockets[t] = m.sockets[t]
  BY <1>3, <1>5
<1>9. \A t \in m.files : t # s => t \in n.files
  BY <1>3, <1>5
<1>10. /\ n.counts[dc] = 0 /\ n.ids[dc] = NoSession
       /\ \A e \in DCs : e # dc => n.counts[e] = m.counts[e] /\ n.ids[e] = m.ids[e]
  BY <1>3, <1>5
<1> QED
  BY <1>2, <1>5, <1>6, <1>7, <1>8, <1>9, <1>10 DEF Freed

\* A release that does not.
LEMMA FreedCounted ==
  ASSUME NEW m, ManagerType(m), NEW s \in m.files, NEW k \in Nat, NEW dc \in DCs, NEW left \in Int,
         NEW n, Recounted(m, dc, left, m.ids[dc], n),
         dc = m.sockets[s].dc, left = m.counts[dc] - k, m.counts[dc] \notin 1..k
  PROVE  Freed(m, s, k, n)
<1>1. /\ ManagerType(n) /\ Later(m, n) /\ n.files = m.files /\ n.sockets = m.sockets
      /\ n.counts[dc] = left /\ n.ids[dc] = m.ids[dc]
      /\ \A e \in DCs : e # dc => n.counts[e] = m.counts[e] /\ n.ids[e] = m.ids[e]
  BY DEF Recounted
<1>2. m.counts[dc] \in Int
  BY ManagerParts
<1>3. m.counts[dc] >= k /\ m.counts[dc] = k => ~(k > 0)
  BY <1>2
<1> QED
  BY <1>1, <1>3 DEF Freed

\* A release of a session that is not one of the files'.
LEMMA FreedNot ==
  ASSUME NEW m, ManagerType(m), NEW s \in DOMAIN m.sockets, NEW k \in Nat, s \notin m.files
  PROVE  Freed(m, s, k, m)
BY ManagerParts DEF Freed

\* Session::release.
LEMMA ReleaseIs ==
  ASSUME NEW m, ManagerType(m), NEW s \in DOMAIN m.sockets, NEW atOnce \in BOOLEAN,
         NEW n, n = Release(m, s, atOnce)
  PROVE  Freed(m, s, 1, n)
<1>1. PICK dc \in DCs : dc = m.sockets[s].dc /\ m.counts[dc] \in Int
  BY DcOf
<1>2. PICK k \in Nat : k = 1
  OBVIOUS
<1>3. CASE s \notin m.files
  BY <1>3, FreedNot DEF Release
<1>4. CASE s \in m.files /\ m.counts[dc] - 1 = 0
  <2>1. PICK h : h = Counted(m, dc, 0, NoSession) /\ n = CloseSession(h, s, atOnce)
    BY <1>1, <1>4 DEF Release
  <2>4. Recounted(m, dc, 0, NoSession, h)
    BY <2>1, CountedIs
  <2>2. m.counts[m.sockets[s].dc] \in 1..k
    BY <1>1, <1>2, <1>4
  <2>3. Freed(m, s, k, n)
    BY <1>1, <1>4, <2>1, <2>2, <2>4, FreedClosed
  <2> QED
    BY <1>2, <2>3
<1>5. CASE s \in m.files /\ m.counts[dc] - 1 # 0
  <2>1. PICK left \in Int : left = m.counts[dc] - k
    BY <1>1, <1>2
  <2>2. n = Counted(m, dc, left, m.ids[dc])
    BY <1>1, <1>2, <1>5, <2>1 DEF Release
  <2>3. m.counts[dc] \notin 1..k
    BY <1>1, <1>2, <1>5
  <2>4. Recounted(m, dc, left, m.ids[dc], n)
    BY <2>2, CountedIs
  <2>5. Freed(m, s, k, n)
    BY <1>1, <1>5, <2>1, <2>3, <2>4, FreedCounted
  <2> QED
    BY <1>2, <2>5
<1> QED
  BY <1>3, <1>4, <1>5

\* The release of files that are replaced.
LEMMA ReleaseTimesIs ==
  ASSUME NEW m, ManagerType(m), NEW s \in DOMAIN m.sockets, NEW k \in Nat,
         NEW n, n = ReleaseTimes(m, s, k)
  PROVE  Freed(m, s, k, n)
<1>1. PICK dc \in DCs : dc = m.sockets[s].dc /\ m.counts[dc] \in Int
  BY DcOf
<1>2. CASE s \notin m.files
  BY <1>2, FreedNot DEF ReleaseTimes
<1>3. CASE s \in m.files /\ m.counts[dc] \in 1..k
  <2>1. PICK h : h = Counted(m, dc, 0, NoSession) /\ n = CloseSession(h, s, TRUE)
    BY <1>1, <1>3 DEF ReleaseTimes
  <2>2. Recounted(m, dc, 0, NoSession, h)
    BY <2>1, CountedIs
  <2> QED
    BY <1>1, <1>3, <2>1, <2>2, FreedClosed
<1>4. CASE s \in m.files /\ m.counts[dc] \notin 1..k
  <2>1. PICK left \in Int : left = m.counts[dc] - k
    BY <1>1
  <2>2. n = Counted(m, dc, left, m.ids[dc])
    BY <1>1, <1>4, <2>1 DEF ReleaseTimes
  <2>3. Recounted(m, dc, left, m.ids[dc], n)
    BY <2>2, CountedIs
  <2> QED
    BY <1>1, <1>4, <2>1, <2>3, FreedCounted
<1> QED
  BY <1>2, <1>3, <1>4

\* fileSession: a session with one more user, or none.
Acquired(m, dc, a) ==
  /\ ManagerType(a.manager) /\ Later(m, a.manager)
  /\ a.session \in DOMAIN a.manager.sockets \cup {NoSession}
  /\ \A t \in DOMAIN m.sockets : a.manager.sockets[t] = m.sockets[t]
  /\ \A t \in m.files : t \in a.manager.files
  /\ \A e \in DCs : e # dc => a.manager.counts[e] = m.counts[e] /\ a.manager.ids[e] = m.ids[e]
  /\ a.manager.counts[dc] = m.counts[dc] + 1
  /\ m.counts[dc] = 0 =>
       /\ a.session \notin DOMAIN m.sockets /\ a.session # NoSession
       /\ a.manager.ids[dc] = a.session /\ a.session \in a.manager.files
       /\ a.manager.sockets[a.session].dc = dc
       /\ a.manager.sockets[a.session].state = "unconnected"
  /\ m.counts[dc] # 0 =>
       /\ a.manager.ids[dc] = m.ids[dc] /\ DOMAIN a.manager.sockets = DOMAIN m.sockets
       /\ a.session = IF m.ids[dc] \in m.files THEN m.ids[dc] ELSE NoSession

LEMMA AcquireIs ==
  ASSUME NEW m, ManagerType(m), NEW dc \in DCs, NEW a, a = Acquire(m, dc)
  PROVE  Acquired(m, dc, a)
<1>1. m.counts[dc] \in Int
  BY ManagerParts
<1>2. CASE m.counts[dc] = 0
  <2>1. PICK new, x, counts, ids, files, ss :
          /\ new = Len(m.sockets) + 1 /\ x = [dc |-> dc, state |-> "unconnected", slots |-> {}]
          /\ counts = [m.counts EXCEPT ![dc] = 1] /\ ids = [m.ids EXCEPT ![dc] = new]
          /\ files = m.files \cup {new} /\ ss = Append(m.sockets, x)
    OBVIOUS
  <2>2. x \in SocketType
    BY <2>1 DEF SocketType
  <2>3. /\ ss \in Seq(SocketType) /\ Len(ss) = new /\ new \in Nat \ {0} /\ new \notin DOMAIN m.sockets
        /\ DOMAIN ss = DOMAIN m.sockets \cup {new} /\ ss[new] = x
        /\ \A t \in DOMAIN m.sockets : ss[t] = m.sockets[t]
    BY <2>1, <2>2, ManagerParts
  <2>4. /\ counts \in [DCs -> Int] /\ ids \in [DCs -> Nat] /\ counts[dc] = 1 /\ ids[dc] = new
        /\ \A e \in DCs : e # dc => counts[e] = m.counts[e] /\ ids[e] = m.ids[e]
    BY <2>1, <2>3, ManagerParts
  <2>5. a.session = new /\ a.manager = [counts |-> counts, ids |-> ids, files |-> files, sockets |-> ss]
    BY <1>2, <2>1 DEF Acquire, Created
  <2>6. files \in SUBSET Nat /\ files \subseteq DOMAIN ss
    BY <2>1, <2>3, ManagerParts DEF ManagerType
  <2>7. \A e \in DCs : ids[e] \in DOMAIN ss \cup {NoSession}
    BY <2>3, <2>4 DEF ManagerType
  <2>8. PICK n : n = [counts |-> counts, ids |-> ids, files |-> files, sockets |-> ss]
    OBVIOUS
  <2>9. ManagerType(n)
    BY <2>3, <2>4, <2>6, <2>7, <2>8 DEF ManagerType
  <2>10. Later(m, n)
    BY <2>3, <2>8 DEF Later
  <2>11. n.counts = counts /\ n.ids = ids /\ n.files = files /\ n.sockets = ss
    BY <2>8
  <2>12. a.session = new /\ a.manager = n
    BY <2>5, <2>8
  <2> QED
    BY <1>2, <2>1, <2>3, <2>4, <2>9, <2>10, <2>11, <2>12 DEF NoSession, Acquired
<1>3. CASE m.counts[dc] # 0
  <2>1. PICK more \in Int : more = m.counts[dc] + 1
    BY <1>1
  <2>2. PICK n : n = Counted(m, dc, more, m.ids[dc])
    OBVIOUS
  <2>3. /\ ManagerType(n) /\ Later(m, n) /\ n.files = m.files /\ n.sockets = m.sockets
        /\ n.counts[dc] = more /\ n.ids[dc] = m.ids[dc]
        /\ \A e \in DCs : e # dc => n.counts[e] = m.counts[e] /\ n.ids[e] = m.ids[e]
    BY <2>2, CountedIs DEF Recounted
  <2>4. Shared(m, dc) \in DOMAIN m.sockets \cup {NoSession}
    BY DEF Shared, ManagerType
  <2>5. a.session = Shared(m, dc) /\ a.manager = n
    BY <1>3, <2>1, <2>2 DEF Acquire
  <2> QED
    BY <1>3, <2>1, <2>3, <2>4, <2>5 DEF Shared, Acquired
<1> QED
  BY <1>2, <1>3

-----------------------------------------------------------------------------
(* The queries.                                                            *)

\* d is c with a new query of the session s for every part.
Sent(c, s, parts, ids, d) ==
  /\ Fresh(c, parts, ids)
  /\ d = c \cup {Call(ids[p], s, p.file, p.from) : p \in parts}

LEMMA SentIs ==
  ASSUME NEW m, NEW c, CallsOk(c, m), DownloadsInv, NEW s, NEW parts, IsFiniteSet(parts),
         NEW ids, ids = NewIds(c, parts), NEW d, d = SendQueries(c, s, parts)
  PROVE  Sent(c, s, parts, ids, d)
<1>1. IsFiniteSet(c) /\ IsFiniteSet(DOMAIN mDownloadsMap)
  BY DEF CallsOk, DownloadsInv, Placed
<1>2. d = c \cup {Call(ids[p], s, p.file, p.from) : p \in parts}
  BY DEF SendQueries
<1> QED
  BY <1>1, <1>2, NewIdsAre DEF Sent

\* The queries left, in a later manager.
LEMMA CallsFewer ==
  ASSUME NEW m, NEW c, CallsOk(c, m), NEW n, Later(m, n), NEW d \in SUBSET c
  PROVE  CallsOk(d, n)
<1>1. IsFiniteSet(d)
  BY FS_Subset DEF CallsOk
<1> QED
  BY <1>1 DEF CallsOk, Later

LEMMA CallsSent ==
  ASSUME NEW m, ManagerType(m), NEW c, CallsOk(c, m), NEW s \in DOMAIN m.sockets,
         NEW parts \in SUBSET PartType, IsFiniteSet(parts), NEW ids, NEW d, Sent(c, s, parts, ids, d)
  PROVE  CallsOk(d, m)
<1>1. PICK new : new = {Call(ids[p], s, p.file, p.from) : p \in parts}
  OBVIOUS
<1>2. ASSUME NEW r \in new
      PROVE  \E p \in parts : /\ r = [id |-> ids[p], session |-> s, file |-> p.file, from |-> p.from]
                              /\ ids[p] \in Nat \ {0} /\ p \in PartType /\ p = [file |-> p.file, from |-> p.from]
  BY <1>1 DEF Call, Sent, Fresh, PartType
<1>3. IsFiniteSet(d)
  <2>1. PICK g : g = [p \in parts |-> Call(ids[p], s, p.file, p.from)]
    OBVIOUS
  <2>2. {g[p] : p \in parts} = new
    BY <1>1, <2>1
  <2>3. IsFiniteSet(new)
    BY <2>1, <2>2, ImageFinite
  <2>4. IsFiniteSet(c) /\ d = c \cup new
    BY <1>1 DEF CallsOk, Sent
  <2> QED
    BY <2>3, <2>4, FS_Union
<1>4. s \in Nat
  BY ManagerParts
<1>5. ASSUME NEW r \in new
      PROVE  /\ r \in [id : Ids, session : Nat, file : Files, from : Nat] /\ r.session \in DOMAIN m.sockets
             /\ r.id # Offline /\ \A q \in c : q.id # r.id
             /\ \A q \in new : q.id = r.id => q = r
  <2>1. PICK p \in parts : /\ r = [id |-> ids[p], session |-> s, file |-> p.file, from |-> p.from]
                           /\ ids[p] \in Nat \ {0} /\ p \in PartType
    BY <1>2
  <2>2. r.id = ids[p] /\ r.session = s /\ ids[p] \in Ids /\ ids[p] # Offline
    BY <2>1 DEF Ids, Offline
  <2>3. r \in [id : Ids, session : Nat, file : Files, from : Nat]
    BY <1>4, <2>1, <2>2 DEF PartType
  <2>4. \A q \in c : q.id # r.id
    BY <2>2 DEF Sent, Fresh
  <2>5. ASSUME NEW q \in new, q.id = r.id
        PROVE  q = r
    <3>1. PICK o \in parts : q = [id |-> ids[o], session |-> s, file |-> o.file, from |-> o.from]
      BY <1>2
    <3>2. q.id = ids[o]
      BY <3>1
    <3>3. o = p
      BY <2>2, <2>5, <3>2 DEF Sent, Fresh
    <3> QED
      BY <2>1, <3>1, <3>3
  <2> QED
    BY <2>2, <2>3, <2>4, <2>5
<1>6. \A r, q \in d : r.id = q.id /\ r.id # Offline => r = q
  <2>1. d = c \cup new
    BY <1>1 DEF Sent
  <2> QED
    BY <1>5, <2>1 DEF CallsOk
<1>7. \A r \in d : r \in [id : Ids, session : Nat, file : Files, from : Nat] /\ r.session \in DOMAIN m.sockets
  <2>1. d = c \cup new
    BY <1>1 DEF Sent
  <2> QED
    BY <1>5, <2>1 DEF CallsOk
<1> QED
  BY <1>3, <1>6, <1>7 DEF CallsOk

LEMMA CallsOffline ==
  ASSUME NEW m, ManagerType(m), NEW c, CallsOk(c, m), NEW s \in DOMAIN m.sockets, NEW p \in PartType,
         NEW d, d = SendOffline(c, s, p)
  PROVE  CallsOk(d, m)
<1>1. PICK q, b : /\ q = [id |-> Offline, session |-> s, file |-> p.file, from |-> p.from]
                  /\ b = {r \in c : r.id # Offline \/ r.session # s}
  OBVIOUS
<1>2. d = b \cup {q}
  BY <1>1 DEF SendOffline, Call
<1>3. CallsOk(b, m)
  BY <1>1, CallsFewer, ManagerParts
<1>4. IsFiniteSet(d)
  BY <1>2, <1>3, FS_AddElement DEF CallsOk
<1>5. s \in Nat /\ Offline \in Ids
  BY ManagerParts DEF Offline, Ids
<1>6. q \in [id : Ids, session : Nat, file : Files, from : Nat]
  BY <1>1, <1>5 DEF PartType
<1>7. q.id = Offline /\ q.session = s
  BY <1>1
<1> QED
  BY <1>2, <1>3, <1>4, <1>6, <1>7 DEF CallsOk

\* The parts of an upload, and the query of a download.
LEMMA PartsAre ==
  ASSUME NEW e \in Engines
  PROVE  /\ PartsOf(e) \subseteq PartType /\ IsFiniteSet(PartsOf(e)) /\ Part(e, Parts - 1) \in PartType
         /\ \A p \in PartsOf(e) : p.file = e /\ p.from \in 0..(Parts - 1)
<1>1. Parts \in Nat \ {0}
  BY Constants
<1>2. \A i \in 0..(Parts - 1) : i \in Nat
  BY <1>1
<1>3. e \in Files
  BY DEF Files
<1>4. \A p \in PartsOf(e) : p \in PartType /\ p.file = e /\ p.from \in 0..(Parts - 1)
  BY <1>2, <1>3 DEF PartsOf, PartType, Part
<1>5. IsFiniteSet(PartsOf(e))
  <2>1. PICK S, g : S = 0..(Parts - 1) /\ g = [i \in S |-> Part(e, i)]
    OBVIOUS
  <2>2. {g[i] : i \in S} = PartsOf(e) /\ DOMAIN g = S
    BY <2>1 DEF PartsOf
  <2>3. IsFiniteSet(S)
    <3>1. 0 \in Int /\ Parts - 1 \in Int
      BY <1>1
    <3> QED
      BY <2>1, <3>1, FS_Interval
  <2>4. IsFiniteSet({g[i] : i \in S})
    BY <2>2, <2>3, ImageFinite
  <2> QED
    BY <2>2, <2>4
<1>6. Part(e, Parts - 1) \in PartType
  BY <1>1, <1>3 DEF Part, PartType
<1> QED
  BY <1>4, <1>5, <1>6

LEMMA OnePart ==
  ASSUME NEW f \in Files, NEW from \in Nat
  PROVE  Part(f, from) \in PartType /\ {Part(f, from)} \in SUBSET PartType /\ IsFiniteSet({Part(f, from)})
<1>1. Part(f, from) \in PartType
  BY DEF Part, PartType
<1> QED
  BY <1>1, FS_Singleton

LEMMA CallsOfParts ==
  ASSUME BaseInv, NEW m, ManagerType(m), NEW c, CallsOk(c, m), NEW s \in DOMAIN m.sockets,
         NEW e \in Engines, NEW d, d = SendParts(c, m, s, e)
  PROVE  CallsOk(d, m)
<1>1. CASE State(m, s) = "connected"
  <2>1. PICK parts, ids : parts = PartsOf(e) /\ ids = NewIds(c, parts)
    OBVIOUS
  <2>2. parts \in SUBSET PartType /\ IsFiniteSet(parts)
    BY <2>1, PartsAre
  <2>3. Sent(c, s, parts, ids, d)
    BY <1>1, <2>1, <2>2, SentIs DEF SendParts, BaseInv
  <2> QED
    BY <2>2, <2>3, CallsSent
<1>2. CASE State(m, s) # "connected"
  <2>1. PICK p \in PartType : d = SendOffline(c, s, p)
    BY <1>2, PartsAre DEF SendParts
  <2> QED
    BY <2>1, CallsOffline
<1> QED
  BY <1>1, <1>2

-----------------------------------------------------------------------------
(* The places of the downloads.                                            *)

\* less is map without the entry of id.
Less(map, id, less) ==
  /\ DOMAIN less = DOMAIN map \ {id} /\ \A i \in DOMAIN less : less[i] = map[i]
  /\ id \in DOMAIN map => \A i \in DOMAIN less : less[i] # map[id]

LEMMA PlacedLess ==
  ASSUME NEW map, NEW wait, NEW session, Placed(map, wait, session), NEW id, NEW less, less = MapRemove(map, id)
  PROVE  Placed(less, wait, session) /\ Less(map, id, less)
<1>1. less = [x \in DOMAIN map \ {id} |-> map[x]]
  BY DEF MapRemove
<1>2. DOMAIN less = DOMAIN map \ {id} /\ \A i \in DOMAIN less : less[i] = map[i]
  BY <1>1
<1>3. IsFiniteSet(DOMAIN less)
  BY <1>2, FS_Subset DEF Placed
<1>4. less \in [DOMAIN less -> Downloads]
  BY <1>1, <1>2 DEF Placed
<1> QED
  BY <1>2, <1>3, <1>4 DEF Placed, Less

\* more is map with f under id.
More(map, id, f, more) ==
  /\ DOMAIN more = DOMAIN map \cup {id} /\ more[id] = f
  /\ \A i \in DOMAIN map : i # id => more[i] = map[i]

LEMMA PlacedMore ==
  ASSUME NEW map, NEW wait, NEW session, Placed(map, wait, session), NEW id \in Ids, NEW f \in Downloads,
         session[f] # NoSession, \A i \in DOMAIN map : map[i] # f, \A s \in DOMAIN wait : f \notin wait[s],
         NEW more, more = MapInsert(map, id, f)
  PROVE  Placed(more, wait, session) /\ More(map, id, f, more)
<1>1. more = [x \in DOMAIN map \cup {id} |-> IF x = id THEN f ELSE map[x]]
  BY DEF MapInsert
<1>2. /\ DOMAIN more = DOMAIN map \cup {id} /\ more[id] = f
      /\ \A i \in DOMAIN more : more[i] = IF i = id THEN f ELSE map[i]
  BY <1>1
<1>3. IsFiniteSet(DOMAIN more)
  BY <1>2, FS_AddElement DEF Placed
<1>4. \A i \in DOMAIN more : more[i] \in Downloads
  BY <1>2 DEF Placed
<1>5. more \in [DOMAIN more -> Downloads]
  BY <1>1, <1>2, <1>4
<1>6. \A i, j \in DOMAIN more : more[i] = more[j] => i = j
  BY <1>2 DEF Placed
<1>7. \A i \in DOMAIN more : session[more[i]] # NoSession /\ \A s \in DOMAIN wait : more[i] \notin wait[s]
  BY <1>2 DEF Placed
<1>8. DOMAIN more \subseteq Ids
  BY <1>2 DEF Placed
<1> QED
  BY <1>2, <1>3, <1>5, <1>6, <1>7, <1>8 DEF Placed, More

LEMMA PlacedGone ==
  ASSUME NEW map, NEW wait, NEW session, Placed(map, wait, session), DOMAIN session = Downloads,
         NEW f, \A i \in DOMAIN map : map[i] # f, \A s \in DOMAIN wait : f \notin wait[s],
         NEW gone, gone = [session EXCEPT ![f] = NoSession]
  PROVE  Placed(map, wait, gone)
<1>1. \A d \in Downloads : d # f => gone[d] = session[d]
  OBVIOUS
<1>2. \A i \in DOMAIN map : map[i] \in Downloads /\ map[i] # f
  BY DEF Placed
<1>3. \A s \in DOMAIN wait : \A d \in wait[s] : d \in Downloads /\ d # f
  BY DEF Placed
<1> QED
  BY <1>1, <1>2, <1>3 DEF Placed

\* The sessions of the downloads when f gets s, and replaces others.
After(f, s, replaced, session) ==
  [d \in Downloads |-> IF d = f THEN s ELSE IF d \in replaced THEN NoSession ELSE session[d]]

\* The downloads that wait then.
WaitAfter(f, s, replaced, wait) == MapInsert(wait, s, {f} \cup (MapSet(wait, s) \ replaced))
Replaces(replaced, wait, s)     == replaced = {} \/ replaced = MapSet(wait, s)

LEMMA PlacedStart ==
  ASSUME NEW map, NEW wait, NEW session, Placed(map, wait, session),
         NEW f \in Downloads, \A i \in DOMAIN map : map[i] # f, \A s \in DOMAIN wait : f \notin wait[s],
         NEW s \in Nat, s # NoSession, NEW replaced, Replaces(replaced, wait, s),
         NEW after, after = After(f, s, replaced, session)
  PROVE  /\ replaced = {} => Placed(map, wait, after)
         /\ Placed(map, WaitAfter(f, s, replaced, wait), after)
         /\ after[f] = s
<1>1. PICK waiting : waiting = MapSet(wait, s)
  OBVIOUS
<1>2. /\ waiting \subseteq Downloads
      /\ \A d \in waiting : session[d] = s /\ d # f /\ \A i \in DOMAIN map : map[i] # d
      /\ \A t \in DOMAIN wait : t = s => wait[t] = waiting
      /\ \A t \in DOMAIN wait : t # s => wait[t] \cap waiting = {} /\ wait[t] \subseteq Downloads
  BY <1>1 DEF MapSet, Placed
<1>3. \A d \in Downloads : after[d] = IF d = f THEN s ELSE IF d \in replaced THEN NoSession ELSE session[d]
  BY DEF After
<1>4. \A i \in DOMAIN map : map[i] \in Downloads /\ after[map[i]] = session[map[i]]
  <2>1. ASSUME NEW i \in DOMAIN map
        PROVE  map[i] \in Downloads /\ map[i] # f /\ map[i] \notin replaced
    BY <1>1, <1>2 DEF Placed, Replaces
  <2> QED
    BY <1>3, <2>1
<1>5. ASSUME NEW w, w = WaitAfter(f, s, replaced, wait)
      PROVE  Placed(map, w, after)
  <2>1. w = [x \in DOMAIN wait \cup {s} |-> IF x = s THEN {f} \cup (waiting \ replaced) ELSE wait[x]]
    BY <1>1, <1>5 DEF MapInsert, WaitAfter
  <2>2. /\ DOMAIN w = DOMAIN wait \cup {s} /\ w[s] = {f} \cup (waiting \ replaced)
        /\ \A t \in DOMAIN w : t # s => t \in DOMAIN wait /\ w[t] = wait[t]
    BY <2>1
  <2>3. \A t \in DOMAIN w : w[t] \subseteq Downloads
    BY <1>2, <2>2
  <2>4. w \in [DOMAIN w -> SUBSET Downloads]
    BY <2>1, <2>2, <2>3
  <2>5. ASSUME NEW t \in DOMAIN w, NEW d \in w[t]
        PROVE  after[d] = t /\ t # NoSession /\ \A i \in DOMAIN map : map[i] # d
    <3>1. CASE t = s
      BY <1>2, <1>3, <2>2, <3>1
    <3>2. CASE t # s
      <4>1. t \in DOMAIN wait /\ d \in wait[t] /\ d \in Downloads /\ d # f /\ d \notin replaced
        BY <1>1, <1>2, <2>2, <3>2 DEF Replaces
      <4> QED
        BY <1>3, <4>1 DEF Placed
    <3> QED
      BY <3>1, <3>2
  <2> QED
    BY <1>4, <2>4, <2>5 DEF Placed
<1>6. ASSUME replaced = {}
      PROVE  Placed(map, wait, after)
  <2>1. \A t \in DOMAIN wait : \A d \in wait[t] : d \in Downloads /\ after[d] = session[d]
    BY <1>3, <1>6 DEF Placed
  <2> QED
    BY <1>4, <2>1 DEF Placed
<1> QED
  BY <1>1, <1>3, <1>5, <1>6

\* The downloads downs that waited are filed under new identifiers.
Extended(map, ids, downs, more) ==
  /\ DOMAIN more = DOMAIN map \cup {ids[Part(f, 0)] : f \in downs}
  /\ \A i \in DOMAIN map : more[i] = map[i]
  /\ \A f \in downs : more[ids[Part(f, 0)]] = f

LEMMA PlacedReady ==
  ASSUME NEW map, NEW wait, NEW session, Placed(map, wait, session), NEW s, NEW downs, Replaces(downs, wait, s),
         NEW ids, \A f \in downs : ids[Part(f, 0)] \in Ids /\ ids[Part(f, 0)] \notin DOMAIN map,
         \A f, g \in downs : ids[Part(f, 0)] = ids[Part(g, 0)] => f = g,
         NEW more, more = WithIds(map, ids, downs)
  PROVE  /\ downs = {} => Placed(more, wait, session)
         /\ downs = MapSet(wait, s) => Placed(more, MapRemove(wait, s), session)
         /\ Extended(map, ids, downs, more)
<1>1. PICK new : new = {ids[Part(f, 0)] : f \in downs}
  OBVIOUS
<1>2. ASSUME NEW i \in new
      PROVE  \E f \in downs : ids[Part(f, 0)] = i
  BY <1>1
<1>3. /\ DOMAIN more = DOMAIN map \cup new
      /\ \A i \in DOMAIN map : more[i] = map[i]
      /\ \A f \in downs : more[ids[Part(f, 0)]] = f
  <2>1. DOMAIN more = DOMAIN map \cup new /\ \A i \in DOMAIN map : more[i] = map[i]
    BY <1>1 DEF WithIds
  <2>2. ASSUME NEW f \in downs
        PROVE  more[ids[Part(f, 0)]] = f
    <3>1. more[ids[Part(f, 0)]] = CHOOSE g \in downs : ids[Part(g, 0)] = ids[Part(f, 0)]
      BY DEF WithIds
    <3> QED
      BY <3>1
  <2> QED
    BY <2>1, <2>2
<1>4. downs \subseteq Downloads /\ \A f \in downs : session[f] # NoSession /\ \A i \in DOMAIN map : map[i] # f
  BY DEF Placed, MapSet, Replaces
<1>5. \A i \in DOMAIN more : more[i] \in Downloads /\ session[more[i]] # NoSession
  BY <1>2, <1>3, <1>4 DEF Placed
<1>6. more \in [DOMAIN more -> Downloads]
  BY <1>5 DEF WithIds
<1>7. IsFiniteSet(DOMAIN more)
  <2>1. PICK g : g = [f \in downs |-> ids[Part(f, 0)]]
    OBVIOUS
  <2>2. {g[f] : f \in downs} = new /\ DOMAIN g = downs
    BY <1>1, <2>1
  <2>3. IsFiniteSet(downs)
    BY <1>4, Constants, FS_Subset
  <2>4. IsFiniteSet(new)
    BY <2>2, <2>3, ImageFinite
  <2>5. PICK old : old = DOMAIN map
    OBVIOUS
  <2>6. IsFiniteSet(old)
    BY <2>5 DEF Placed
  <2>7. IsFiniteSet(old \cup new)
    BY <2>4, <2>6, FS_Union
  <2> QED
    BY <1>3, <2>5, <2>7
<1>8. ASSUME NEW i \in DOMAIN more, NEW j \in DOMAIN more, more[i] = more[j]
      PROVE  i = j
  BY <1>2, <1>3, <1>4, <1>8 DEF Placed
<1>9. DOMAIN more \subseteq Ids
  BY <1>2, <1>3 DEF Placed
<1>10. ASSUME NEW w, \/ w = wait /\ downs = {}
                     \/ w = MapRemove(wait, s) /\ downs = MapSet(wait, s)
       PROVE  Placed(more, w, session)
  <2>1. DOMAIN w \subseteq DOMAIN wait /\ (\A t \in DOMAIN w : w[t] = wait[t]) /\ (downs # {} => s \notin DOMAIN w)
    BY <1>10 DEF MapRemove
  <2>2. w \in [DOMAIN w -> SUBSET Downloads]
    BY <1>10, <2>1 DEF MapRemove, Placed
  <2>3. \A t \in DOMAIN w : \A f \in w[t] : session[f] = t /\ t # NoSession
    BY <2>1 DEF Placed
  <2>4. ASSUME NEW t \in DOMAIN w, NEW i \in DOMAIN more
        PROVE  more[i] \notin w[t]
    <3>1. CASE i \in DOMAIN map
      BY <1>3, <2>1, <3>1 DEF Placed
    <3>2. CASE i \in new
      <4>1. PICK f \in downs : more[i] = f
        BY <1>2, <1>3, <3>2
      <4>2. session[f] = s /\ t # s
        BY <1>10, <2>1 DEF MapSet, Placed
      <4> QED
        BY <2>3, <4>1, <4>2
    <3> QED
      BY <1>3, <3>1, <3>2
  <2> QED
    BY <1>5, <1>6, <1>7, <1>8, <1>9, <2>2, <2>3, <2>4 DEF Placed
<1> QED
  <2>1. downs = {} => Placed(more, wait, session)
    BY <1>10
  <2>2. downs = MapSet(wait, s) => Placed(more, MapRemove(wait, s), session)
    BY <1>10
  <2>3. Extended(map, ids, downs, more)
    BY <1>1, <1>3 DEF Extended
  <2> QED
    BY <2>1, <2>2, <2>3

-----------------------------------------------------------------------------
(* The parts of the state that a step leaves alone.                        *)

\* The sessions and the queries after a step.
LaterState == ManagerType(manager') /\ Later(manager, manager') /\ CallsOk(calls', manager')

LEMMA UploadsAside ==
  ASSUME UploadsInv, UNCHANGED uploadVars, Later(manager, manager'), asked \subseteq asked'
  PROVE  UploadsInv'
BY DEF UploadsInv, uploadVars, Later, Sessions

LEMMA DownloadsAside ==
  ASSUME DownloadsInv, UNCHANGED downloadVars, Later(manager, manager'), asked \subseteq asked'
  PROVE  DownloadsInv'
BY DEF DownloadsInv, downloadVars, Later, Sessions

LEMMA TransfersAside ==
  ASSUME TransfersInv, UNCHANGED transfers, Later(manager, manager'), asked \subseteq asked'
  PROVE  TransfersInv'
<1>1. transfers' = transfers /\ DOMAIN transfers' \subseteq TransferDcs \cap asked'
  BY DEF TransfersInv
<1>2. \A x \in DOMAIN transfers : transfers[x] \in Sessions'
  BY DEF TransfersInv, Later, Sessions
<1> QED
  BY <1>1, <1>2 DEF TransfersInv

\* The state again, when only the sessions and the queries changed.
LEMMA AsideIs ==
  ASSUME BaseInv, LaterState, UNCHANGED <<uploadVars, downloadVars, transfers, offlines>>, asked \subseteq asked'
  PROVE  BaseInv'
BY UploadsAside, DownloadsAside, TransfersAside DEF BaseInv, LaterState

\* The sessions are those of a later manager, without some queries.
LEMMA LaterFewer ==
  ASSUME BaseInv, ManagerType(manager'), Later(manager, manager'), calls' \in SUBSET calls
  PROVE  LaterState
<1>1. PICK c, d, m, n : c = calls /\ d = calls' /\ m = manager /\ n = manager'
  OBVIOUS
<1>2. CallsOk(c, m) /\ Later(m, n) /\ d \in SUBSET c
  BY <1>1 DEF BaseInv
<1>3. CallsOk(d, n)
  BY <1>2, CallsFewer
<1> QED
  BY <1>1, <1>3 DEF LaterState

\* Release of one session in a step.
LEMMA LaterReleased ==
  ASSUME BaseInv, NEW s \in Sessions, NEW atOnce \in BOOLEAN, manager' = Release(manager, s, atOnce),
         NEW c \in SUBSET calls, calls' = Living(c, manager')
  PROVE  LaterState /\ Freed(manager, s, 1, manager')
<1>1. PICK m, n : m = manager /\ n = manager'
  OBVIOUS
<1>2. ManagerType(m) /\ s \in DOMAIN m.sockets /\ n = Release(m, s, atOnce)
  BY <1>1 DEF BaseInv, Sessions
<1>3. Freed(m, s, 1, n)
  BY <1>2, ReleaseIs
<1>4. ManagerType(manager') /\ Later(manager, manager')
  BY <1>1, <1>3 DEF Freed
<1>5. calls' \in SUBSET calls
  BY DEF Living
<1> QED
  BY <1>1, <1>3, <1>4, <1>5, LaterFewer

-----------------------------------------------------------------------------
(* The steps of uploads.                                                   *)

LEMMA FirstEngineIs ==
  ASSUME NEW u \in Uploads
  PROVE  FirstEngine(u) \in Engines /\ FirstEngine(u).op = u
BY DEF FirstEngine, Engines, Engine

LEMMA EngineIs ==
  ASSUME NEW e \in Engines
  PROVE  /\ e.op \in Uploads /\ e.type \in {"Main", "Thumbnail"} /\ e = Engine(e.op, e.type)
         /\ Engine(e.op, "Main") \in Engines /\ (e.type = "Thumbnail" => e.op \in Thumbs)
BY Constants DEF Engines, Engine

LEMMA UploadSendFileBase ==
  ASSUME BaseInv, NEW u \in Uploads, UploadSendFile(u)
  PROVE  BaseInv'
<1>1. PICK m, a, s : m = manager /\ a = Acquire(m, WorkingDc) /\ s = a.session
  OBVIOUS
<1>2. ManagerType(m) /\ WorkingDc \in DCs
  BY <1>1, Constants DEF BaseInv
<1>3. Acquired(m, WorkingDc, a)
  BY <1>1, <1>2, AcquireIs
<1>4. asked \subseteq asked' /\ UNCHANGED <<downloadVars, transfers, boundVars>>
  BY DEF UploadSendFile
<1>5. CASE s = NoSession
  <2>1. manager' = a.manager /\ UNCHANGED <<uploadVars, calls>>
    BY <1>1, <1>5 DEF UploadSendFile
  <2>2. ManagerType(manager') /\ Later(manager, manager')
    BY <1>1, <1>3, <2>1 DEF Acquired
  <2> QED
    BY <1>4, <2>1, <2>2, LaterFewer, AsideIs DEF boundVars
<1>6. CASE s # NoSession
  <2>1. PICK k : k = a.manager
    OBVIOUS
  <2>2. ManagerType(k) /\ Later(m, k) /\ s \in DOMAIN k.sockets
    BY <1>1, <1>3, <1>6, <2>1 DEF Acquired
  <2>3. /\ uploadSession' = [uploadSession EXCEPT ![u] = s]
        /\ mUploadsMap' = mUploadsMap \cup {e \in Engines : e.op = u}
        /\ asked' = asked \cup {u}
        /\ UNCHANGED <<uploadedParts, sentMedia, answered>>
    BY <1>1, <1>6 DEF UploadSendFile
  <2>4. /\ LaterState /\ s \in Sessions'
        /\ mInitialUploadsMap' \in [DOMAIN mInitialUploadsMap' -> SUBSET Engines]
    <3>1. CASE State(k, s) = "connected"
      <4>1. manager' = k /\ calls' = SendParts(calls, k, s, FirstEngine(u)) /\ UNCHANGED mInitialUploadsMap
        BY <1>1, <1>6, <2>1, <3>1 DEF UploadSendFile
      <4>2. PICK c, d, e : c = calls /\ d = calls' /\ e = FirstEngine(u)
        OBVIOUS
      <4>3. CallsOk(c, m) /\ c \in SUBSET c /\ e \in Engines /\ d = SendParts(c, k, s, e)
        BY <1>1, <4>1, <4>2, FirstEngineIs DEF BaseInv
      <4>4. CallsOk(c, k)
        BY <2>2, <4>3, CallsFewer
      <4>5. CallsOk(d, k)
        BY <2>2, <4>3, <4>4, CallsOfParts
      <4> QED
        BY <1>1, <2>2, <4>1, <4>2, <4>5 DEF LaterState, Sessions, BaseInv, UploadsInv
    <3>2. CASE State(k, s) # "connected"
      <4>1. /\ manager' = ConnectToServer(ConnectSlot(k, s, "upload"), s) /\ UNCHANGED calls
            /\ mInitialUploadsMap' =
                 MapInsert(mInitialUploadsMap, s, MapSet(mInitialUploadsMap, s) \cup {FirstEngine(u)})
        BY <1>1, <1>6, <2>1, <3>2 DEF UploadSendFile
      <4>2. PICK n : n = manager'
        OBVIOUS
      <4>3. Reached(k, n)
        BY <2>2, <4>1, <4>2, ConnectedIs
      <4>4. ManagerType(manager') /\ Later(manager, manager') /\ s \in Sessions'
        BY <1>1, <2>2, <4>2, <4>3 DEF Reached, Later, Sessions
      <4>5. mInitialUploadsMap' \in [DOMAIN mInitialUploadsMap' -> SUBSET Engines]
        <5>1. MapSet(mInitialUploadsMap, s) \cup {FirstEngine(u)} \in SUBSET Engines
          BY FirstEngineIs DEF MapSet, BaseInv, UploadsInv
        <5> QED
          BY <4>1, <5>1 DEF MapInsert, BaseInv, UploadsInv
      <4> QED
        BY <4>1, <4>4, <4>5, LaterFewer
    <3> QED
      BY <3>1, <3>2
  <2>5. DownloadsInv' /\ TransfersInv'
    BY <1>4, <2>4, DownloadsAside, TransfersAside DEF BaseInv, LaterState
  <2>6. UploadsInv'
    <3>1. mUploadsMap' \subseteq Engines /\ s # NoSession
      BY <1>6, <2>3 DEF BaseInv, UploadsInv
    <3>2. uploadSession' \in [Uploads -> Sessions' \cup {NoSession}]
      BY <2>3, <2>4 DEF BaseInv, UploadsInv, LaterState, Later, Sessions
    <3>3. \A e \in mUploadsMap' : uploadSession'[e.op] # NoSession /\ e.op \in asked'
      <4>1. ASSUME NEW e \in mUploadsMap'
            PROVE  uploadSession'[e.op] # NoSession /\ e.op \in asked'
        <5>1. e.op \in Uploads
          BY <3>1, EngineIs
        <5> QED
          BY <2>3, <3>1, <5>1 DEF BaseInv, UploadsInv
      <4> QED
        BY <4>1
    <3> QED
      BY <2>3, <2>4, <3>1, <3>2, <3>3 DEF BaseInv, UploadsInv
  <2> QED
    BY <1>4, <2>4, <2>5, <2>6 DEF BaseInv, LaterState, boundVars
<1> QED
  BY <1>5, <1>6

LEMMA PartResultBase ==
  ASSUME BaseInv, NEW r \in calls, PartResult(r)
  PROVE  BaseInv'
<1>1. /\ r.file \in mUploadsMap /\ uploadedParts' = [uploadedParts EXCEPT ![r.file] = @ + 1]
      /\ calls' = calls \ {r}
      /\ UNCHANGED <<manager, mUploadsMap, mInitialUploadsMap, uploadSession, sentMedia,
                     downloadVars, transfers, asked, boundVars>>
  BY DEF PartResult, SaveFilePartResult
<1>2. ManagerType(manager') /\ Later(manager, manager')
  BY <1>1, ManagerParts DEF BaseInv
<1>3. LaterState
  BY <1>1, <1>2, LaterFewer
<1>4. DownloadsInv' /\ TransfersInv'
  BY <1>1, <1>2, DownloadsAside, TransfersAside DEF BaseInv
<1>5. UploadsInv'
  BY <1>1 DEF BaseInv, UploadsInv, Sessions
<1> QED
  BY <1>1, <1>3, <1>4, <1>5 DEF BaseInv, LaterState, boundVars

LEMMA ThumbnailResultBase ==
  ASSUME BaseInv, NEW r \in calls, ThumbnailResult(r)
  PROVE  BaseInv'
<1>1. PICK s, lost, c, e :
        /\ s = uploadSession[r.file.op] /\ lost = IF State(manager, s) = "connected" THEN 0 ELSE 1
        /\ c = calls \ {r} /\ e = Engine(r.file.op, "Main")
  OBVIOUS
<1>2. /\ r.file \in mUploadsMap /\ uploadedParts' = [uploadedParts EXCEPT ![r.file] = @ + 1]
      /\ offlines' = offlines + lost /\ calls' = SendParts(c, manager, s, e)
      /\ UNCHANGED <<manager, mUploadsMap, mInitialUploadsMap, uploadSession, sentMedia,
                     downloadVars, transfers, asked>>
  BY <1>1 DEF ThumbnailResult, SaveFilePartResult
<1>3. ManagerType(manager') /\ Later(manager, manager')
  BY <1>2, ManagerParts DEF BaseInv
<1>4. r.file \in Engines /\ r.file.op \in Uploads
  BY <1>2, EngineIs DEF BaseInv, UploadsInv
<1>5. e \in Engines /\ s \in DOMAIN manager.sockets
  BY <1>1, <1>2, <1>4, EngineIs DEF BaseInv, UploadsInv, Sessions
<1>6. CallsOk(calls', manager)
  <2>1. PICK m, d, b : m = manager /\ d = calls' /\ b = calls
    OBVIOUS
  <2>2. ManagerType(m) /\ s \in DOMAIN m.sockets /\ d = SendParts(c, m, s, e) /\ CallsOk(b, m) /\ c \in SUBSET b
    BY <1>1, <1>2, <1>5, <2>1 DEF BaseInv
  <2>3. CallsOk(c, m)
    BY <2>2, CallsFewer, ManagerParts
  <2>4. CallsOk(d, m)
    BY <1>5, <2>2, <2>3, CallsOfParts
  <2> QED
    BY <2>1, <2>4
<1>7. LaterState
  BY <1>2, <1>3, <1>6 DEF LaterState
<1>8. DownloadsInv' /\ TransfersInv'
  BY <1>2, <1>3, DownloadsAside, TransfersAside DEF BaseInv
<1>9. UploadsInv'
  BY <1>2 DEF BaseInv, UploadsInv, Sessions
<1>10. offlines' \in Nat
  BY <1>1, <1>2 DEF BaseInv
<1> QED
  BY <1>7, <1>8, <1>9, <1>10 DEF BaseInv, LaterState

LEMMA MainResultBase ==
  ASSUME BaseInv, NEW r \in calls, NEW atOnce \in BOOLEAN, MainResult(r, atOnce)
  PROVE  /\ BaseInv'
         /\ LET u == r.file.op
                s == uploadSession[u]
            IN  s \in Sessions /\ (u \notin Thumbs => Freed(manager, s, 1, manager'))
<1>1. PICK u, s, b, m, n :
        /\ u = r.file.op /\ s = uploadSession[u] /\ b = manager /\ n = manager'
        /\ m = IF u \in Thumbs THEN Release(b, s, atOnce) ELSE b
  OBVIOUS
<1>2. /\ r.file \in mUploadsMap /\ uploadedParts' = [uploadedParts EXCEPT ![r.file] = @ + 1]
      /\ sentMedia' = sentMedia \cup {u} /\ mUploadsMap' = {e \in mUploadsMap : e.op # u}
      /\ n = Release(m, s, atOnce) /\ calls' = Living(calls \ {r}, manager')
      /\ UNCHANGED <<mInitialUploadsMap, uploadSession, downloadVars, transfers, asked, boundVars>>
  BY <1>1 DEF MainResult, SaveFilePartResult
<1>3. r.file \in Engines /\ u \in Uploads
  BY <1>1, <1>2, EngineIs DEF BaseInv, UploadsInv
<1>4. ManagerType(b) /\ s \in DOMAIN b.sockets
  BY <1>1, <1>2, <1>3 DEF BaseInv, UploadsInv, Sessions
<1>5. ManagerType(m) /\ Later(b, m)
  <2>1. CASE u \in Thumbs
    <3>1. Freed(b, s, 1, m)
      BY <1>1, <1>4, <2>1, ReleaseIs
    <3> QED
      BY <3>1 DEF Freed
  <2>2. CASE u \notin Thumbs
    BY <1>1, <1>4, <2>2, ManagerParts
  <2> QED
    BY <2>1, <2>2
<1>6. Freed(m, s, 1, n)
  <2>1. s \in DOMAIN m.sockets
    BY <1>4, <1>5 DEF Later
  <2> QED
    BY <1>2, <1>5, <2>1, ReleaseIs
<1>7. ManagerType(manager') /\ Later(manager, manager')
  <2>1. ManagerType(n) /\ Later(m, n)
    BY <1>6 DEF Freed
  <2> QED
    BY <1>1, <1>5, <2>1, LaterTrans
<1>8. LaterState
  <2>1. calls' \in SUBSET calls
    BY <1>2 DEF Living
  <2> QED
    BY <1>7, <2>1, LaterFewer
<1>9. DownloadsInv' /\ TransfersInv'
  BY <1>2, <1>7, DownloadsAside, TransfersAside DEF BaseInv
<1>10. UploadsInv'
  <2>1. uploadSession' \in [Uploads -> Sessions' \cup {NoSession}]
    BY <1>2, <1>7 DEF BaseInv, UploadsInv, Sessions, Later
  <2> QED
    BY <1>2, <1>3, <2>1 DEF BaseInv, UploadsInv
<1> QED
  BY <1>1, <1>2, <1>4, <1>6, <1>8, <1>9, <1>10 DEF BaseInv, LaterState, boundVars, Sessions

-----------------------------------------------------------------------------
(* The steps of downloads.                                                 *)

\* The state after a step of a download.
LEMMA DownloadStep ==
  ASSUME BaseInv, LaterState, UNCHANGED <<uploadVars, transfers>>, DownloadsInv', asked \subseteq asked', offlines' \in Nat
  PROVE  BaseInv'
BY UploadsAside, TransfersAside DEF BaseInv, LaterState

\* The sessions and the queries of Start.
LEMMA StartSessions ==
  ASSUME BaseInv, NEW f \in Downloads, NEW m, ManagerType(m), NEW s \in DOMAIN m.sockets,
         NEW map, NEW c, CallsOk(c, m), Start(f, m, s, map, c)
  PROVE  ManagerType(manager') /\ Later(m, manager') /\ CallsOk(calls', manager')
<1>1. PICK connects, replaced, k, n :
        /\ connects = (State(m, s) \notin {"connecting", "connected"})
        /\ replaced = IF connects THEN MapSet(mInitialDownloadsMap, s) ELSE {}
        /\ n = manager' /\ k = ReleaseTimes(m, s, Cardinality(replaced))
  OBVIOUS
<1>2. n = IF connects THEN ConnectToServer(ConnectSlot(k, s, "download"), s) ELSE m
  BY <1>1 DEF Start
<1>3. ManagerType(n) /\ Later(m, n)
  <2>1. CASE connects
    <3>1. replaced \in SUBSET Downloads
      BY <1>1 DEF MapSet, BaseInv, DownloadsInv, Placed
    <3>2. PICK times \in Nat : times = Cardinality(replaced)
      BY <3>1, Constants, FS_Subset, FS_CardinalityType
    <3>3. Freed(m, s, times, k)
      BY <1>1, <3>2, ReleaseTimesIs
    <3>4. ManagerType(k) /\ Later(m, k) /\ s \in DOMAIN k.sockets
      BY <3>3 DEF Freed
    <3>5. Reached(k, n)
      BY <1>2, <2>1, <3>4, ConnectedIs
    <3>6. ManagerType(n) /\ Later(k, n)
      BY <3>5 DEF Reached
    <3> QED
      BY <3>4, <3>6, LaterTrans
  <2>2. CASE ~connects
    BY <1>2, <2>2, ManagerParts
  <2> QED
    BY <2>1, <2>2
<1>4. PICK d : d = calls'
  OBVIOUS
<1>5. CallsOk(d, m)
  <2>1. CASE State(m, s) = "connected"
    <3>1. PICK parts, ids : parts = {Part(f, 0)} /\ ids = NewIds(c, parts)
      OBVIOUS
    <3>2. d = SendQueries(c, s, parts)
      BY <1>4, <2>1, <3>1 DEF Start
    <3>3. parts \in SUBSET PartType /\ IsFiniteSet(parts)
      BY <3>1, OnePart DEF Files
    <3>4. Sent(c, s, parts, ids, d)
      BY <3>1, <3>2, <3>3, SentIs DEF BaseInv
    <3> QED
      BY <3>3, <3>4, CallsSent
  <2>2. CASE State(m, s) # "connected"
    BY <1>4, <2>2 DEF Start
  <2> QED
    BY <2>1, <2>2
<1>6. CallsOk(d, n)
  <2>1. d \in SUBSET d
    OBVIOUS
  <2> QED
    BY <1>3, <1>5, <2>1, CallsFewer
<1> QED
  BY <1>1, <1>3, <1>4, <1>6

\* The identifier of one new query.
LEMMA NewIdIs ==
  ASSUME DownloadsInv, NEW m, NEW c, CallsOk(c, m), NEW p, NEW id, id = NewIds(c, {p})[p]
  PROVE  id \in Nat \ {0} /\ id \notin DOMAIN mDownloadsMap /\ \A r \in c : r.id # id
<1>1. PICK parts, ids : parts = {p} /\ ids = NewIds(c, parts)
  OBVIOUS
<1>2. IsFiniteSet(c) /\ IsFiniteSet(DOMAIN mDownloadsMap) /\ IsFiniteSet(parts)
  BY <1>1, FS_Singleton DEF CallsOk, DownloadsInv, Placed
<1>3. Fresh(c, parts, ids)
  BY <1>1, <1>2, NewIdsAre
<1> QED
  BY <1>1, <1>3 DEF Fresh

\* The places of Start.
LEMMA StartPlaces ==
  ASSUME BaseInv, NEW f \in Downloads, NEW m, ManagerType(m), Later(manager, m), NEW s \in DOMAIN m.sockets,
         NEW map, NEW c, CallsOk(c, m), Placed(map, mInitialDownloadsMap, downloadSession),
         \A i \in DOMAIN map : map[i] # f, \A t \in DOMAIN mInitialDownloadsMap : f \notin mInitialDownloadsMap[t],
         Start(f, m, s, map, c)
  PROVE  /\ Placed(mDownloadsMap', mInitialDownloadsMap', downloadSession')
         /\ downloadSession' \in [Downloads -> DOMAIN m.sockets \cup {NoSession}]
         /\ \A d \in Downloads : downloadSession'[d] # NoSession => d = f \/ downloadSession[d] # NoSession
<1>1. PICK connects, wait, session, after, waiting, replaced :
        /\ connects = (State(m, s) \notin {"connecting", "connected"})
        /\ wait = mInitialDownloadsMap /\ session = downloadSession /\ after = downloadSession'
        /\ waiting = MapSet(wait, s) /\ replaced = IF connects THEN waiting ELSE {}
  OBVIOUS
<1>2. after = After(f, s, replaced, session)
  BY <1>1 DEF Start, After
<1>3. s \in Nat /\ s # NoSession /\ Replaces(replaced, wait, s)
  BY <1>1, ManagerParts DEF NoSession, Replaces
<1>4. PICK w : w = WaitAfter(f, s, replaced, wait)
  OBVIOUS
<1>5. (replaced = {} => Placed(map, wait, after)) /\ Placed(map, w, after) /\ after[f] = s
  <2>1. /\ Placed(map, wait, session) /\ \A i \in DOMAIN map : map[i] # f
        /\ \A t \in DOMAIN wait : f \notin wait[t]
    BY <1>1
  <2> QED
    BY <1>2, <1>3, <1>4, <2>1, PlacedStart
<1>6. Placed(mDownloadsMap', mInitialDownloadsMap', after)
  <2>1. CASE State(m, s) = "connected"
    <3>1. PICK id : id = NewIds(c, {Part(f, 0)})[Part(f, 0)]
      OBVIOUS
    <3>2. mDownloadsMap' = MapInsert(map, id, f) /\ mInitialDownloadsMap' = wait /\ replaced = {}
      BY <1>1, <2>1, <3>1 DEF Start
    <3>3. id \in Ids
      BY <3>1, NewIdIs DEF BaseInv, Ids
    <3>4. PICK more : more = MapInsert(map, id, f)
      OBVIOUS
    <3>5. /\ Placed(map, wait, after) /\ after[f] # NoSession /\ \A i \in DOMAIN map : map[i] # f
          /\ \A t \in DOMAIN wait : f \notin wait[t]
      BY <1>1, <1>3, <1>5, <3>2
    <3>6. Placed(more, wait, after)
      BY <3>3, <3>4, <3>5, PlacedMore
    <3> QED
      BY <3>2, <3>4, <3>6
  <2>2. CASE State(m, s) # "connected"
    <3>1. mDownloadsMap' = map /\ mInitialDownloadsMap' = w
      BY <1>1, <1>4, <2>2 DEF Start, WaitAfter
    <3> QED
      BY <1>5, <3>1
  <2> QED
    BY <2>1, <2>2
<1>7. \A d \in Downloads : session[d] \in DOMAIN m.sockets \cup {NoSession}
  BY <1>1 DEF BaseInv, DownloadsInv, Later, Sessions
<1>8. after \in [Downloads -> DOMAIN m.sockets \cup {NoSession}]
  BY <1>2, <1>7 DEF After
<1>9. \A d \in Downloads : after[d] # NoSession => d = f \/ session[d] # NoSession
  BY <1>2 DEF After
<1> QED
  BY <1>1, <1>6, <1>8, <1>9

LEMMA UploadGetFileBase ==
  ASSUME BaseInv, NEW f \in Downloads, UploadGetFile(f)
  PROVE  BaseInv'
<1>1. PICK m, a, s, k : m = manager /\ a = Acquire(m, DcNum[f]) /\ s = a.session /\ k = a.manager
  OBVIOUS
<1>2. ManagerType(m) /\ DcNum[f] \in DCs
  BY <1>1, Constants DEF BaseInv
<1>3. Acquired(m, DcNum[f], a)
  BY <1>1, <1>2, AcquireIs
<1>4. ManagerType(k) /\ Later(m, k) /\ s \in DOMAIN k.sockets \cup {NoSession}
  BY <1>1, <1>3 DEF Acquired
<1>5. f \notin asked /\ asked' = asked \cup {f} /\ UNCHANGED <<uploadVars, transfers, boundVars>>
  BY DEF UploadGetFile
<1>6. CASE s = NoSession
  <2>1. manager' = k /\ UNCHANGED <<downloadVars, calls>>
    BY <1>1, <1>6 DEF UploadGetFile
  <2>2. ManagerType(manager') /\ Later(manager, manager')
    BY <1>1, <1>4, <2>1
  <2> QED
    BY <1>5, <2>1, <2>2, LaterFewer, AsideIs DEF boundVars
<1>7. CASE s # NoSession
  <2>1. PICK n : n = ConnectSlot(k, s, "rename")
    OBVIOUS
  <2>2. /\ mActiveDownloadsMap' = mActiveDownloadsMap \cup {f}
        /\ Start(f, n, s, mDownloadsMap, calls)
        /\ UNCHANGED <<mCancelDownloadsMap, bytes, finished>>
    BY <1>1, <1>7, <2>1 DEF UploadGetFile
  <2>3. Reached(k, n)
    BY <1>4, <1>7, <2>1, ConnectIs
  <2>4. ManagerType(n) /\ Later(k, n) /\ s \in DOMAIN n.sockets
    BY <1>4, <1>7, <2>3 DEF Reached
  <2>5. Later(m, n)
    BY <1>4, <2>4, LaterTrans
  <2>6. CallsOk(calls, n)
    <3>1. PICK c : c = calls
      OBVIOUS
    <3>2. CallsOk(c, m) /\ c \in SUBSET c
      BY <1>1, <3>1 DEF BaseInv
    <3>3. CallsOk(c, n)
      BY <2>5, <3>2, CallsFewer
    <3> QED
      BY <3>1, <3>3
  <2>7. LaterState
    <3>1. ManagerType(manager') /\ Later(n, manager') /\ CallsOk(calls', manager')
      BY <2>2, <2>4, <2>6, StartSessions
    <3>2. PICK o : o = manager'
      OBVIOUS
    <3>3. Later(m, o)
      BY <2>5, <3>1, <3>2, LaterTrans
    <3> QED
      BY <1>1, <3>1, <3>2, <3>3 DEF LaterState
  <2>8. /\ \A i \in DOMAIN mDownloadsMap : mDownloadsMap[i] # f
        /\ \A t \in DOMAIN mInitialDownloadsMap : f \notin mInitialDownloadsMap[t]
    BY <1>5 DEF BaseInv, DownloadsInv, Placed
  <2>9. /\ Placed(mDownloadsMap', mInitialDownloadsMap', downloadSession')
        /\ downloadSession' \in [Downloads -> DOMAIN n.sockets \cup {NoSession}]
        /\ \A d \in Downloads : downloadSession'[d] # NoSession => d = f \/ downloadSession[d] # NoSession
    <3>1. Later(manager, n) /\ Placed(mDownloadsMap, mInitialDownloadsMap, downloadSession)
      BY <1>1, <2>5 DEF BaseInv, DownloadsInv
    <3> QED
      BY <2>2, <2>4, <2>6, <2>8, <3>1, StartPlaces
  <2>10. DownloadsInv'
    <3>1. DOMAIN n.sockets \subseteq Sessions'
      <4>1. Later(n, manager')
        BY <2>2, <2>4, <2>6, StartSessions
      <4> QED
        BY <4>1 DEF Later, Sessions
    <3> QED
      BY <1>5, <2>2, <2>9, <3>1 DEF BaseInv, DownloadsInv
  <2> QED
    BY <1>5, <2>7, <2>10, DownloadStep DEF BaseInv, boundVars
<1> QED
  BY <1>6, <1>7

\* A download that is taken is in no other place.
LEMMA TakenIs ==
  ASSUME BaseInv, NEW r \in calls, Taken(r)
  PROVE  /\ mDownloadsMap[r.id] \in Downloads /\ downloadSession[mDownloadsMap[r.id]] \in Sessions
         /\ \A t \in DOMAIN mInitialDownloadsMap : mDownloadsMap[r.id] \notin mInitialDownloadsMap[t]
         /\ mDownloadsMap[r.id] \in asked
BY DEF BaseInv, DownloadsInv, Placed, Taken

LEMMA DestroyBase ==
  ASSUME BaseInv, NEW r \in calls, Taken(r), NEW f, f = mDownloadsMap[r.id], NEW atOnce \in BOOLEAN,
         Destroy(r, f, atOnce), mCancelDownloadsMap' = mCancelDownloadsMap \ {f},
         bytes' \in [Downloads -> Seq(Downloads \X Nat)], finished' \subseteq Downloads,
         UNCHANGED <<mInitialDownloadsMap, uploadVars, transfers, asked, boundVars>>
  PROVE  BaseInv' /\ Freed(manager, downloadSession[f], 1, manager')
<1>1. /\ f \in Downloads /\ downloadSession[f] \in Sessions
      /\ \A t \in DOMAIN mInitialDownloadsMap : f \notin mInitialDownloadsMap[t]
  BY TakenIs
<1>2. LaterState /\ Freed(manager, downloadSession[f], 1, manager')
  <2>1. PICK s \in Sessions : s = downloadSession[f]
    BY <1>1
  <2>2. PICK c : c = calls \ {r}
    OBVIOUS
  <2>3. manager' = Release(manager, s, atOnce) /\ c \in SUBSET calls /\ calls' = Living(c, manager')
    BY <2>1, <2>2 DEF Destroy
  <2> QED
    BY <2>1, <2>3, LaterReleased
<1>3. Placed(mDownloadsMap', mInitialDownloadsMap', downloadSession')
  <2>1. PICK map, wait, session, less, gone :
          /\ map = mDownloadsMap /\ wait = mInitialDownloadsMap /\ session = downloadSession
          /\ less = mDownloadsMap' /\ gone = downloadSession'
    OBVIOUS
  <2>2. /\ less = MapRemove(map, r.id) /\ gone = [session EXCEPT ![f] = NoSession] /\ Placed(map, wait, session)
        /\ wait = mInitialDownloadsMap' /\ r.id \in DOMAIN map /\ map[r.id] = f /\ DOMAIN session = Downloads
    BY <2>1 DEF Destroy, BaseInv, DownloadsInv, Taken
  <2>3. Placed(less, wait, session) /\ \A i \in DOMAIN less : less[i] # f
    <3>1. PICK id : id = r.id
      OBVIOUS
    <3>2. less = MapRemove(map, id) /\ Placed(map, wait, session)
      BY <2>2, <3>1
    <3>3. Placed(less, wait, session) /\ Less(map, id, less)
      BY <3>2, PlacedLess
    <3> QED
      BY <2>2, <3>1, <3>3 DEF Less
  <2>4. Placed(less, wait, gone)
    BY <1>1, <2>1, <2>2, <2>3, PlacedGone
  <2> QED
    BY <2>1, <2>2, <2>4
<1>4. downloadSession' \in [Downloads -> Sessions' \cup {NoSession}]
  BY <1>2 DEF Destroy, BaseInv, DownloadsInv, LaterState, Later, Sessions
<1>5. \A d \in Downloads : downloadSession'[d] # NoSession => d \in asked'
  BY DEF Destroy, BaseInv, DownloadsInv
<1>6. mCancelDownloadsMap' \subseteq mActiveDownloadsMap'
  BY DEF Destroy, BaseInv, DownloadsInv
<1>7. DownloadsInv'
  BY <1>3, <1>4, <1>5, <1>6 DEF DownloadsInv
<1> QED
  BY <1>2, <1>7, DownloadStep DEF BaseInv, boundVars

\* The units of a part are units of the file.
LEMMA PartOfIs ==
  ASSUME BaseInv, NEW r \in calls, r.file \in Downloads
  PROVE  /\ UnitsOf(r.file, r.from) \in Nat /\ PartOf(r) \in Seq(Downloads \X Nat)
         /\ Len(PartOf(r)) = UnitsOf(r.file, r.from)
         /\ \A i \in 1..UnitsOf(r.file, r.from) : PartOf(r)[i] = <<r.file, r.from + i>>
<1>1. Length[r.file] \in Nat /\ r.from \in Nat
  BY Constants DEF BaseInv, CallsOk
<1>2. PICK n : n = UnitsOf(r.file, r.from)
  OBVIOUS
<1>3. n \in Nat
  BY <1>1, <1>2 DEF UnitsOf, Block
<1>4. \A i \in 1..n : <<r.file, r.from + i>> \in Downloads \X Nat
  BY <1>1, <1>3
<1>5. PartOf(r) = [i \in 1..n |-> <<r.file, r.from + i>>]
  BY <1>2 DEF PartOf
<1>6. PartOf(r) \in Seq(Downloads \X Nat) /\ Len(PartOf(r)) = n
  BY <1>3, <1>4, <1>5
<1> QED
  BY <1>2, <1>3, <1>5, <1>6

LEMMA CancelledAnswerBase ==
  ASSUME BaseInv, NEW r \in calls, NEW atOnce \in BOOLEAN, CancelledAnswer(r, atOnce)
  PROVE  BaseInv' /\ Taken(r) /\ Freed(manager, downloadSession[mDownloadsMap[r.id]], 1, manager')
<1>1. PICK f : f = mDownloadsMap[r.id]
  OBVIOUS
<1>2. /\ Taken(r) /\ mCancelDownloadsMap' = mCancelDownloadsMap \ {f} /\ Destroy(r, f, atOnce)
      /\ UNCHANGED <<mInitialDownloadsMap, bytes, finished, uploadVars, transfers, asked, boundVars>>
  BY <1>1 DEF CancelledAnswer
<1>3. bytes' \in [Downloads -> Seq(Downloads \X Nat)] /\ finished' \subseteq Downloads
  BY <1>2 DEF BaseInv, DownloadsInv
<1> QED
  BY <1>1, <1>2, <1>3, DestroyBase

LEMMA LastAnswerBase ==
  ASSUME BaseInv, NEW r \in calls, NEW atOnce \in BOOLEAN, LastAnswer(r, atOnce)
  PROVE  BaseInv' /\ Taken(r) /\ Freed(manager, downloadSession[mDownloadsMap[r.id]], 1, manager')
<1>1. PICK f : f = mDownloadsMap[r.id]
  OBVIOUS
<1>2. /\ Taken(r) /\ f \notin mCancelDownloadsMap /\ Destroy(r, f, atOnce)
      /\ bytes' = [bytes EXCEPT ![f] = @ \o PartOf(r)] /\ finished' = finished \cup {f}
      /\ UNCHANGED <<mInitialDownloadsMap, mCancelDownloadsMap, uploadVars, transfers, asked, boundVars>>
  BY <1>1 DEF LastAnswer
<1>3. f \in Downloads
  BY <1>1, <1>2, TakenIs
<1>4. bytes' \in [Downloads -> Seq(Downloads \X Nat)] /\ finished' \subseteq Downloads
  <2>1. PartOf(r) \in Seq(Downloads \X Nat)
    BY <1>2, PartOfIs DEF Taken
  <2> QED
    BY <1>2, <1>3, <2>1 DEF BaseInv, DownloadsInv
<1>5. /\ Taken(r) /\ Destroy(r, f, atOnce) /\ mCancelDownloadsMap' = mCancelDownloadsMap \ {f}
      /\ UNCHANGED <<mInitialDownloadsMap, uploadVars, transfers, asked, boundVars>>
  BY <1>2
<1> QED
  BY <1>1, <1>4, <1>5, DestroyBase

LEMMA PartAnswerBase ==
  ASSUME BaseInv, NEW r \in calls, NEW atOnce \in BOOLEAN, PartAnswer(r, atOnce)
  PROVE  /\ BaseInv' /\ Taken(r)
         /\ \/ UNCHANGED <<manager, downloadSession>>
            \/ \E d \in Downloads :
                 /\ downloadSession[d] \in Sessions /\ Freed(manager, downloadSession[d], 1, manager')
                 /\ downloadSession' = [downloadSession EXCEPT ![d] = NoSession]
<1>1. PICK f, s, rest, next, offline, id, lost, c, sent :
        /\ f = mDownloadsMap[r.id] /\ s = downloadSession[f] /\ rest = MapRemove(mDownloadsMap, r.id)
        /\ next = Part(f, Len(bytes[f]) + Len(PartOf(r))) /\ c = calls \ {r}
        /\ offline = (State(manager, s) # "connected")
        /\ id = IF offline THEN Offline ELSE NewIds(c, {next})[next]
        /\ lost = (offline /\ Offline \in DOMAIN rest)
        /\ sent = IF offline THEN SendOffline(c, s, next) ELSE SendQueries(c, s, {next})
  OBVIOUS
<1>2. /\ Taken(r)
      /\ offlines' = IF offline THEN offlines + 1 ELSE offlines
      /\ bytes' = [bytes EXCEPT ![f] = @ \o PartOf(r)]
      /\ mDownloadsMap' = MapInsert(rest, id, f)
      /\ manager' = IF lost THEN Release(manager, downloadSession[rest[Offline]], atOnce) ELSE manager
      /\ downloadSession' = IF lost THEN [downloadSession EXCEPT ![rest[Offline]] = NoSession] ELSE downloadSession
      /\ calls' = Living(sent, manager')
      /\ UNCHANGED <<mInitialDownloadsMap, mActiveDownloadsMap, mCancelDownloadsMap, finished,
                     uploadVars, transfers, asked, drops, unanswered, migrations, renames>>
  BY <1>1 DEF PartAnswer
<1>3. /\ f \in Downloads /\ s \in Sessions
      /\ \A t \in DOMAIN mInitialDownloadsMap : f \notin mInitialDownloadsMap[t]
  BY <1>1, <1>2, TakenIs
<1>4. Placed(rest, mInitialDownloadsMap, downloadSession) /\ Less(mDownloadsMap, r.id, rest)
  <2>1. PICK map, wait, session, i : map = mDownloadsMap /\ wait = mInitialDownloadsMap /\ session = downloadSession /\ i = r.id
    OBVIOUS
  <2>2. rest = MapRemove(map, i) /\ Placed(map, wait, session)
    BY <1>1, <2>1 DEF BaseInv, DownloadsInv
  <2>3. Placed(rest, wait, session) /\ Less(map, i, rest)
    BY <2>2, PlacedLess
  <2> QED
    BY <2>1, <2>3
<1>5. \A i \in DOMAIN rest : rest[i] # f
  BY <1>1, <1>2, <1>4 DEF Less, Taken
<1>6. PartOf(r) \in Seq(Downloads \X Nat) /\ bytes[f] \in Seq(Downloads \X Nat)
  BY <1>2, <1>3, PartOfIs DEF Taken, BaseInv, DownloadsInv
<1>7. next \in PartType
  <2>1. PICK from \in Nat : from = Len(bytes[f]) + Len(PartOf(r))
    BY <1>6
  <2> QED
    BY <1>1, <1>3, <2>1, OnePart DEF Files
<1>8. CallsOk(sent, manager)
  <2>1. PICK m, b : m = manager /\ b = calls
    OBVIOUS
  <2>2. ManagerType(m) /\ CallsOk(b, m) /\ c \in SUBSET b /\ s \in DOMAIN m.sockets
    BY <1>1, <1>3, <2>1 DEF BaseInv, Sessions
  <2>3. CallsOk(c, m)
    BY <2>2, CallsFewer, ManagerParts
  <2>4. CASE offline
    <3>1. sent = SendOffline(c, s, next)
      BY <1>1, <2>4
    <3> QED
      BY <1>7, <2>1, <2>2, <2>3, <3>1, CallsOffline
  <2>5. CASE ~offline
    <3>1. PICK parts, ids : parts = {next} /\ ids = NewIds(c, parts)
      OBVIOUS
    <3>2. sent = SendQueries(c, s, parts)
      BY <1>1, <2>5, <3>1
    <3>3. parts \in SUBSET PartType /\ IsFiniteSet(parts)
      BY <1>7, <3>1, FS_Singleton
    <3>4. Sent(c, s, parts, ids, sent)
      BY <2>3, <3>1, <3>2, <3>3, SentIs DEF BaseInv
    <3> QED
      BY <2>1, <2>2, <2>3, <3>3, <3>4, CallsSent
  <2> QED
    BY <2>4, <2>5
<1>9. id \in Ids
  <2>1. CASE offline
    BY <1>1, <2>1 DEF Ids, Offline
  <2>2. CASE ~offline
    <3>1. PICK m, b : m = manager /\ b = calls
      OBVIOUS
    <3>2. ManagerType(m) /\ CallsOk(b, m) /\ c \in SUBSET b
      BY <1>1, <3>1 DEF BaseInv
    <3>3. CallsOk(c, m)
      BY <3>2, CallsFewer, ManagerParts
    <3>4. id = NewIds(c, {next})[next]
      BY <1>1, <2>2
    <3> QED
      BY <3>3, <3>4, NewIdIs DEF Ids, BaseInv
  <2> QED
    BY <2>1, <2>2
<1>10. CASE ~lost
  <2>1. manager' = manager /\ downloadSession' = downloadSession /\ calls' = Living(sent, manager)
    BY <1>2, <1>10
  <2>2. LaterState
    <3>1. PICK m, d : m = manager /\ d = calls'
      OBVIOUS
    <3>2. ManagerType(m) /\ CallsOk(sent, m) /\ d \in SUBSET sent
      BY <1>8, <2>1, <3>1 DEF BaseInv, Living
    <3>3. CallsOk(d, m) /\ Later(m, m)
      BY <3>2, CallsFewer, ManagerParts
    <3> QED
      BY <2>1, <3>1, <3>2, <3>3 DEF LaterState
  <2>3. Placed(mDownloadsMap', mInitialDownloadsMap, downloadSession)
    <3>1. PICK wait, session, more : wait = mInitialDownloadsMap /\ session = downloadSession /\ more = MapInsert(rest, id, f)
      OBVIOUS
    <3>2. /\ Placed(rest, wait, session) /\ session[f] # NoSession
          /\ \A t \in DOMAIN wait : f \notin wait[t]
      BY <1>1, <1>3, <1>4, <3>1, ManagerParts DEF Sessions, BaseInv
    <3>3. Placed(more, wait, session)
      BY <1>3, <1>5, <1>9, <3>1, <3>2, PlacedMore
    <3> QED
      BY <1>2, <3>1, <3>3
  <2>4. bytes' \in [Downloads -> Seq(Downloads \X Nat)]
    BY <1>2, <1>3, <1>6 DEF BaseInv, DownloadsInv
  <2>5. DownloadsInv'
    BY <1>2, <2>1, <2>3, <2>4 DEF BaseInv, DownloadsInv, Sessions
  <2> QED
    BY <1>2, <2>1, <2>2, <2>5, DownloadStep DEF BaseInv
<1>11. CASE lost
  <2>1. PICK d, t : d = rest[Offline] /\ t = downloadSession[d]
    OBVIOUS
  <2>2. id = Offline /\ Offline \in DOMAIN rest /\ d # f
    BY <1>1, <1>5, <1>11, <2>1
  <2>3. d \in Downloads /\ t \in Sessions
    BY <1>4, <2>1, <2>2 DEF Placed, BaseInv, DownloadsInv
  <2>4. /\ manager' = Release(manager, t, atOnce) /\ downloadSession' = [downloadSession EXCEPT ![d] = NoSession]
        /\ calls' = Living(sent, manager')
    BY <1>2, <1>11, <2>1
  <2>5. Freed(manager, t, 1, manager')
    <3>1. PICK m, n : m = manager /\ n = manager'
      OBVIOUS
    <3>2. ManagerType(m) /\ t \in DOMAIN m.sockets /\ n = Release(m, t, atOnce)
      BY <2>3, <2>4, <3>1 DEF BaseInv, Sessions
    <3>3. Freed(m, t, 1, n)
      BY <3>2, ReleaseIs
    <3> QED
      BY <3>1, <3>3
  <2>6. LaterState
    <3>1. PICK m, n, b : m = manager /\ n = manager' /\ b = calls'
      OBVIOUS
    <3>2. ManagerType(n) /\ Later(m, n) /\ CallsOk(sent, m) /\ b \in SUBSET sent
      BY <1>8, <2>4, <2>5, <3>1 DEF Freed, Living
    <3>3. CallsOk(b, n)
      BY <3>2, CallsFewer
    <3> QED
      BY <3>1, <3>2, <3>3 DEF LaterState
  <2>7. Placed(mDownloadsMap', mInitialDownloadsMap, downloadSession')
    <3>1. PICK wait, session, gone, bare, more :
            /\ wait = mInitialDownloadsMap /\ session = downloadSession /\ gone = downloadSession'
            /\ bare = MapRemove(rest, Offline) /\ more = MapInsert(bare, id, f)
      OBVIOUS
    <3>2. Placed(rest, wait, session)
      BY <1>4, <3>1
    <3>3. Placed(bare, wait, session) /\ Less(rest, Offline, bare)
      BY <3>1, <3>2, PlacedLess
    <3>4. /\ \A i \in DOMAIN bare : bare[i] # d /\ bare[i] # f
          /\ \A x \in DOMAIN wait : d \notin wait[x] /\ f \notin wait[x]
      BY <1>3, <1>5, <2>1, <2>2, <3>1, <3>2, <3>3 DEF Less, Placed
    <3>5. gone = [session EXCEPT ![d] = NoSession] /\ DOMAIN session = Downloads
      BY <2>4, <3>1 DEF BaseInv, DownloadsInv
    <3>6. Placed(bare, wait, gone)
      BY <3>3, <3>4, <3>5, PlacedGone
    <3>7. gone[f] # NoSession
      BY <1>1, <1>3, <2>2, <3>1, <3>5, ManagerParts DEF Sessions, BaseInv
    <3>8. Placed(more, wait, gone)
      BY <1>3, <1>9, <3>1, <3>4, <3>6, <3>7, PlacedMore
    <3>9. mDownloadsMap' = more
      BY <1>2, <2>2, <3>1 DEF MapInsert, MapRemove
    <3> QED
      BY <3>1, <3>8, <3>9
  <2>8. bytes' \in [Downloads -> Seq(Downloads \X Nat)]
    BY <1>2, <1>3, <1>6 DEF BaseInv, DownloadsInv
  <2>9. downloadSession' \in [Downloads -> Sessions' \cup {NoSession}]
    BY <2>4, <2>6 DEF BaseInv, DownloadsInv, LaterState, Later, Sessions
  <2>10. \A x \in Downloads : downloadSession'[x] # NoSession => x \in asked'
    BY <1>2, <2>4 DEF BaseInv, DownloadsInv
  <2>11. DownloadsInv'
    BY <1>2, <2>7, <2>8, <2>9, <2>10 DEF BaseInv, DownloadsInv
  <2>12. BaseInv'
    BY <1>2, <2>6, <2>11, DownloadStep DEF BaseInv
  <2> QED
    BY <1>2, <2>1, <2>3, <2>4, <2>5, <2>12
<1> QED
  BY <1>10, <1>11

LEMMA MigrateAnswerBase ==
  ASSUME BaseInv, NEW r \in calls, NEW dc \in DCs, NEW atOnce \in BOOLEAN, MigrateAnswer(r, dc, atOnce)
  PROVE  BaseInv' /\ Taken(r)
<1>1. PICK f, b, m, a, s, k, c :
        /\ f = mDownloadsMap[r.id] /\ b = manager /\ m = Release(b, downloadSession[f], atOnce)
        /\ a = Acquire(m, dc) /\ s = a.session /\ k = a.manager /\ c = Living(calls \ {r}, m)
  OBVIOUS
<1>2. PICK map : map = MapRemove(mDownloadsMap, r.id)
  OBVIOUS
<1>3. /\ Taken(r) /\ s # NoSession /\ Start(f, k, s, map, c)
      /\ UNCHANGED <<mActiveDownloadsMap, mCancelDownloadsMap, bytes, finished,
                     uploadVars, transfers, asked, drops, unanswered, renames, offlines>>
  BY <1>1, <1>2 DEF MigrateAnswer
<1>4. /\ f \in Downloads /\ downloadSession[f] \in Sessions /\ f \in asked
      /\ \A t \in DOMAIN mInitialDownloadsMap : f \notin mInitialDownloadsMap[t]
  BY <1>1, <1>3, TakenIs
<1>5. ManagerType(m) /\ Later(b, m)
  <2>1. PICK t : t = downloadSession[f]
    OBVIOUS
  <2>2. ManagerType(b) /\ t \in DOMAIN b.sockets /\ m = Release(b, t, atOnce)
    BY <1>1, <1>4, <2>1 DEF BaseInv, Sessions
  <2>3. Freed(b, t, 1, m)
    BY <2>2, ReleaseIs
  <2> QED
    BY <2>3 DEF Freed
<1>6. ManagerType(k) /\ Later(b, k) /\ s \in DOMAIN k.sockets
  <2>1. Acquired(m, dc, a)
    BY <1>1, <1>5, AcquireIs
  <2>2. ManagerType(k) /\ Later(m, k) /\ s \in DOMAIN k.sockets
    BY <1>1, <1>3, <2>1 DEF Acquired
  <2> QED
    BY <1>5, <2>2, LaterTrans
<1>7. CallsOk(c, k)
  <2>1. PICK d : d = calls
    OBVIOUS
  <2>2. CallsOk(d, b) /\ c \in SUBSET d
    BY <1>1, <2>1 DEF BaseInv, Living
  <2> QED
    BY <1>6, <2>2, CallsFewer
<1>8. Placed(map, mInitialDownloadsMap, downloadSession) /\ \A i \in DOMAIN map : map[i] # f
  <2>1. PICK old, wait, session, i : old = mDownloadsMap /\ wait = mInitialDownloadsMap /\ session = downloadSession /\ i = r.id
    OBVIOUS
  <2>2. map = MapRemove(old, i) /\ Placed(old, wait, session)
    BY <1>2, <2>1 DEF BaseInv, DownloadsInv
  <2>3. Placed(map, wait, session) /\ Less(old, i, map)
    BY <2>2, PlacedLess
  <2> QED
    BY <1>1, <1>3, <2>1, <2>3 DEF Less, Taken
<1>9. ManagerType(manager') /\ Later(k, manager') /\ CallsOk(calls', manager')
  BY <1>3, <1>4, <1>6, <1>7, StartSessions
<1>10. LaterState
  <2>1. PICK n : n = manager'
    OBVIOUS
  <2>2. Later(b, n)
    BY <1>6, <1>9, <2>1, LaterTrans
  <2> QED
    BY <1>1, <1>9, <2>1, <2>2 DEF LaterState
<1>11. /\ Placed(mDownloadsMap', mInitialDownloadsMap', downloadSession')
       /\ downloadSession' \in [Downloads -> DOMAIN k.sockets \cup {NoSession}]
       /\ \A d \in Downloads : downloadSession'[d] # NoSession => d = f \/ downloadSession[d] # NoSession
  <2>1. Later(manager, k)
    BY <1>1, <1>6
  <2> QED
    BY <1>3, <1>4, <1>6, <1>7, <1>8, <2>1, StartPlaces
<1>12. DownloadsInv'
  <2>1. DOMAIN k.sockets \subseteq Sessions'
    BY <1>9 DEF Later, Sessions
  <2> QED
    BY <1>3, <1>4, <1>11, <2>1 DEF BaseInv, DownloadsInv
<1> QED
  BY <1>3, <1>10, <1>12, DownloadStep DEF BaseInv

LEMMA UnheardQueryBase ==
  ASSUME BaseInv, NEW r \in calls, UnheardQuery(r)
  PROVE  BaseInv'
<1>1. /\ calls' = calls \ {r}
      /\ UNCHANGED <<manager, uploadVars, downloadVars, transfers, asked, offlines>>
  BY DEF UnheardQuery
<1>2. ManagerType(manager') /\ Later(manager, manager')
  BY <1>1, ManagerParts DEF BaseInv
<1>3. LaterState
  BY <1>1, <1>2, LaterFewer
<1> QED
  BY <1>1, <1>3, AsideIs

LEMMA UploadCancelFileBase ==
  ASSUME BaseInv, NEW f \in Downloads, UploadCancelFile(f)
  PROVE  BaseInv'
<1>1. /\ f \in mActiveDownloadsMap /\ mCancelDownloadsMap' = mCancelDownloadsMap \cup {f}
      /\ UNCHANGED <<manager, calls, uploadVars, mDownloadsMap, mInitialDownloadsMap, mActiveDownloadsMap,
                     downloadSession, bytes, finished, transfers, asked, offlines>>
  BY DEF UploadCancelFile, boundVars
<1>2. ManagerType(manager') /\ Later(manager, manager')
  BY <1>1, ManagerParts DEF BaseInv
<1>3. LaterState
  BY <1>1, <1>2, LaterFewer
<1>4. DownloadsInv'
  BY <1>1 DEF BaseInv, DownloadsInv, Sessions
<1> QED
  BY <1>1, <1>3, <1>4, DownloadStep DEF BaseInv

-----------------------------------------------------------------------------
(* The steps of sessions.                                                  *)

\* A query gets a new identifier.
LEMMA CallRenamed ==
  ASSUME NEW m, NEW c, CallsOk(c, m), NEW r \in c, NEW id \in Nat \ {0}, \A q \in c : q.id # id,
         NEW d, d = (c \ {r}) \cup {[r EXCEPT !.id = id]}
  PROVE  CallsOk(d, m)
<1>1. PICK q : q = [r EXCEPT !.id = id]
  OBVIOUS
<1>2. r \in [id : Ids, session : Nat, file : Files, from : Nat] /\ r.session \in DOMAIN m.sockets
  BY DEF CallsOk
<1>3. id \in Ids /\ id # Offline
  BY DEF Ids, Offline
<1>4. /\ q \in [id : Ids, session : Nat, file : Files, from : Nat]
      /\ q.session \in DOMAIN m.sockets /\ q.id = id
  BY <1>1, <1>2, <1>3
<1>5. d = (c \ {r}) \cup {q}
  BY <1>1
<1>6. IsFiniteSet(d)
  <2>1. PICK b \in SUBSET c : b = c \ {r}
    OBVIOUS
  <2>2. IsFiniteSet(b)
    BY FS_Subset DEF CallsOk
  <2>3. IsFiniteSet(b \cup {q})
    BY <2>2, FS_AddElement
  <2> QED
    BY <1>5, <2>1, <2>3
<1> QED
  BY <1>3, <1>4, <1>5, <1>6 DEF CallsOk

\* The download filed under the identifier o is filed under id instead.
Moved(map, o, id, f, moved) ==
  /\ DOMAIN moved = (DOMAIN map \ {o}) \cup {id} /\ moved[id] = f
  /\ \A i \in DOMAIN map : i # o /\ i # id => moved[i] = map[i]

LEMMA PlacedMoved ==
  ASSUME NEW map, NEW wait, NEW session, Placed(map, wait, session), NEW id \in Ids, NEW o \in DOMAIN map,
         NEW f, f = map[o], NEW moved, moved = MapInsert(MapRemove(map, o), id, f)
  PROVE  Placed(moved, wait, session) /\ Moved(map, o, id, f, moved)
<1>1. PICK less : less = MapRemove(map, o)
  OBVIOUS
<1>2. Placed(less, wait, session) /\ Less(map, o, less)
  BY <1>1, PlacedLess
<1>3. /\ f \in Downloads /\ session[f] # NoSession /\ \A i \in DOMAIN less : less[i] # f
      /\ \A s \in DOMAIN wait : f \notin wait[s]
  BY <1>2 DEF Less, Placed
<1>4. moved = MapInsert(less, id, f)
  BY <1>1
<1>5. Placed(moved, wait, session) /\ More(less, id, f, moved)
  BY <1>2, <1>3, <1>4, PlacedMore
<1> QED
  BY <1>2, <1>5 DEF Less, More, Moved

LEMMA UpdateMessageIdBase ==
  ASSUME BaseInv, NEW r \in calls, UpdateMessageId(r)
  PROVE  BaseInv'
<1>1. PICK part, id, moves :
        /\ part = Part(r.file, r.from) /\ id = NewIds(calls, {part})[part]
        /\ moves = ("rename" \in manager.sockets[r.session].slots /\ r.id \in DOMAIN mDownloadsMap)
  OBVIOUS
<1>2. /\ calls' = (calls \ {r}) \cup {[r EXCEPT !.id = id]}
      /\ mDownloadsMap' = IF moves THEN MapInsert(MapRemove(mDownloadsMap, r.id), id, mDownloadsMap[r.id])
                          ELSE mDownloadsMap
      /\ UNCHANGED <<manager, uploadVars, mInitialDownloadsMap, mActiveDownloadsMap, mCancelDownloadsMap,
                     downloadSession, bytes, finished, transfers, asked, offlines>>
  BY <1>1 DEF UpdateMessageId
<1>3. id \in Nat \ {0} /\ id \notin DOMAIN mDownloadsMap /\ \A q \in calls : q.id # id
  BY <1>1, NewIdIs DEF BaseInv
<1>4. LaterState
  <2>1. PICK m, c, d : m = manager /\ c = calls /\ d = calls'
    OBVIOUS
  <2>2. ManagerType(m) /\ CallsOk(c, m) /\ r \in c /\ d = (c \ {r}) \cup {[r EXCEPT !.id = id]} /\ \A q \in c : q.id # id
    BY <1>2, <1>3, <2>1 DEF BaseInv
  <2>3. CallsOk(d, m) /\ Later(m, m)
    BY <1>3, <2>2, CallRenamed, ManagerParts
  <2> QED
    BY <1>2, <2>1, <2>2, <2>3 DEF LaterState
<1>5. Placed(mDownloadsMap', mInitialDownloadsMap, downloadSession)
  <2>1. CASE moves
    <3>1. PICK map, wait, session, o, f, moved :
            /\ map = mDownloadsMap /\ wait = mInitialDownloadsMap /\ session = downloadSession
            /\ o = r.id /\ f = map[o] /\ moved = MapInsert(MapRemove(map, o), id, f)
      OBVIOUS
    <3>2. Placed(map, wait, session) /\ o \in DOMAIN map /\ id \in Ids
      <4>1. o \in DOMAIN map
        BY <1>1, <2>1, <3>1
      <4>2. id \in Ids
        BY <1>3 DEF Ids
      <4>3. Placed(map, wait, session)
        BY <3>1 DEF BaseInv, DownloadsInv
      <4> QED
        BY <4>1, <4>2, <4>3
    <3>3. Placed(moved, wait, session)
      BY <3>1, <3>2, PlacedMoved
    <3> QED
      BY <1>2, <2>1, <3>1, <3>3
  <2>2. CASE ~moves
    BY <1>2, <2>2 DEF BaseInv, DownloadsInv
  <2> QED
    BY <2>1, <2>2
<1>6. DownloadsInv'
  BY <1>2, <1>5 DEF BaseInv, DownloadsInv, Sessions
<1> QED
  BY <1>2, <1>4, <1>6, DownloadStep DEF BaseInv

LEMMA EnginesFinite == IsFiniteSet(Engines)
<1>1. IsFiniteSet(Uploads) /\ IsFiniteSet(Thumbs)
  BY Constants, FS_Subset
<1>2. PICK g, h, main, thumb :
        /\ g = [u \in Uploads |-> Engine(u, "Main")] /\ h = [u \in Thumbs |-> Engine(u, "Thumbnail")]
        /\ main = {g[u] : u \in Uploads} /\ thumb = {h[u] : u \in Thumbs}
  OBVIOUS
<1>3. IsFiniteSet(main) /\ IsFiniteSet(thumb)
  BY <1>1, <1>2, ImageFinite
<1>4. Engines = main \cup thumb
  BY <1>2 DEF Engines
<1> QED
  BY <1>3, <1>4, FS_Union

\* The parts that are sent when a session is ready.
PartsAreFor(ups, downs, parts) ==
  /\ parts \in SUBSET PartType /\ IsFiniteSet(parts)
  /\ \A p \in parts : \/ p.file \in ups /\ p.from \in 0..(Parts - 1)
                      \/ p.file \in downs /\ p.from = 0
  /\ \A f \in downs : Part(f, 0) \in parts

LEMMA ReadyParts ==
  ASSUME NEW ups \in SUBSET Engines, NEW downs \in SUBSET Downloads,
         NEW parts, parts = PartsFor(ups, downs)
  PROVE  PartsAreFor(ups, downs, parts)
<1>1. PICK up, down : up = UNION {PartsOf(e) : e \in ups} /\ down = {Part(f, 0) : f \in downs}
  OBVIOUS
<1>2. IsFiniteSet(ups) /\ IsFiniteSet(downs)
  BY EnginesFinite, Constants, FS_Subset
<1>3. IsFiniteSet(up)
  <2>1. PICK g, sets : g = [e \in ups |-> PartsOf(e)] /\ sets = {g[e] : e \in ups}
    OBVIOUS
  <2>2. IsFiniteSet(sets)
    BY <1>2, <2>1, ImageFinite
  <2>3. \A T \in sets : IsFiniteSet(T)
    BY <2>1, PartsAre
  <2>4. up = UNION sets
    BY <1>1, <2>1
  <2> QED
    BY <2>2, <2>3, <2>4, FS_UNION
<1>4. IsFiniteSet(down)
  <2>1. PICK g : g = [f \in downs |-> Part(f, 0)]
    OBVIOUS
  <2>2. IsFiniteSet({g[f] : f \in downs})
    BY <1>2, <2>1, ImageFinite
  <2>3. down = {g[f] : f \in downs}
    BY <1>1, <2>1
  <2> QED
    BY <2>2, <2>3
<1>5. ASSUME NEW p \in up
      PROVE  p \in PartType /\ p.file \in ups /\ p.from \in 0..(Parts - 1)
  <2>1. PICK e \in ups : p \in PartsOf(e)
    BY <1>1
  <2> QED
    BY <2>1, PartsAre
<1>6. ASSUME NEW p \in down
      PROVE  p \in PartType /\ p.file \in downs /\ p.from = 0
  <2>1. PICK f \in downs : p = Part(f, 0)
    BY <1>1
  <2>2. p \in PartType
    BY <2>1, OnePart DEF Files
  <2> QED
    BY <2>1, <2>2 DEF Part
<1>7. parts = up \cup down
  BY <1>1 DEF PartsFor
<1>8. IsFiniteSet(parts)
  BY <1>3, <1>4, <1>7, FS_Union
<1>9. \A f \in downs : Part(f, 0) \in parts
  BY <1>1, <1>7
<1>10. \A p \in parts : /\ p \in PartType
                        /\ \/ p.file \in ups /\ p.from \in 0..(Parts - 1)
                           \/ p.file \in downs /\ p.from = 0
  BY <1>5, <1>6, <1>7
<1> QED
  BY <1>8, <1>9, <1>10 DEF PartsAreFor

\* What a step does in which s gets ready: the uploads ups and the downloads
\* downs are those that waited for it, and heard of it.
Ready(s, ups, downs, parts, ids) ==
  /\ Replaces(ups, mInitialUploadsMap, s) /\ Replaces(downs, mInitialDownloadsMap, s)
  /\ parts = PartsFor(ups, downs) /\ ids = NewIds(calls, parts)
  /\ manager' = [manager EXCEPT !.sockets[s].state = "connected"]
  /\ calls' = SendQueries(calls, s, parts)
  /\ mDownloadsMap' = WithIds(mDownloadsMap, ids, downs)
  /\ \/ ups = {} /\ mInitialUploadsMap' = mInitialUploadsMap
     \/ ups = MapSet(mInitialUploadsMap, s) /\ mInitialUploadsMap' = MapRemove(mInitialUploadsMap, s)
  /\ \/ downs = {} /\ mInitialDownloadsMap' = mInitialDownloadsMap
     \/ downs = MapSet(mInitialDownloadsMap, s) /\ mInitialDownloadsMap' = MapRemove(mInitialDownloadsMap, s)
  /\ UNCHANGED <<mUploadsMap, uploadSession, uploadedParts, sentMedia, answered, mActiveDownloadsMap,
                 mCancelDownloadsMap, downloadSession, bytes, finished, transfers, asked, boundVars>>

LEMMA ReadyIs ==
  ASSUME NEW s, SessionReady(s)
  PROVE  \E ups, downs, parts, ids : Ready(s, ups, downs, parts, ids)
<1>1. PICK ups, downs, parts, ids :
        /\ ups = IF "upload" \in manager.sockets[s].slots THEN MapSet(mInitialUploadsMap, s) ELSE {}
        /\ downs = IF "download" \in manager.sockets[s].slots THEN MapSet(mInitialDownloadsMap, s) ELSE {}
        /\ parts = PartsFor(ups, downs) /\ ids = NewIds(calls, parts)
  OBVIOUS
<1>2. Replaces(ups, mInitialUploadsMap, s) /\ Replaces(downs, mInitialDownloadsMap, s)
  BY <1>1 DEF Replaces
<1>3. parts = PartsFor(ups, downs) /\ ids = NewIds(calls, parts)
  BY <1>1
<1>4. calls' = SendQueries(calls, s, parts) /\ mDownloadsMap' = WithIds(mDownloadsMap, ids, downs)
  BY <1>1 DEF SessionReady
<1>5. /\ manager' = [manager EXCEPT !.sockets[s].state = "connected"]
      /\ UNCHANGED <<mUploadsMap, uploadSession, uploadedParts, sentMedia, answered, mActiveDownloadsMap,
                     mCancelDownloadsMap, downloadSession, bytes, finished, transfers, asked, boundVars>>
  BY DEF SessionReady
<1>6. /\ \/ ups = {} /\ mInitialUploadsMap' = mInitialUploadsMap
         \/ ups = MapSet(mInitialUploadsMap, s) /\ mInitialUploadsMap' = MapRemove(mInitialUploadsMap, s)
      /\ \/ downs = {} /\ mInitialDownloadsMap' = mInitialDownloadsMap
         \/ downs = MapSet(mInitialDownloadsMap, s) /\ mInitialDownloadsMap' = MapRemove(mInitialDownloadsMap, s)
  BY <1>1 DEF SessionReady
<1> QED
  BY <1>2, <1>3, <1>4, <1>5, <1>6 DEF Ready

\* The socket of a session is in another state.
LEMMA StateSet ==
  ASSUME NEW m, ManagerType(m), NEW s \in DOMAIN m.sockets,
         NEW state \in {"unconnected", "connecting", "connected", "closing", "deleted"},
         NEW n, n = [m EXCEPT !.sockets[s].state = state]
  PROVE  \E y : SocketIs(m, s, y, n) /\ y.state = state
<1>1. PICK x, y : x = m.sockets[s] /\ y = [x EXCEPT !.state = state]
  OBVIOUS
<1>2. x \in SocketType
  BY <1>1, ManagerParts
<1>3. y \in SocketType /\ y.dc = x.dc /\ y.state = state
  BY <1>1, <1>2 DEF SocketType
<1>4. n = [m EXCEPT !.sockets[s] = y]
  BY <1>1, ManagerParts
<1> QED
  BY <1>1, <1>3, <1>4, SocketSet

LEMMA SessionReadyBase ==
  ASSUME BaseInv, NEW s \in Sessions, NEW ups, NEW downs, NEW parts, NEW ids, Ready(s, ups, downs, parts, ids)
  PROVE  /\ BaseInv' /\ ups \in SUBSET Engines /\ downs \in SUBSET Downloads
         /\ parts \in SUBSET PartType /\ Sent(calls, s, parts, ids, calls')
<1>1. PICK m, c, d, n : m = manager /\ c = calls /\ d = calls' /\ n = manager'
  OBVIOUS
<1>2. ManagerType(m) /\ CallsOk(c, m) /\ s \in DOMAIN m.sockets
  BY <1>1 DEF BaseInv, Sessions
<1>3. ups \in SUBSET Engines /\ downs \in SUBSET Downloads
  BY DEF Ready, Replaces, MapSet, BaseInv, UploadsInv, DownloadsInv, Placed
<1>4. parts = PartsFor(ups, downs) /\ ids = NewIds(c, parts) /\ d = SendQueries(c, s, parts)
  BY <1>1 DEF Ready
<1>5. parts \in SUBSET PartType /\ IsFiniteSet(parts) /\ \A f \in downs : Part(f, 0) \in parts
  <2>1. PartsAreFor(ups, downs, parts)
    BY <1>3, <1>4, ReadyParts
  <2> QED
    BY <2>1 DEF PartsAreFor
<1>6. Sent(c, s, parts, ids, d)
  BY <1>2, <1>4, <1>5, SentIs DEF BaseInv
<1>7. CallsOk(d, m)
  BY <1>2, <1>5, <1>6, CallsSent
<1>8. ManagerType(n) /\ Later(m, n)
  <2>1. n = [m EXCEPT !.sockets[s].state = "connected"]
    BY <1>1 DEF Ready
  <2>2. \E y : SocketIs(m, s, y, n)
    BY <1>2, <2>1, StateSet
  <2> QED
    BY <2>2 DEF SocketIs
<1>9. LaterState
  <2>1. d \in SUBSET d
    OBVIOUS
  <2>2. CallsOk(d, n)
    BY <1>7, <1>8, <2>1, CallsFewer
  <2> QED
    BY <1>1, <1>8, <2>2 DEF LaterState
<1>10. Placed(mDownloadsMap', mInitialDownloadsMap', downloadSession)
  <2>1. PICK map, wait, session, more, left :
          /\ map = mDownloadsMap /\ wait = mInitialDownloadsMap /\ session = downloadSession
          /\ more = mDownloadsMap' /\ left = mInitialDownloadsMap'
    OBVIOUS
  <2>2. ASSUME NEW f \in downs
        PROVE  ids[Part(f, 0)] \in Ids /\ ids[Part(f, 0)] \notin DOMAIN map
    BY <1>5, <1>6, <2>1 DEF Sent, Fresh, Ids
  <2>3. ASSUME NEW f \in downs, NEW g \in downs, ids[Part(f, 0)] = ids[Part(g, 0)]
        PROVE  f = g
    <3>1. Part(f, 0) = Part(g, 0)
      BY <1>5, <1>6, <2>3 DEF Sent, Fresh
    <3> QED
      BY <3>1 DEF Part
  <2>4. Placed(map, wait, session) /\ Replaces(downs, wait, s) /\ more = WithIds(map, ids, downs)
    BY <2>1 DEF Ready, BaseInv, DownloadsInv
  <2>5. /\ downs = {} => Placed(more, wait, session)
        /\ downs = MapSet(wait, s) => Placed(more, MapRemove(wait, s), session)
    BY <2>2, <2>3, <2>4, PlacedReady
  <2>6. \/ downs = {} /\ left = wait
        \/ downs = MapSet(wait, s) /\ left = MapRemove(wait, s)
    <3>1. \/ downs = {} /\ mInitialDownloadsMap' = mInitialDownloadsMap
          \/ downs = MapSet(mInitialDownloadsMap, s) /\ mInitialDownloadsMap' = MapRemove(mInitialDownloadsMap, s)
      BY Zenon DEF Ready
    <3> QED
      BY <2>1, <3>1
  <2> QED
    BY <2>1, <2>5, <2>6
<1>11. DownloadsInv'
  BY <1>9, <1>10 DEF Ready, BaseInv, DownloadsInv, LaterState, Later, Sessions
<1>12. UploadsInv'
  <2>1. mInitialUploadsMap' \in [DOMAIN mInitialUploadsMap' -> SUBSET Engines]
    BY DEF Ready, MapRemove, BaseInv, UploadsInv
  <2> QED
    BY <1>9, <2>1 DEF Ready, BaseInv, UploadsInv, LaterState, Later, Sessions
<1>13. TransfersInv' /\ offlines' \in Nat
  BY <1>9, TransfersAside DEF Ready, BaseInv, LaterState, boundVars
<1> QED
  BY <1>1, <1>3, <1>5, <1>6, <1>9, <1>11, <1>12, <1>13 DEF BaseInv, LaterState

LEMMA ConnectionLostBase ==
  ASSUME BaseInv, NEW s \in Sessions, ConnectionLost(s)
  PROVE  BaseInv'
<1>1. /\ manager' = [manager EXCEPT !.sockets[s].state = "unconnected"]
      /\ calls' \in SUBSET calls /\ UNCHANGED <<uploadVars, downloadVars, transfers, asked, offlines>>
  BY DEF ConnectionLost
<1>2. PICK m, n : m = manager /\ n = manager'
  OBVIOUS
<1>3. ManagerType(m) /\ s \in DOMAIN m.sockets
  BY <1>2 DEF BaseInv, Sessions
<1>4. ManagerType(n) /\ Later(m, n)
  <2>1. \E y : SocketIs(m, s, y, n)
    BY <1>1, <1>2, <1>3, StateSet
  <2> QED
    BY <2>1 DEF SocketIs
<1>5. LaterState
  BY <1>1, <1>2, <1>4, LaterFewer
<1> QED
  BY <1>1, <1>5, AsideIs

LEMMA ReconnectBase ==
  ASSUME BaseInv, NEW s \in Sessions, Reconnect(s)
  PROVE  BaseInv' /\ Reached(manager, manager')
<1>1. /\ manager' = ConnectToServer(manager, s)
      /\ UNCHANGED <<calls, uploadVars, downloadVars, transfers, asked, offlines>>
  BY DEF Reconnect, boundVars
<1>2. PICK m, n : m = manager /\ n = manager'
  OBVIOUS
<1>3. ManagerType(m) /\ s \in DOMAIN m.sockets
  BY <1>2 DEF BaseInv, Sessions
<1>4. Reached(m, n)
  BY <1>1, <1>2, <1>3, ConnectIs
<1>5. LaterState
  BY <1>1, <1>2, <1>4, LaterFewer DEF Reached
<1> QED
  BY <1>1, <1>2, <1>4, <1>5, AsideIs

LEMMA SessionClosedBase ==
  ASSUME BaseInv, NEW s \in Sessions, SessionClosed(s)
  PROVE  BaseInv'
<1>1. /\ manager' = CloseSession(manager, s, TRUE) /\ calls' \in SUBSET calls
      /\ UNCHANGED <<uploadVars, downloadVars, transfers, asked, offlines>>
  BY DEF SessionClosed, Living, boundVars
<1>2. PICK m, n : m = manager /\ n = manager'
  OBVIOUS
<1>3. ManagerType(m) /\ s \in DOMAIN m.sockets
  BY <1>2 DEF BaseInv, Sessions
<1>4. ManagerType(n) /\ Later(m, n)
  BY <1>1, <1>2, <1>3, CloseIs
<1>5. LaterState
  BY <1>1, <1>2, <1>4, LaterFewer
<1> QED
  BY <1>1, <1>5, AsideIs

\* The sessions of TransferAuth.
LEMMA TransferAuthBase ==
  ASSUME BaseInv, NEW dc \in TransferDcs, TransferAuth(dc)
  PROVE  /\ BaseInv'
         /\ \E a : /\ a = Acquire(manager, dc) /\ Acquired(manager, dc, a)
                   /\ a.session \in DOMAIN a.manager.sockets /\ Reached(a.manager, manager')
<1>1. PICK m, n, a, s, k : m = manager /\ n = manager' /\ a = Acquire(m, dc) /\ s = a.session /\ k = a.manager
  OBVIOUS
<1>2. /\ asked' = asked \cup {dc} /\ s # NoSession /\ n = ConnectToServer(k, s)
      /\ transfers' = MapInsert(transfers, dc, s)
      /\ UNCHANGED <<calls, uploadVars, downloadVars, offlines>>
  BY <1>1 DEF TransferAuth, boundVars
<1>3. ManagerType(m) /\ dc \in DCs
  BY <1>1, Constants DEF BaseInv
<1>4. Acquired(m, dc, a)
  BY <1>1, <1>3, AcquireIs
<1>5. ManagerType(k) /\ Later(m, k) /\ s \in DOMAIN k.sockets
  BY <1>1, <1>2, <1>4 DEF Acquired
<1>6. Reached(k, n)
  BY <1>2, <1>5, ConnectIs
<1>7. ManagerType(n) /\ Later(k, n) /\ s \in DOMAIN n.sockets
  BY <1>5, <1>6 DEF Reached
<1>8. Later(m, n)
  BY <1>5, <1>7, LaterTrans
<1>9. LaterState
  BY <1>1, <1>2, <1>7, <1>8, LaterFewer
<1>10. UploadsInv' /\ DownloadsInv'
  BY <1>2, <1>9, UploadsAside, DownloadsAside DEF BaseInv, LaterState
<1>11. TransfersInv'
  <2>1. /\ DOMAIN transfers' = DOMAIN transfers \cup {dc}
        /\ \A x \in DOMAIN transfers' : transfers'[x] = IF x = dc THEN s ELSE transfers[x]
        /\ transfers' = [x \in DOMAIN transfers' |-> transfers'[x]]
    BY <1>2 DEF MapInsert
  <2>2. s \in Sessions'
    BY <1>1, <1>7 DEF Sessions
  <2>3. \A x \in DOMAIN transfers : transfers[x] \in Sessions'
    BY <1>9 DEF BaseInv, TransfersInv, LaterState, Later, Sessions
  <2> QED
    BY <1>2, <2>1, <2>2, <2>3 DEF BaseInv, TransfersInv
<1> QED
  BY <1>1, <1>2, <1>4, <1>5, <1>6, <1>9, <1>10, <1>11 DEF BaseInv, LaterState

LEMMA TransferEndsBase ==
  ASSUME BaseInv, NEW dc \in TransferDcs, NEW atOnce \in BOOLEAN, TransferEnds(dc, atOnce)
  PROVE  BaseInv' /\ transfers[dc] \in Sessions /\ Freed(manager, transfers[dc], 1, manager')
<1>1. PICK s : s = transfers[dc]
  OBVIOUS
<1>2. /\ dc \in DOMAIN transfers /\ transfers' = MapRemove(transfers, dc)
      /\ manager' = Release(manager, s, atOnce) /\ calls' = Living(calls, manager')
      /\ UNCHANGED <<uploadVars, downloadVars, asked, offlines>>
  BY <1>1 DEF TransferEnds, boundVars
<1>3. s \in Sessions
  BY <1>1, <1>2 DEF BaseInv, TransfersInv
<1>4. LaterState /\ Freed(manager, s, 1, manager')
  <2>1. PICK c : c = calls /\ c \in SUBSET calls
    OBVIOUS
  <2>2. calls' = Living(c, manager')
    BY <1>2, <2>1
  <2> QED
    BY <1>2, <1>3, <2>1, <2>2, LaterReleased
<1>5. UploadsInv' /\ DownloadsInv'
  BY <1>2, <1>4, UploadsAside, DownloadsAside DEF BaseInv, LaterState
<1>6. TransfersInv'
  <2>1. transfers' = [x \in DOMAIN transfers \ {dc} |-> transfers[x]]
    BY <1>2 DEF MapRemove
  <2>2. \A x \in DOMAIN transfers : transfers[x] \in Sessions'
    BY <1>4 DEF BaseInv, TransfersInv, LaterState, Later, Sessions
  <2> QED
    BY <1>2, <2>1, <2>2 DEF BaseInv, TransfersInv
<1> QED
  BY <1>1, <1>2, <1>3, <1>4, <1>5, <1>6 DEF BaseInv, LaterState

LEMMA BaseInit ==
  ASSUME Init
  PROVE  BaseInv
<1>1. ManagerType(manager)
  BY DEF Init, InitManager, ManagerType, NoSession
<1>2. CallsOk(calls, manager)
  BY FS_EmptySet DEF Init, CallsOk
<1>3. UploadsInv
  BY DEF Init, UploadsInv, NoSession, EmptyMap
<1>4. Placed(mDownloadsMap, mInitialDownloadsMap, downloadSession)
  BY FS_EmptySet DEF Init, Placed, EmptyMap
<1>5. DownloadsInv
  BY <1>4 DEF Init, DownloadsInv, NoSession
<1>6. TransfersInv
  BY DEF Init, TransfersInv, EmptyMap
<1> QED
  BY <1>1, <1>2, <1>3, <1>5, <1>6 DEF Init, BaseInv

-----------------------------------------------------------------------------
(* The parts of the uploads that were answered: the invariant AnsweredInv,  *)
(* for the queries c, the answered parts st, the counts of parts up, the   *)
(* engines that wait in wait, the calls ask and the uploads sent.          *)

PartNos           == 0..(Parts - 1)
AnsweredOf(st, e) == {p \in PartNos : <<e, p>> \in st}
Waits(wait, e)    == \E s \in DOMAIN wait : e \in wait[s]
Quiet(c, st, e)   == (\A r \in c : r.file # e) /\ AnsweredOf(st, e) = {}

Tallies(c, st, up, wait, ask, sent) ==
  /\ st \subseteq Engines \X PartNos /\ up \in [Engines -> Nat]
  /\ \A e \in Engines : Cardinality(AnsweredOf(st, e)) = up[e]
  /\ \A r \in c : r.file \in Engines => r.from \in PartNos /\ <<r.file, r.from>> \notin st
  /\ \A r, q \in c : r.file \in Engines /\ r.file = q.file /\ r.from = q.from => r = q
  /\ \A s, t \in DOMAIN wait, e \in Engines : e \in wait[s] /\ e \in wait[t] => s = t
  /\ \A e \in Engines : Waits(wait, e) => Quiet(c, st, e)
  /\ \A e \in Engines : e.op \notin ask => Quiet(c, st, e) /\ ~Waits(wait, e)
  /\ \A u \in Thumbs : up[Engine(u, "Thumbnail")] < Parts =>
       Quiet(c, st, Engine(u, "Main")) /\ ~Waits(wait, Engine(u, "Main"))
  /\ \A u \in sent, e \in Engines : e.op = u => up[e] = Parts
AnsweredInv == Tallies(calls, answered, uploadedParts, mInitialUploadsMap, asked, sentMedia)

\* The number of parts answered.
LEMMA AnsweredOfIs ==
  ASSUME NEW st, NEW e
  PROVE  /\ IsFiniteSet(AnsweredOf(st, e)) /\ Cardinality(AnsweredOf(st, e)) \in Nat
         /\ Cardinality(AnsweredOf(st, e)) <= Parts
         /\ Cardinality(AnsweredOf(st, e)) = Parts => AnsweredOf(st, e) = PartNos
<1>1. PICK n \in Nat \ {0} : n = Parts
  BY Constants
<1>2. IsFiniteSet(PartNos) /\ Cardinality(PartNos) = n
  <2>1. 0 \in Int /\ n - 1 \in Int /\ ~(0 > n - 1) /\ (n - 1) - 0 + 1 = n
    OBVIOUS
  <2>2. IsFiniteSet(0..(n - 1)) /\ Cardinality(0..(n - 1)) = IF 0 > n - 1 THEN 0 ELSE (n - 1) - 0 + 1
    BY <2>1, FS_Interval
  <2> QED
    BY <1>1, <2>1, <2>2 DEF PartNos
<1>3. PICK T \in SUBSET PartNos : T = AnsweredOf(st, e)
  BY DEF AnsweredOf
<1>4. /\ IsFiniteSet(T) /\ Cardinality(T) <= Cardinality(PartNos)
      /\ Cardinality(PartNos) = Cardinality(T) => PartNos = T
  BY <1>2, FS_Subset
<1>5. Cardinality(T) \in Nat
  BY <1>4, FS_CardinalityType
<1> QED
  BY <1>1, <1>2, <1>3, <1>4, <1>5

\* Queries of uploads go, and calls come.
LEMMA StoresFewer ==
  ASSUME NEW c, NEW st, NEW up, NEW wait, NEW ask, NEW sent, Tallies(c, st, up, wait, ask, sent),
         NEW d, \A r \in d : r.file \in Engines => r \in c, NEW more, ask \subseteq more
  PROVE  Tallies(d, st, up, wait, more, sent)
<1>1. \A e \in Engines : Quiet(c, st, e) => Quiet(d, st, e)
  BY DEF Quiet
<1>2. \A u \in Thumbs : Engine(u, "Main") \in Engines
  BY Constants DEF Engines
<1> QED
  BY <1>1, <1>2 DEF Tallies

\* The part of one query is answered.
LEMMA StoresSaved ==
  ASSUME NEW c, NEW st, NEW up, NEW wait, NEW ask, NEW sent, Tallies(c, st, up, wait, ask, sent),
         NEW r \in c, r.file \in Engines, NEW d, d = c \ {r}, NEW st2, st2 = st \cup {<<r.file, r.from>>},
         NEW up2, up2 = [up EXCEPT ![r.file] = @ + 1]
  PROVE  Tallies(d, st2, up2, wait, ask, sent)
<1>1. PICK e \in Engines, p \in PartNos : e = r.file /\ p = r.from /\ <<e, p>> \notin st
  BY DEF Tallies
<1>2. st2 = st \cup {<<e, p>>} /\ st2 \subseteq Engines \X PartNos
  BY <1>1 DEF Tallies
<1>3. /\ up2 \in [Engines -> Nat] /\ up2[e] = up[e] + 1 /\ up[e] \in Nat
      /\ \A x \in Engines : x # e => up2[x] = up[x]
  BY <1>1 DEF Tallies
<1>4. \A x \in Engines : x # e => AnsweredOf(st2, x) = AnsweredOf(st, x)
  BY <1>1, <1>2 DEF AnsweredOf
<1>5. Cardinality(AnsweredOf(st2, e)) = up2[e]
  <2>1. PICK T : T = AnsweredOf(st, e)
    OBVIOUS
  <2>2. AnsweredOf(st2, e) = T \cup {p} /\ p \notin T
    BY <1>1, <1>2, <2>1 DEF AnsweredOf
  <2>3. IsFiniteSet(T) /\ Cardinality(T) = up[e]
    BY <2>1, AnsweredOfIs DEF Tallies
  <2>4. Cardinality(T \cup {p}) = Cardinality(T) + 1
    BY <2>2, <2>3, FS_AddElement
  <2> QED
    BY <1>3, <2>2, <2>3, <2>4
<1>6. ~Quiet(c, st, e)
  BY <1>1 DEF Quiet
<1>7. \A x \in Engines : Quiet(c, st, x) => Quiet(d, st2, x) /\ x # e
  BY <1>4, <1>6 DEF Quiet
<1>8. \A q \in d : q.file \in Engines => q.from \in PartNos /\ <<q.file, q.from>> \notin st2
  <2>1. ASSUME NEW q \in d, q.file \in Engines
        PROVE  q.from \in PartNos /\ <<q.file, q.from>> \notin st2
    <3>1. q \in c /\ q # r
      OBVIOUS
    <3>2. q.from \in PartNos /\ <<q.file, q.from>> \notin st /\ ~(q.file = e /\ q.from = p)
      BY <1>1, <2>1, <3>1 DEF Tallies
    <3> QED
      BY <1>2, <3>2
  <2> QED
    BY <2>1
<1>9. \A x \in Engines : Cardinality(AnsweredOf(st2, x)) = up2[x]
  BY <1>3, <1>4, <1>5 DEF Tallies
<1>10. ASSUME NEW u \in Thumbs, up2[Engine(u, "Thumbnail")] < Parts
       PROVE  Quiet(d, st2, Engine(u, "Main")) /\ ~Waits(wait, Engine(u, "Main"))
  <2>1. Engine(u, "Thumbnail") \in Engines /\ Engine(u, "Main") \in Engines
    BY Constants DEF Engines
  <2>2. PICK x, y, n : x = up[Engine(u, "Thumbnail")] /\ y = up2[Engine(u, "Thumbnail")] /\ n = Parts
    OBVIOUS
  <2>3. x \in Nat /\ n \in Nat /\ (y = x \/ y = x + 1) /\ y < n
    BY <1>3, <1>10, <2>1, <2>2, Constants DEF Tallies
  <2>4. x < n
    BY <2>3
  <2>5. up[Engine(u, "Thumbnail")] < Parts
    BY <2>2, <2>4
  <2> QED
    BY <1>7, <2>1, <2>5 DEF Tallies
<1>11. ASSUME NEW u \in sent, NEW x \in Engines, x.op = u
       PROVE  up2[x] = Parts
  <2>1. up[x] = Parts
    BY <1>11 DEF Tallies
  <2>2. x # e
    <3>1. ASSUME x = e
          PROVE  FALSE
      <4>1. AnsweredOf(st, e) = PartNos
        BY <2>1, <3>1, AnsweredOfIs DEF Tallies
      <4> QED
        BY <1>1, <4>1 DEF AnsweredOf
    <3> QED
      BY <3>1
  <2> QED
    BY <1>3, <2>1, <2>2
<1>12. \A x, y \in d : x.file \in Engines /\ x.file = y.file /\ x.from = y.from => x = y
  BY DEF Tallies
<1>13. /\ \A x \in Engines : Waits(wait, x) => Quiet(d, st2, x)
       /\ \A x \in Engines : x.op \notin ask => Quiet(d, st2, x) /\ ~Waits(wait, x)
       /\ \A s, t \in DOMAIN wait, x \in Engines : x \in wait[s] /\ x \in wait[t] => s = t
  BY <1>7 DEF Tallies
<1> QED
  BY <1>2, <1>3, <1>8, <1>9, <1>10, <1>11, <1>12, <1>13 DEF Tallies

\* Queries of engines that were quiet are sent.
LEMMA StoresSent ==
  ASSUME NEW c, NEW st, NEW up, NEW wait, NEW ask, NEW sent, Tallies(c, st, up, wait, ask, sent),
         NEW E \in SUBSET Engines, NEW new, NEW more, ask \subseteq more, NEW left,
         \A r \in new : r.file \in E /\ r.from \in PartNos,
         \A r, q \in new : r.file = q.file /\ r.from = q.from => r = q,
         \A e \in E : /\ Quiet(c, st, e) /\ e.op \in more /\ ~Waits(left, e)
                      /\ \A u \in Thumbs : e = Engine(u, "Main") => ~(up[Engine(u, "Thumbnail")] < Parts),
         DOMAIN left \subseteq DOMAIN wait, \A s \in DOMAIN left : left[s] = wait[s]
  PROVE  Tallies(c \cup new, st, up, left, more, sent)
<1>1. PICK d : d = c \cup new
  OBVIOUS
<1>2. \A e \in Engines : Waits(left, e) => Waits(wait, e)
  BY DEF Waits
<1>3. \A e \in Engines \ E : Quiet(c, st, e) => Quiet(d, st, e)
  BY <1>1 DEF Quiet
<1>4. \A r \in d : r.file \in Engines => r.from \in PartNos /\ <<r.file, r.from>> \notin st
  <2>1. ASSUME NEW r \in new
        PROVE  r.from \in PartNos /\ <<r.file, r.from>> \notin st
    BY DEF Quiet, AnsweredOf
  <2> QED
    BY <1>1, <2>1 DEF Tallies
<1>5. ASSUME NEW r \in d, NEW q \in d, r.file \in Engines, r.file = q.file, r.from = q.from
      PROVE  r = q
  <2>1. CASE r \in c /\ q \in c
    BY <1>5, <2>1 DEF Tallies
  <2>2. CASE r \in new /\ q \in new
    BY <1>5, <2>2
  <2>3. CASE (r \in c /\ q \in new) \/ (r \in new /\ q \in c)
    BY <1>5, <2>3 DEF Quiet
  <2> QED
    BY <1>1, <2>1, <2>2, <2>3
<1>6. \A u \in Thumbs : Engine(u, "Main") \in Engines
  BY Constants DEF Engines
<1>7. /\ \A e \in Engines : Waits(left, e) => Quiet(d, st, e)
      /\ \A e \in Engines : e.op \notin more => Quiet(d, st, e) /\ ~Waits(left, e)
  BY <1>2, <1>3 DEF Tallies
<1>8. \A u \in Thumbs : up[Engine(u, "Thumbnail")] < Parts =>
        Quiet(d, st, Engine(u, "Main")) /\ ~Waits(left, Engine(u, "Main"))
  BY <1>2, <1>3, <1>6 DEF Tallies
<1>9. \A s, t \in DOMAIN left, e \in Engines : e \in left[s] /\ e \in left[t] => s = t
  BY DEF Tallies
<1>10. Tallies(d, st, up, left, more, sent)
  BY <1>4, <1>5, <1>7, <1>8, <1>9 DEF Tallies
<1> QED
  BY <1>1, <1>10

\* The first engine of a new upload waits for the session s.
LEMMA StoresWaits ==
  ASSUME NEW c, NEW st, NEW up, NEW wait, NEW ask, NEW sent, Tallies(c, st, up, wait, ask, sent),
         NEW u \in Uploads, u \notin ask, NEW s,
         NEW more, more = ask \cup {u}, NEW w, w = MapInsert(wait, s, MapSet(wait, s) \cup {FirstEngine(u)})
  PROVE  Tallies(c, st, up, w, more, sent)
<1>1. PICK e \in Engines : e = FirstEngine(u) /\ e.op = u
  BY FirstEngineIs
<1>2. Quiet(c, st, e) /\ ~Waits(wait, e)
  BY <1>1 DEF Tallies
<1>3. /\ DOMAIN w = DOMAIN wait \cup {s}
      /\ \A t \in DOMAIN w : w[t] = IF t = s THEN MapSet(wait, s) \cup {e} ELSE wait[t]
  BY <1>1 DEF MapInsert
<1>4. \A x : Waits(w, x) => Waits(wait, x) \/ x = e
  BY <1>3 DEF Waits, MapSet
<1>5. ASSUME NEW t \in DOMAIN w, NEW x, x \in w[t]
      PROVE  (x = e /\ t = s) \/ (x # e /\ t \in DOMAIN wait /\ x \in wait[t])
  <2>1. \/ x = e /\ t = s
        \/ t \in DOMAIN wait /\ x \in wait[t]
    BY <1>3, <1>5 DEF MapSet
  <2> QED
    BY <1>2, <2>1 DEF Waits
<1>6. ASSUME NEW t \in DOMAIN w, NEW v \in DOMAIN w, NEW x \in Engines, x \in w[t], x \in w[v]
      PROVE  t = v
  <2>1. \/ x = e /\ t = s
        \/ x # e /\ t \in DOMAIN wait /\ x \in wait[t]
    BY <1>5, <1>6
  <2>2. \/ x = e /\ v = s
        \/ x # e /\ v \in DOMAIN wait /\ x \in wait[v]
    BY <1>5, <1>6
  <2> QED
    BY <2>1, <2>2 DEF Tallies
<1>7. \A x \in Thumbs : e # Engine(x, "Main")
  BY <1>1 DEF FirstEngine, Engine
<1>8. \A x \in Thumbs : Engine(x, "Main") \in Engines
  BY Constants DEF Engines
<1> QED
  BY <1>1, <1>2, <1>4, <1>6, <1>7, <1>8 DEF Tallies

\* A query gets another identifier.
LEMMA StoresRenamed ==
  ASSUME NEW c, NEW st, NEW up, NEW wait, NEW ask, NEW sent, Tallies(c, st, up, wait, ask, sent),
         NEW r \in c, NEW q, q.file = r.file, q.from = r.from, NEW d, d = (c \ {r}) \cup {q}
  PROVE  Tallies(d, st, up, wait, ask, sent)
<1>1. \A e \in Engines : Quiet(c, st, e) => Quiet(d, st, e)
  BY DEF Quiet
<1>2. \A u \in Thumbs : Engine(u, "Main") \in Engines
  BY Constants DEF Engines
<1>3. \A x \in d : x.file \in Engines => x.from \in PartNos /\ <<x.file, x.from>> \notin st
  BY DEF Tallies
<1>4. ASSUME NEW x \in d, NEW y \in d, x.file \in Engines, x.file = y.file, x.from = y.from
      PROVE  x = y
  BY <1>4 DEF Tallies
<1> QED
  BY <1>1, <1>2, <1>3, <1>4 DEF Tallies

\* An upload is finished when its engines are.
LEMMA StoresFinished ==
  ASSUME NEW c, NEW st, NEW up, NEW wait, NEW ask, NEW sent, Tallies(c, st, up, wait, ask, sent),
         NEW u, \A e \in Engines : e.op = u => up[e] = Parts
  PROVE  Tallies(c, st, up, wait, ask, sent \cup {u})
BY DEF Tallies

\* The parts of an upload are sent.
LEMMA StoresParts ==
  ASSUME BaseInv, NEW m, NEW c, CallsOk(c, m), NEW s, NEW e \in Engines, NEW d, d = SendParts(c, m, s, e),
         NEW st, NEW up, NEW wait, NEW ask, NEW sent, Tallies(c, st, up, wait, ask, sent),
         NEW more, ask \subseteq more, e.op \in more, Quiet(c, st, e), ~Waits(wait, e),
         \A u \in Thumbs : e = Engine(u, "Main") => ~(up[Engine(u, "Thumbnail")] < Parts)
  PROVE  Tallies(d, st, up, wait, more, sent)
<1>1. PICK E \in SUBSET Engines : E = {e}
  OBVIOUS
<1>2. /\ \A x \in E : /\ x.op \in more /\ ~Waits(wait, x)
                      /\ \A u \in Thumbs : x = Engine(u, "Main") => ~(up[Engine(u, "Thumbnail")] < Parts)
      /\ DOMAIN wait \subseteq DOMAIN wait /\ \A t \in DOMAIN wait : wait[t] = wait[t]
  BY <1>1
<1>3. CASE State(m, s) = "connected"
  <2>1. PICK parts, ids, new :
          /\ parts = PartsOf(e) /\ ids = NewIds(c, parts)
          /\ new = {Call(ids[p], s, p.file, p.from) : p \in parts}
    OBVIOUS
  <2>2. d = c \cup new
    BY <1>3, <2>1 DEF SendParts, SendQueries
  <2>3. ASSUME NEW r \in new
        PROVE  \E i \in PartNos : r = Call(ids[Part(e, i)], s, e, i)
    BY <2>1 DEF PartsOf, Part, PartNos
  <2>4. \A r \in new : r.file \in E /\ r.from \in PartNos
    BY <1>1, <2>3 DEF Call
  <2>5. \A r, q \in new : r.file = q.file /\ r.from = q.from => r = q
    BY <2>3 DEF Call
  <2>6. \A x \in E : Quiet(c, st, x)
    BY <1>1
  <2>7. Tallies(c \cup new, st, up, wait, more, sent)
    BY <1>2, <2>4, <2>5, <2>6, StoresSent
  <2> QED
    BY <2>2, <2>7
<1>4. CASE State(m, s) # "connected"
  <2>1. PICK q, b, new :
          /\ q = Call(Offline, s, e, Parts - 1) /\ new = {q}
          /\ b = {r \in c : r.id # Offline \/ r.session # s}
    OBVIOUS
  <2>2. d = b \cup new
    BY <1>4, <2>1 DEF SendParts, SendOffline, Part
  <2>3. Tallies(b, st, up, wait, ask, sent) /\ \A x \in E : Quiet(b, st, x)
    <3>1. \A r \in b : r.file \in Engines => r \in c
      BY <2>1
    <3>2. Tallies(b, st, up, wait, ask, sent)
      BY <3>1, StoresFewer
    <3> QED
      BY <1>1, <2>1, <3>2 DEF Quiet
  <2>4. q.file \in E /\ q.from \in PartNos
    BY <1>1, <2>1, Constants DEF Call, PartNos
  <2>5. /\ \A r \in new : r.file \in E /\ r.from \in PartNos
        /\ \A r, x \in new : r.file = x.file /\ r.from = x.from => r = x
    BY <2>1, <2>4
  <2>6. Tallies(b \cup new, st, up, wait, more, sent)
    BY <1>2, <2>3, <2>5, StoresSent
  <2> QED
    BY <2>2, <2>6
<1> QED
  BY <1>3, <1>4

LEMMA AnsweredAside ==
  ASSUME AnsweredInv, UNCHANGED uploadVars, asked \subseteq asked',
         \A r \in calls' : r.file \in Engines => r \in calls
  PROVE  AnsweredInv'
<1>1. PICK c, d, st, up, wait, ask, more, sent :
        /\ c = calls /\ d = calls' /\ st = answered /\ up = uploadedParts /\ wait = mInitialUploadsMap
        /\ ask = asked /\ more = asked' /\ sent = sentMedia
  OBVIOUS
<1>2. Tallies(c, st, up, wait, ask, sent)
  BY <1>1 DEF AnsweredInv
<1>3. (\A r \in d : r.file \in Engines => r \in c) /\ ask \subseteq more
  BY <1>1
<1>4. Tallies(d, st, up, wait, more, sent)
  BY <1>2, <1>3, StoresFewer
<1> QED
  BY <1>1, <1>4 DEF AnsweredInv, uploadVars

LEMMA UploadSendFileAnswered ==
  ASSUME BaseInv, AnsweredInv, NEW u \in Uploads, UploadSendFile(u)
  PROVE  AnsweredInv'
<1>1. PICK c, d, st, up, wait, ask, more, sent :
        /\ c = calls /\ d = calls' /\ st = answered /\ up = uploadedParts /\ wait = mInitialUploadsMap
        /\ ask = asked /\ more = asked' /\ sent = sentMedia
  OBVIOUS
<1>2. Tallies(c, st, up, wait, ask, sent) /\ u \notin ask /\ more = ask \cup {u}
  BY <1>1 DEF AnsweredInv, UploadSendFile
<1>3. PICK a, s : a = Acquire(manager, WorkingDc) /\ s = a.session
  OBVIOUS
<1>4. CASE s = NoSession
  <2>1. UNCHANGED <<uploadVars, calls>>
    BY <1>3, <1>4 DEF UploadSendFile
  <2> QED
    BY <1>1, <1>2, <2>1, AnsweredAside
<1>5. CASE s # NoSession /\ State(a.manager, s) = "connected"
  <2>1. PICK m, k, e : m = manager /\ k = a.manager /\ e = FirstEngine(u)
    OBVIOUS
  <2>2. d = SendParts(c, k, s, e)
    BY <1>1, <1>3, <1>5, <2>1 DEF UploadSendFile
  <2>3. UNCHANGED <<uploadedParts, sentMedia, answered, mInitialUploadsMap>>
    BY <1>3, <1>5 DEF UploadSendFile
  <2>4. CallsOk(c, k)
    <3>1. ManagerType(m) /\ CallsOk(c, m) /\ WorkingDc \in DCs /\ a = Acquire(m, WorkingDc)
      BY <1>1, <1>3, <2>1, Constants DEF BaseInv
    <3>2. Acquired(m, WorkingDc, a)
      BY <3>1, AcquireIs
    <3>3. Later(m, k) /\ c \in SUBSET c
      BY <2>1, <3>2 DEF Acquired
    <3> QED
      BY <3>1, <3>3, CallsFewer
  <2>5. e \in Engines /\ e.op = u
    BY <2>1, FirstEngineIs
  <2>6. Quiet(c, st, e) /\ ~Waits(wait, e)
    BY <1>2, <2>5 DEF Tallies
  <2>7. \A x \in Thumbs : e # Engine(x, "Main")
    BY <2>1 DEF FirstEngine, Engine
  <2>8. ask \subseteq more /\ e.op \in more
    BY <1>2, <2>5
  <2>9. Tallies(d, st, up, wait, more, sent)
    BY <1>2, <2>2, <2>4, <2>5, <2>6, <2>7, <2>8, StoresParts
  <2> QED
    BY <1>1, <2>3, <2>9 DEF AnsweredInv
<1>6. CASE s # NoSession /\ State(a.manager, s) # "connected"
  <2>1. PICK w : w = MapInsert(wait, s, MapSet(wait, s) \cup {FirstEngine(u)})
    OBVIOUS
  <2>2. mInitialUploadsMap' = w
    BY <1>1, <1>3, <1>6, <2>1 DEF UploadSendFile
  <2>3. UNCHANGED <<uploadedParts, sentMedia, answered, calls>>
    BY <1>3, <1>6 DEF UploadSendFile
  <2>4. Tallies(c, st, up, w, more, sent)
    BY <1>2, <2>1, StoresWaits
  <2> QED
    BY <1>1, <2>2, <2>3, <2>4 DEF AnsweredInv
<1> QED
  BY <1>4, <1>5, <1>6

\* What every answer to an upload does.
LEMMA SaveFilePartResultAnswered ==
  ASSUME BaseInv, AnsweredInv, NEW r \in calls, SaveFilePartResult(r)
  PROVE  /\ Tallies(calls \ {r}, answered', uploadedParts', mInitialUploadsMap, asked, sentMedia)
         /\ r.file \in Engines /\ uploadedParts'[r.file] = uploadedParts[r.file] + 1
         /\ r.file \in mUploadsMap /\ ~Quiet(calls, answered, r.file)
<1>1. PICK c, b, st, st2, up, up2, wait, ask, sent :
        /\ c = calls /\ b = calls \ {r} /\ st = answered /\ st2 = answered' /\ up = uploadedParts
        /\ up2 = uploadedParts' /\ wait = mInitialUploadsMap /\ ask = asked /\ sent = sentMedia
  OBVIOUS
<1>2. r.file \in Engines /\ r.file \in mUploadsMap
  BY DEF SaveFilePartResult, BaseInv, UploadsInv
<1>3. /\ Tallies(c, st, up, wait, ask, sent) /\ r \in c /\ b = c \ {r}
      /\ st2 = st \cup {<<r.file, r.from>>} /\ up2 = [up EXCEPT ![r.file] = @ + 1]
  BY <1>1 DEF AnsweredInv, SaveFilePartResult
<1>4. Tallies(b, st2, up2, wait, ask, sent)
  BY <1>2, <1>3, StoresSaved
<1>5. up2[r.file] = up[r.file] + 1
  BY <1>2, <1>3 DEF Tallies
<1>6. ~Quiet(calls, answered, r.file)
  BY DEF Quiet
<1> QED
  BY <1>1, <1>2, <1>4, <1>5, <1>6

LEMMA PartResultAnswered ==
  ASSUME BaseInv, AnsweredInv, NEW r \in calls, PartResult(r)
  PROVE  AnsweredInv'
<1>1. /\ SaveFilePartResult(r) /\ calls' = calls \ {r}
      /\ UNCHANGED <<mInitialUploadsMap, sentMedia, asked>>
  BY DEF PartResult
<1> QED
  BY <1>1, SaveFilePartResultAnswered DEF AnsweredInv

LEMMA ThumbnailResultAnswered ==
  ASSUME BaseInv, AnsweredInv, NEW r \in calls, ThumbnailResult(r)
  PROVE  AnsweredInv'
<1>1. PICK s, c, d, e, t, m :
        /\ s = uploadSession[r.file.op] /\ c = calls \ {r} /\ e = Engine(r.file.op, "Main") /\ t = r.file
        /\ m = manager /\ d = calls'
  OBVIOUS
<1>2. PICK b, st, st2, up2, wait, ask, sent :
        /\ b = calls /\ st = answered /\ st2 = answered'
        /\ up2 = uploadedParts' /\ wait = mInitialUploadsMap /\ ask = asked /\ sent = sentMedia
  OBVIOUS
<1>3. /\ SaveFilePartResult(r) /\ IsComplete(t) /\ t.type = "Thumbnail" /\ d = SendParts(c, m, s, e)
      /\ UNCHANGED <<mInitialUploadsMap, sentMedia, asked>>
  BY <1>1 DEF ThumbnailResult
<1>4. /\ Tallies(c, st2, up2, wait, ask, sent) /\ t \in Engines /\ up2[t] = uploadedParts[t] + 1
      /\ t \in mUploadsMap
  BY <1>1, <1>2, <1>3, SaveFilePartResultAnswered
<1>5. up2[t] = Parts /\ Parts \in Nat
  BY <1>3, <1>4, Constants DEF IsComplete
<1>6. e \in Engines /\ e.op = t.op /\ t.op \in Thumbs /\ t = Engine(t.op, "Thumbnail") /\ e # t
  BY <1>1, <1>3, <1>4, EngineIs DEF Engine
<1>7. \A u \in Thumbs : e = Engine(u, "Main") => ~(up2[Engine(u, "Thumbnail")] < Parts)
  <2>1. ASSUME NEW u \in Thumbs, e = Engine(u, "Main")
        PROVE  u = t.op
    BY <1>1, <2>1 DEF Engine
  <2> QED
    BY <1>5, <1>6, <2>1
<1>8. Quiet(c, st2, e) /\ ~Waits(wait, e)
  <2>1. uploadedParts[t] < Parts
    <3>1. uploadedParts[t] \in Nat
      BY <1>4 DEF BaseInv, UploadsInv
    <3> QED
      BY <1>3, <1>5, <3>1 DEF IsComplete
  <2>2. Quiet(b, st, e) /\ ~Waits(wait, e)
    BY <1>1, <1>2, <1>6, <2>1 DEF AnsweredInv, Tallies
  <2>3. st2 = st \cup {<<t, r.from>>}
    BY <1>1, <1>2, <1>3 DEF SaveFilePartResult
  <2> QED
    BY <1>1, <1>2, <1>6, <2>2, <2>3 DEF Quiet, AnsweredOf
<1>9. CallsOk(c, m)
  <2>1. ManagerType(m) /\ CallsOk(b, m) /\ c \in SUBSET b
    BY <1>1, <1>2 DEF BaseInv
  <2> QED
    BY <2>1, CallsFewer, ManagerParts
<1>10. ask \subseteq ask /\ e.op \in ask
  BY <1>2, <1>4, <1>6 DEF BaseInv, UploadsInv
<1>11. Tallies(d, st2, up2, wait, ask, sent)
  BY <1>3, <1>4, <1>6, <1>7, <1>8, <1>9, <1>10, StoresParts
<1> QED
  BY <1>1, <1>2, <1>3, <1>11 DEF AnsweredInv

LEMMA MainResultAnswered ==
  ASSUME BaseInv, AnsweredInv, NEW r \in calls, NEW atOnce \in BOOLEAN, MainResult(r, atOnce)
  PROVE  AnsweredInv'
<1>1. PICK u, t, b, c, d, st2, up2, wait, ask, sent :
        /\ u = r.file.op /\ t = r.file /\ b = calls /\ c = calls \ {r} /\ d = calls' /\ st2 = answered'
        /\ up2 = uploadedParts' /\ wait = mInitialUploadsMap /\ ask = asked /\ sent = sentMedia
  OBVIOUS
<1>2. /\ SaveFilePartResult(r) /\ IsComplete(t) /\ t.type = "Main" /\ d \subseteq c
      /\ sentMedia' = sent \cup {u} /\ UNCHANGED <<mInitialUploadsMap, asked>>
  BY <1>1 DEF MainResult, Living
<1>3. /\ Tallies(c, st2, up2, wait, ask, sent) /\ t \in Engines /\ up2[t] = uploadedParts[t] + 1
      /\ ~Quiet(calls, answered, t)
  BY <1>1, <1>2, SaveFilePartResultAnswered
<1>4. t = Engine(u, "Main") /\ u \in Uploads
  BY <1>1, <1>2, <1>3, EngineIs
<1>5. ASSUME NEW e \in Engines, e.op = u
      PROVE  up2[e] = Parts
  <2>1. CASE e.type = "Main"
    <3>1. e = t
      BY <1>4, <1>5, <2>1, EngineIs
    <3> QED
      BY <1>2, <1>3, <3>1 DEF IsComplete
  <2>2. CASE e.type = "Thumbnail"
    <3>1. e = Engine(u, "Thumbnail") /\ u \in Thumbs /\ e # t
      BY <1>2, <1>5, <2>2, EngineIs
    <3>2. ~(uploadedParts[e] < Parts) /\ uploadedParts[e] \in Nat
      BY <1>3, <1>4, <3>1 DEF AnsweredInv, Tallies
    <3>3. uploadedParts[e] <= Parts
      BY AnsweredOfIs DEF AnsweredInv, Tallies
    <3>4. up2[e] = uploadedParts[e]
      BY <1>1, <1>2, <3>1 DEF SaveFilePartResult, AnsweredInv, Tallies
    <3>5. PICK x, n : x = uploadedParts[e] /\ n = Parts /\ n \in Nat
      BY Constants
    <3>6. x = n
      BY <3>2, <3>3, <3>5
    <3> QED
      BY <3>4, <3>5, <3>6
  <2> QED
    BY <2>1, <2>2, EngineIs
<1>6. Tallies(c, st2, up2, wait, ask, sent \cup {u})
  BY <1>3, <1>5, StoresFinished
<1>7. PICK more : more = sent \cup {u}
  OBVIOUS
<1>8. Tallies(d, st2, up2, wait, ask, more)
  <2>1. (\A x \in d : x.file \in Engines => x \in c) /\ ask \subseteq ask
    BY <1>2
  <2>2. Tallies(c, st2, up2, wait, ask, more)
    BY <1>6, <1>7
  <2> QED
    BY <2>1, <2>2, StoresFewer
<1> QED
  BY <1>1, <1>2, <1>7, <1>8 DEF AnsweredInv

\* A query of a download is none of an engine.
LEMMA SentByDownload ==
  ASSUME NEW f \in Downloads, NEW from, NEW c, NEW s, NEW p, p = Part(f, from),
         NEW d, d = SendQueries(c, s, {p}) \/ d = SendOffline(c, s, p)
  PROVE  \A r \in d : r.file \in Engines => r \in c
<1>1. f \notin Engines /\ p.file = f
  BY Constants DEF Part
<1>2. \A id : Call(id, s, p.file, p.from).file = f
  BY <1>1 DEF Call
<1> QED
  BY <1>1, <1>2 DEF SendQueries, SendOffline

LEMMA StartAnswered ==
  ASSUME NEW f \in Downloads, NEW m, NEW s, NEW map, NEW c, Start(f, m, s, map, c)
  PROVE  \A r \in calls' : r.file \in Engines => r \in c
<1>1. PICK p, d : p = Part(f, 0) /\ d = calls'
  OBVIOUS
<1>2. d = SendQueries(c, s, {p}) \/ d = c
  BY <1>1 DEF Start
<1>3. \A r \in d : r.file \in Engines => r \in c
  BY <1>1, <1>2, SentByDownload
<1> QED
  BY <1>1, <1>3

LEMMA UploadGetFileAnswered ==
  ASSUME AnsweredInv, NEW f \in Downloads, UploadGetFile(f)
  PROVE  AnsweredInv'
<1>1. UNCHANGED uploadVars /\ asked \subseteq asked'
  BY DEF UploadGetFile
<1>2. PICK a, s : a = Acquire(manager, DcNum[f]) /\ s = a.session
  OBVIOUS
<1>3. CASE s = NoSession
  <2>1. calls' = calls
    BY <1>2, <1>3 DEF UploadGetFile
  <2> QED
    BY <1>1, <2>1, AnsweredAside
<1>4. CASE s # NoSession
  <2>1. Start(f, ConnectSlot(a.manager, s, "rename"), s, mDownloadsMap, calls)
    BY <1>2, <1>4 DEF UploadGetFile
  <2>2. \A r \in calls' : r.file \in Engines => r \in calls
    BY <2>1, StartAnswered
  <2> QED
    BY <1>1, <2>2, AnsweredAside
<1> QED
  BY <1>3, <1>4

LEMMA PartAnswerAnswered ==
  ASSUME BaseInv, AnsweredInv, NEW r \in calls, NEW atOnce \in BOOLEAN, PartAnswer(r, atOnce)
  PROVE  AnsweredInv'
<1>1. PICK f, s, next, c, d :
        /\ f = mDownloadsMap[r.id] /\ s = downloadSession[f] /\ c = calls \ {r} /\ d = calls'
        /\ next = Part(f, Len(bytes[f]) + Len(PartOf(r)))
  OBVIOUS
<1>2. Taken(r) /\ UNCHANGED <<uploadVars, asked>>
  BY DEF PartAnswer
<1>3. PICK sent : /\ sent = SendQueries(c, s, {next}) \/ sent = SendOffline(c, s, next)
                  /\ d \subseteq sent
  <2>1. d = Living(IF State(manager, s) # "connected" THEN SendOffline(c, s, next) ELSE SendQueries(c, s, {next}), manager')
    BY <1>1 DEF PartAnswer
  <2> QED
    BY <2>1 DEF Living
<1>4. f \in Downloads
  BY <1>1, <1>2, TakenIs
<1>5. \A q \in sent : q.file \in Engines => q \in c
  <2>1. PICK from : from = Len(bytes[f]) + Len(PartOf(r))
    OBVIOUS
  <2>2. next = Part(f, from)
    BY <1>1, <2>1
  <2>3. sent = SendQueries(c, s, {next}) \/ sent = SendOffline(c, s, next)
    BY <1>3
  <2> QED
    BY <1>4, <2>2, <2>3, SentByDownload
<1>6. \A q \in calls' : q.file \in Engines => q \in calls
  BY <1>1, <1>3, <1>5
<1> QED
  BY <1>2, <1>6, AnsweredAside

LEMMA MigrateAnswerAnswered ==
  ASSUME BaseInv, AnsweredInv, NEW r \in calls, NEW dc \in DCs, NEW atOnce \in BOOLEAN, MigrateAnswer(r, dc, atOnce)
  PROVE  AnsweredInv'
<1>1. PICK f, m, a, c :
        /\ f = mDownloadsMap[r.id] /\ m = Release(manager, downloadSession[f], atOnce)
        /\ a = Acquire(m, dc) /\ c = Living(calls \ {r}, m)
  OBVIOUS
<1>2. /\ Taken(r) /\ Start(f, a.manager, a.session, MapRemove(mDownloadsMap, r.id), c)
      /\ UNCHANGED <<uploadVars, asked>>
  BY <1>1 DEF MigrateAnswer
<1>3. f \in Downloads
  BY <1>1, <1>2, TakenIs
<1>4. \A q \in calls' : q.file \in Engines => q \in c
  BY <1>2, <1>3, StartAnswered
<1>5. \A q \in calls' : q.file \in Engines => q \in calls
  BY <1>1, <1>4 DEF Living
<1> QED
  BY <1>2, <1>5, AnsweredAside

\* Other answers, and the steps of sessions that send nothing.
LEMMA FewerAnswered ==
  ASSUME AnsweredInv,
         \/ \E r \in calls, atOnce \in BOOLEAN : CancelledAnswer(r, atOnce) \/ LastAnswer(r, atOnce)
         \/ \E r \in calls : UnheardQuery(r)
         \/ \E f \in Downloads : UploadCancelFile(f)
         \/ \E s \in Sessions : ConnectionLost(s) \/ Reconnect(s) \/ SessionClosed(s)
         \/ \E dc \in TransferDcs : TransferAuth(dc)
         \/ \E dc \in TransferDcs, atOnce \in BOOLEAN : TransferEnds(dc, atOnce)
  PROVE  AnsweredInv'
<1>1. UNCHANGED uploadVars /\ asked \subseteq asked' /\ calls' \subseteq calls
  BY DEF CancelledAnswer, LastAnswer, Destroy, UnheardQuery, UploadCancelFile, ConnectionLost, Reconnect,
         SessionClosed, TransferAuth, TransferEnds, Living
<1> QED
  BY <1>1, AnsweredAside

LEMMA UpdateMessageIdAnswered ==
  ASSUME AnsweredInv, NEW r \in calls, UpdateMessageId(r)
  PROVE  AnsweredInv'
<1>1. PICK id, q, c, d :
        /\ id = NewIds(calls, {Part(r.file, r.from)})[Part(r.file, r.from)] /\ q = [r EXCEPT !.id = id]
        /\ c = calls /\ d = calls'
  OBVIOUS
<1>2. d = (c \ {r}) \cup {q} /\ UNCHANGED <<uploadVars, asked>>
  BY <1>1 DEF UpdateMessageId
<1>3. q.file = r.file /\ q.from = r.from
  BY <1>1
<1>4. PICK st, up, wait, ask, sent :
        /\ st = answered /\ up = uploadedParts /\ wait = mInitialUploadsMap /\ ask = asked /\ sent = sentMedia
  OBVIOUS
<1>5. Tallies(c, st, up, wait, ask, sent) /\ r \in c
  BY <1>1, <1>4 DEF AnsweredInv
<1>6. Tallies(d, st, up, wait, ask, sent)
  BY <1>2, <1>3, <1>5, StoresRenamed
<1> QED
  BY <1>1, <1>2, <1>4, <1>6 DEF AnsweredInv, uploadVars

LEMMA SessionReadyAnswered ==
  ASSUME BaseInv, AnsweredInv, NEW s \in Sessions, SessionReady(s)
  PROVE  AnsweredInv'
<1>1. PICK ups, downs, parts, ids : Ready(s, ups, downs, parts, ids)
  BY ReadyIs
<1>2. PICK c, d, st, up, wait, left, ask, sent :
        /\ c = calls /\ d = calls' /\ st = answered /\ up = uploadedParts /\ wait = mInitialUploadsMap
        /\ left = mInitialUploadsMap' /\ ask = asked /\ sent = sentMedia
  OBVIOUS
<1>3. Tallies(c, st, up, wait, ask, sent)
  BY <1>2 DEF AnsweredInv
<1>4. UNCHANGED <<uploadedParts, answered, asked, sentMedia>> /\ parts = PartsFor(ups, downs)
  BY <1>1 DEF Ready
<1>5. /\ ups \in SUBSET Engines /\ downs \in SUBSET Downloads /\ Sent(c, s, parts, ids, d)
  BY <1>1, <1>2, SessionReadyBase
<1>6. \/ ups = {} /\ left = wait
      \/ ups = MapSet(wait, s) /\ left = MapRemove(wait, s)
  <2>1. \/ ups = {} /\ mInitialUploadsMap' = mInitialUploadsMap
        \/ ups = MapSet(mInitialUploadsMap, s) /\ mInitialUploadsMap' = MapRemove(mInitialUploadsMap, s)
    BY <1>1, Zenon DEF Ready
  <2> QED
    BY <1>2, <2>1
<1>7. DOMAIN left \subseteq DOMAIN wait /\ \A t \in DOMAIN left : left[t] = wait[t]
  BY <1>6 DEF MapRemove
<1>8. ASSUME NEW e \in ups
      PROVE  Waits(wait, e) /\ ~Waits(left, e)
  <2>1. ups = MapSet(wait, s) /\ left = MapRemove(wait, s)
    BY <1>6
  <2>2. s \in DOMAIN wait /\ e \in wait[s]
    BY <2>1 DEF MapSet
  <2>3. s \notin DOMAIN left
    BY <2>1 DEF MapRemove
  <2> QED
    BY <1>3, <1>5, <1>7, <2>2, <2>3 DEF Waits, Tallies
<1>9. \A e \in ups : /\ Quiet(c, st, e) /\ e.op \in ask /\ ~Waits(left, e)
                     /\ \A u \in Thumbs : e = Engine(u, "Main") => ~(up[Engine(u, "Thumbnail")] < Parts)
  BY <1>3, <1>5, <1>8 DEF Tallies
<1>10. PICK new : new = {q \in d \ c : q.file \in Engines}
  OBVIOUS
<1>11. ASSUME NEW q \in new
       PROVE  \E p \in parts : q = Call(ids[p], s, p.file, p.from) /\ p.file \in ups /\ p.from \in PartNos
  <2>1. PICK p \in parts : q = Call(ids[p], s, p.file, p.from)
    BY <1>5, <1>10 DEF Sent
  <2>2. p.file \in Engines
    BY <1>10, <2>1 DEF Call
  <2>3. PartsAreFor(ups, downs, parts)
    BY <1>4, <1>5, ReadyParts
  <2>4. p.file \notin downs
    BY <1>5, <2>2, Constants
  <2> QED
    BY <2>1, <2>3, <2>4 DEF PartsAreFor, PartNos
<1>12. \A q \in new : q.file \in ups /\ q.from \in PartNos
  BY <1>11 DEF Call
<1>13. ASSUME NEW x \in new, NEW y \in new, x.file = y.file, x.from = y.from
       PROVE  x = y
  <2>1. PICK p \in parts : x = Call(ids[p], s, p.file, p.from)
    BY <1>11
  <2>2. PICK q \in parts : y = Call(ids[q], s, q.file, q.from)
    BY <1>11
  <2>3. p.file = q.file /\ p.from = q.from
    BY <1>13, <2>1, <2>2 DEF Call
  <2>4. p \in PartType /\ q \in PartType
    <3>1. PartsAreFor(ups, downs, parts)
      BY <1>4, <1>5, ReadyParts
    <3> QED
      BY <3>1 DEF PartsAreFor
  <2>5. p = q
    BY <2>3, <2>4 DEF PartType
  <2> QED
    BY <2>1, <2>2, <2>5
<1>14. Tallies(c \cup new, st, up, left, ask, sent)
  <2>1. ask \subseteq ask /\ \A x, y \in new : x.file = y.file /\ x.from = y.from => x = y
    BY <1>13
  <2> QED
    BY <1>3, <1>5, <1>7, <1>9, <1>12, <2>1, StoresSent
<1>15. PICK b : b = c \cup new
  OBVIOUS
<1>16. Tallies(d, st, up, left, ask, sent)
  <2>1. (\A q \in d : q.file \in Engines => q \in b) /\ ask \subseteq ask
    BY <1>10, <1>15
  <2>2. Tallies(b, st, up, left, ask, sent)
    BY <1>14, <1>15
  <2> QED
    BY <2>1, <2>2, StoresFewer
<1> QED
  BY <1>2, <1>4, <1>16 DEF AnsweredInv

LEMMA AnsweredInit ==
  ASSUME Init
  PROVE  AnsweredInv
<1>1. \A e : AnsweredOf({}, e) = {}
  BY DEF AnsweredOf
<1>2. answered = {} /\ calls = {} /\ mInitialUploadsMap = EmptyMap /\ sentMedia = {} /\ asked = {}
  BY DEF Init
<1>3. uploadedParts \in [Engines -> Nat] /\ \A e \in Engines : uploadedParts[e] = 0
  BY DEF Init
<1>4. \A e : ~Waits(EmptyMap, e) /\ Quiet({}, {}, e)
  BY <1>1 DEF EmptyMap, Waits, Quiet
<1>5. Cardinality({}) = 0
  BY FS_EmptySet
<1> QED
  BY <1>1, <1>2, <1>3, <1>4, <1>5 DEF AnsweredInv, Tallies, EmptyMap

-----------------------------------------------------------------------------
(* Every reachable state.                                                  *)

Inv == BaseInv /\ AnsweredInv

LEMMA NextInv ==
  ASSUME Inv, Next
  PROVE  Inv'
<1> USE DEF Inv
<1>1. CASE \E u \in Uploads : UploadSendFile(u)
  BY <1>1, UploadSendFileBase, UploadSendFileAnswered
<1>2. CASE \E f \in Downloads : UploadGetFile(f) \/ UploadCancelFile(f)
  BY <1>2, UploadGetFileBase, UploadCancelFileBase, UploadGetFileAnswered, FewerAnswered
<1>3. CASE \E r \in calls, atOnce \in BOOLEAN : AnswerReceived(r, atOnce)
  <2>1. PICK r \in calls, atOnce \in BOOLEAN : AnswerReceived(r, atOnce)
    BY <1>3
  <2>2. CASE PartResult(r)
    BY <2>2, PartResultBase, PartResultAnswered
  <2>3. CASE ThumbnailResult(r)
    BY <2>3, ThumbnailResultBase, ThumbnailResultAnswered
  <2>4. CASE MainResult(r, atOnce)
    BY <2>4, MainResultBase, MainResultAnswered
  <2>5. CASE CancelledAnswer(r, atOnce)
    BY <2>5, CancelledAnswerBase, FewerAnswered
  <2>6. CASE LastAnswer(r, atOnce)
    BY <2>6, LastAnswerBase, FewerAnswered
  <2>7. CASE PartAnswer(r, atOnce)
    BY <2>7, PartAnswerBase, PartAnswerAnswered
  <2> QED
    BY <2>1, <2>2, <2>3, <2>4, <2>5, <2>6, <2>7 DEF AnswerReceived
<1>4. CASE \E r \in calls, atOnce \in BOOLEAN, dc \in DCs : MigrateAnswer(r, dc, atOnce)
  BY <1>4, MigrateAnswerBase, MigrateAnswerAnswered
<1>5. CASE \E r \in calls : UnheardQuery(r) \/ UpdateMessageId(r)
  BY <1>5, UnheardQueryBase, UpdateMessageIdBase, UpdateMessageIdAnswered, FewerAnswered
<1>6. CASE \E s \in Sessions : SessionReady(s) \/ ConnectionLost(s) \/ Reconnect(s) \/ SessionClosed(s)
  <2>1. PICK s \in Sessions : SessionReady(s) \/ ConnectionLost(s) \/ Reconnect(s) \/ SessionClosed(s)
    BY <1>6
  <2>2. CASE SessionReady(s)
    BY <2>2, ReadyIs, SessionReadyBase, SessionReadyAnswered
  <2>3. CASE ConnectionLost(s) \/ Reconnect(s) \/ SessionClosed(s)
    BY <2>3, ConnectionLostBase, ReconnectBase, SessionClosedBase, FewerAnswered
  <2> QED
    BY <2>1, <2>2, <2>3
<1>7. CASE \E dc \in TransferDcs : TransferAuth(dc)
  BY <1>7, TransferAuthBase, FewerAnswered
<1>8. CASE \E dc \in TransferDcs, atOnce \in BOOLEAN : TransferEnds(dc, atOnce)
  BY <1>8, TransferEndsBase, FewerAnswered
<1> QED
  BY <1>1, <1>2, <1>3, <1>4, <1>5, <1>6, <1>7, <1>8 DEF Next

\* A step that changes nothing.
LEMMA StutterInv ==
  ASSUME Inv, UNCHANGED vars
  PROVE  Inv'
<1>1. /\ UNCHANGED <<manager, calls, uploadVars, downloadVars, transfers, asked, offlines>>
      /\ ManagerType(manager') /\ Later(manager, manager')
  BY ManagerParts DEF vars, uploadVars, downloadVars, Inv, BaseInv
<1>2. BaseInv'
  BY <1>1, LaterFewer, AsideIs DEF Inv
<1>3. AnsweredInv'
  BY <1>1, AnsweredAside DEF Inv
<1> QED
  BY <1>2, <1>3 DEF Inv

LEMMA AlwaysInv == Spec => []Inv
<1>1. Init => Inv
  BY BaseInit, AnsweredInit DEF Inv
<1>2. Inv /\ [Next]_vars => Inv'
  BY NextInv, StutterInv
<1> QED
  BY <1>1, <1>2, PTL DEF Spec

LEMMA InvType ==
  ASSUME Inv
  PROVE  TypeOK
<1>1. manager.counts \in [DCs -> Int] /\ manager.ids \in [DCs -> Nat] /\ manager.files \subseteq Sessions
  BY ManagerParts DEF Inv, BaseInv, Sessions
<1>2. \A s \in Sessions : manager.sockets[s] \in SocketType
  <2>1. PICK sockets : sockets = manager.sockets
    OBVIOUS
  <2>2. sockets \in Seq(SocketType)
    BY <2>1, ManagerParts DEF Inv, BaseInv
  <2> QED
    BY <2>1, <2>2 DEF Sessions
<1>3. \A r \in calls : r.file \in Files /\ r.session \in Sessions /\ r.id \in Int
  BY DEF Inv, BaseInv, CallsOk, Ids, Sessions
<1>4. uploadedParts \in [Engines -> 0..Parts]
  <2>1. uploadedParts \in [Engines -> Nat] /\ \A e \in Engines : Cardinality(AnsweredOf(answered, e)) = uploadedParts[e]
    BY DEF Inv, AnsweredInv, Tallies
  <2>2. ASSUME NEW e \in Engines
        PROVE  uploadedParts[e] \in 0..Parts
    <3>1. PICK n, p : n = uploadedParts[e] /\ p = Parts
      OBVIOUS
    <3>2. n \in Nat /\ p \in Nat /\ n <= p
      BY <2>1, <3>1, AnsweredOfIs, Constants
    <3> QED
      BY <3>1, <3>2
  <2> QED
    BY <2>1, <2>2
<1>5. /\ mUploadsMap \subseteq Engines /\ sentMedia \subseteq Uploads /\ finished \subseteq Downloads
      /\ mCancelDownloadsMap \subseteq mActiveDownloadsMap
      /\ \A d \in Downloads : downloadSession[d] \in Sessions \cup {NoSession}
  BY DEF Inv, BaseInv, UploadsInv, DownloadsInv
<1>6. \A id \in DOMAIN mDownloadsMap : mDownloadsMap[id] \in Downloads
  BY DEF Inv, BaseInv, DownloadsInv, Placed
<1> QED
  BY <1>1, <1>2, <1>3, <1>4, <1>5, <1>6 DEF TypeOK

LEMMA InvMedia ==
  ASSUME Inv
  PROVE  MediaIsAnswered
<1>1. ASSUME NEW u \in sentMedia, NEW e \in Engines, e.op = u
      PROVE  \A p \in 0..(Parts - 1) : <<e, p>> \in answered
  <2>1. uploadedParts[e] = Parts /\ Cardinality(AnsweredOf(answered, e)) = uploadedParts[e]
    BY <1>1 DEF Inv, AnsweredInv, Tallies
  <2>2. AnsweredOf(answered, e) = PartNos
    BY <2>1, AnsweredOfIs
  <2> QED
    BY <2>2 DEF AnsweredOf, PartNos
<1> QED
  BY <1>1 DEF MediaIsAnswered

\* The types of the state of FileHandler and of the sessions it shares: no
\* step of a transfer leaves a download, an upload or a query without a place
\* in the maps of the handler that the code would miss (file/filehandler.cpp).
THEOREM TypeCorrect == Spec => []TypeOK
BY AlwaysInv, InvType, PTL

\* onUploadSaveFilePartResult sends the metadata of an upload when the server
\* has answered every part of the file and of its thumbnail (those it did not
\* save among them), whatever becomes of the session, of queries and of their
\* identifiers meanwhile (file/filehandler.cpp:139).
THEOREM MediaCorrect == Spec => []MediaIsAnswered
BY AlwaysInv, InvMedia, PTL

-----------------------------------------------------------------------------
(* What downloads received: the invariant OwnInv, as long as at most one   *)
(* query was sent without a connection.                                    *)

\* The queries c that are filed in map ask for the next part of the file of
\* which b was received; none was sent without a connection when k = 0.
Asks(c, map, b, k) ==
  /\ \A r, q \in c : r.id = q.id => r = q
  /\ \A r \in c : r.id \in DOMAIN map => map[r.id] = r.file /\ r.from = Len(b[r.file])
  /\ k = 0 => Offline \notin DOMAIN map /\ \A r \in c : r.id # Offline

\* The beginnings b of the files that downloads received.
Received(b, wait, ask, fin, session) ==
  /\ \A d \in Downloads : b[d] = [i \in 1..Len(b[d]) |-> <<d, i>>] /\ Len(b[d]) <= Length[d]
  /\ \A s \in DOMAIN wait : \A f \in wait[s] : Len(b[f]) = 0
  /\ \A d \in Downloads : d \notin ask => Len(b[d]) = 0
  /\ \A d \in fin : Len(b[d]) = Length[d] /\ session[d] = NoSession /\ d \in ask

OwnInv ==
  offlines < 2 => /\ Asks(calls, mDownloadsMap, bytes, offlines)
                  /\ Received(bytes, mInitialDownloadsMap, asked, finished, downloadSession)

\* Fewer queries are filed.
LEMMA AsksFewer ==
  ASSUME NEW c, NEW map, NEW b, NEW k, Asks(c, map, b, k), NEW d \in SUBSET c,
         NEW less, less = map \/ \E id : less = MapRemove(map, id)
  PROVE  Asks(d, less, b, k)
<1>1. DOMAIN less \subseteq DOMAIN map /\ \A i \in DOMAIN less : less[i] = map[i]
  BY DEF MapRemove
<1> QED
  BY <1>1 DEF Asks

\* In more, entries of map and of the queries of these parts.
Filed(map, b, parts, ids, more) ==
  \A i \in DOMAIN more : \/ i \in DOMAIN map /\ more[i] = map[i]
                         \/ \E p \in parts : i = ids[p] /\ more[i] = p.file /\ p.from = Len(b[p.file])

\* Queries of new parts are sent, and may be filed.
LEMMA AsksSent ==
  ASSUME NEW c, NEW map, NEW b, NEW k, Asks(c, map, b, k), DOMAIN map \subseteq DOMAIN mDownloadsMap,
         NEW s, NEW parts, NEW ids, NEW d, Sent(c, s, parts, ids, d), NEW more,
         Filed(map, b, parts, ids, more)
  PROVE  Asks(d, more, b, k)
<1>1. ASSUME NEW r \in d
      PROVE  \/ r \in c /\ \A p \in parts : r.id # ids[p]
             \/ \E p \in parts : /\ r = Call(ids[p], s, p.file, p.from) /\ r.id = ids[p] /\ r.file = p.file
                                 /\ r.from = p.from /\ ids[p] \in Nat \ {0} /\ ids[p] \notin DOMAIN map
                                 /\ \A q \in c : q.id # ids[p]
  BY DEF Sent, Fresh, Call
<1>2. \A p, q \in parts : ids[p] = ids[q] => p = q
  BY DEF Sent, Fresh
<1>3. ASSUME NEW r \in d, NEW q \in d, r.id = q.id
      PROVE  r = q
  <2>1. CASE r \in c /\ q \in c
    BY <1>3, <2>1 DEF Asks
  <2>2. CASE ~(r \in c /\ q \in c)
    BY <1>1, <1>2, <1>3, <2>2
  <2> QED
    BY <2>1, <2>2
<1>4. ASSUME NEW r \in d, r.id \in DOMAIN more
      PROVE  more[r.id] = r.file /\ r.from = Len(b[r.file])
  <2>1. CASE r \in c /\ \A p \in parts : r.id # ids[p]
    BY <1>4, <2>1 DEF Asks, Filed
  <2>2. CASE \E p \in parts : /\ r.id = ids[p] /\ r.file = p.file /\ r.from = p.from /\ ids[p] \notin DOMAIN map
    <3>1. PICK p \in parts : r.id = ids[p] /\ r.file = p.file /\ r.from = p.from /\ ids[p] \notin DOMAIN map
      BY <2>2
    <3>2. PICK q \in parts : r.id = ids[q] /\ more[r.id] = q.file /\ q.from = Len(b[q.file])
      BY <1>4, <3>1 DEF Filed
    <3>3. p = q
      BY <1>2, <3>1, <3>2
    <3> QED
      BY <3>1, <3>2, <3>3
  <2> QED
    BY <1>1, <2>1, <2>2
<1>5. ASSUME k = 0
      PROVE  Offline \notin DOMAIN more /\ \A r \in d : r.id # Offline
  <2>1. \A p \in parts : ids[p] # Offline
    BY DEF Sent, Fresh, Offline
  <2> QED
    BY <1>1, <1>5, <2>1 DEF Asks, Filed
<1> QED
  BY <1>3, <1>4, <1>5 DEF Asks

\* The first query without a connection.
LEMMA AsksOffline ==
  ASSUME NEW c, NEW map, NEW b, Asks(c, map, b, 0), NEW s, NEW p, NEW d, d = SendOffline(c, s, p),
         NEW more, \/ more = map
                   \/ more = MapInsert(map, Offline, p.file) /\ p.from = Len(b[p.file])
  PROVE  Asks(d, more, b, 1)
<1>1. PICK q : q = Call(Offline, s, p.file, p.from)
  OBVIOUS
<1>2. q.id = Offline /\ q.file = p.file /\ q.from = p.from /\ d \subseteq c \cup {q}
  BY <1>1 DEF Call, SendOffline
<1>3. Offline \notin DOMAIN map /\ \A r \in c : r.id # Offline
  BY DEF Asks
<1>4. \A r, x \in d : r.id = x.id => r = x
  BY <1>2, <1>3 DEF Asks
<1>5. ASSUME NEW r \in d, r.id \in DOMAIN more
      PROVE  more[r.id] = r.file /\ r.from = Len(b[r.file])
  <2>1. CASE more = map
    BY <1>2, <1>3, <1>5, <2>1 DEF Asks
  <2>2. CASE more = MapInsert(map, Offline, p.file) /\ p.from = Len(b[p.file])
    <3>1. /\ DOMAIN more = DOMAIN map \cup {Offline} /\ more[Offline] = p.file
          /\ \A i \in DOMAIN map : i # Offline => more[i] = map[i]
      BY <2>2 DEF MapInsert
    <3>2. CASE r = q
      BY <1>2, <2>2, <3>1, <3>2
    <3>3. CASE r # q
      <4>1. r \in c /\ r.id # Offline
        BY <1>2, <1>3, <3>3
      <4> QED
        BY <1>5, <3>1, <4>1 DEF Asks
    <3> QED
      BY <3>2, <3>3
  <2> QED
    BY <2>1, <2>2
<1> QED
  BY <1>4, <1>5 DEF Asks

\* A query gets a new identifier, and its entry may move.
LEMMA AsksRenamed ==
  ASSUME NEW c, NEW map, NEW b, NEW k, Asks(c, map, b, k), NEW r \in c, NEW id, id # Offline, id \notin DOMAIN map,
         \A q \in c : q.id # id, NEW x, x.id = id, x.file = r.file, x.from = r.from,
         NEW d, d = (c \ {r}) \cup {x}, NEW moved,
         \/ moved = map
         \/ r.id \in DOMAIN map /\ Moved(map, r.id, id, map[r.id], moved)
  PROVE  Asks(d, moved, b, k)
<1>1. \A q, y \in d : q.id = y.id => q = y
  BY DEF Asks
<1>2. ASSUME NEW q \in d, q.id \in DOMAIN moved
      PROVE  moved[q.id] = q.file /\ q.from = Len(b[q.file])
  <2>1. CASE moved = map
    <3>1. q # x
      BY <1>2, <2>1
    <3> QED
      BY <1>2, <2>1, <3>1 DEF Asks
  <2>2. CASE r.id \in DOMAIN map /\ Moved(map, r.id, id, map[r.id], moved)
    <3>1. /\ DOMAIN moved = (DOMAIN map \ {r.id}) \cup {id} /\ moved[id] = map[r.id]
          /\ \A i \in DOMAIN map : i # r.id /\ i # id => moved[i] = map[i]
      BY <2>2 DEF Moved
    <3>2. CASE q = x
      BY <2>2, <3>1, <3>2 DEF Asks
    <3>3. CASE q # x
      <4>1. q \in c /\ q # r /\ q.id # r.id /\ q.id # id
        BY <3>3 DEF Asks
      <4> QED
        BY <1>2, <3>1, <4>1 DEF Asks
    <3> QED
      BY <3>2, <3>3
  <2> QED
    BY <2>1, <2>2
<1>3. ASSUME k = 0
      PROVE  Offline \notin DOMAIN moved /\ \A q \in d : q.id # Offline
  BY <1>3 DEF Asks, Moved
<1> QED
  BY <1>1, <1>2, <1>3 DEF Asks

\* A download that is not filed receives something.
LEMMA AsksGrown ==
  ASSUME NEW c, NEW map, NEW b, NEW k, Asks(c, map, b, k), NEW f, \A i \in DOMAIN map : map[i] # f,
         map \in [DOMAIN map -> Downloads], NEW b2, \A d \in Downloads : d # f => b2[d] = b[d]
  PROVE  Asks(c, map, b2, k)
<1>1. ASSUME NEW r \in c, r.id \in DOMAIN map
      PROVE  b2[r.file] = b[r.file]
  <2>1. map[r.id] = r.file /\ map[r.id] # f /\ map[r.id] \in Downloads
    BY <1>1 DEF Asks
  <2> QED
    BY <2>1
<1> QED
  BY <1>1 DEF Asks

\* What was received stays.
LEMMA ReceivedAside ==
  ASSUME NEW b, NEW wait, NEW ask, NEW fin, NEW session, Received(b, wait, ask, fin, session),
         NEW left, \A s \in DOMAIN left : \A f \in left[s] :
                     Len(b[f]) = 0 \/ \E t \in DOMAIN wait : f \in wait[t],
         NEW more, ask \subseteq more, NEW after, \A d \in fin : session[d] = NoSession => after[d] = NoSession
  PROVE  Received(b, left, more, fin, after)
BY DEF Received

\* A beginning of f, and its continuation.
Begins(f, g)          == g = [i \in 1..Len(g) |-> <<f, i>>]
Joined(g, part, h)    == h = g \o part
Continues(f, g, part) == \A i \in 1..Len(part) : part[i] = <<f, Len(g) + i>>

LEMMA Continued ==
  ASSUME NEW S, NEW f, NEW g \in Seq(S), NEW part \in Seq(S), NEW h, Joined(g, part, h),
         Begins(f, g), Continues(f, g, part)
  PROVE  Len(h) = Len(g) + Len(part) /\ Begins(f, h)
<1>1. PICK m, n \in Nat : m = Len(g) /\ n = Len(part)
  OBVIOUS
<1>2. /\ h \in Seq(S) /\ Len(h) = m + n
      /\ \A i \in 1..(m + n) : h[i] = IF i <= m THEN g[i] ELSE part[i - m]
  BY <1>1, ConcatProperties DEF Joined
<1>3. ASSUME NEW i \in 1..(m + n)
      PROVE  h[i] = <<f, i>>
  <2>1. CASE i <= m
    BY <1>1, <1>2, <2>1 DEF Begins
  <2>2. CASE ~(i <= m)
    <3>1. i - m \in 1..n /\ m + (i - m) = i
      BY <1>1, <2>2
    <3>2. part[i - m] = <<f, m + (i - m)>>
      BY <1>1, <3>1 DEF Continues
    <3> QED
      BY <1>2, <2>2, <3>1, <3>2
  <2> QED
    BY <2>1, <2>2
<1>4. h = [i \in 1..(m + n) |-> <<f, i>>]
  <2>1. m + n \in Nat /\ DOMAIN h = 1..(m + n) /\ h = [i \in 1..Len(h) |-> h[i]]
    BY <1>2, LenProperties
  <2> QED
    BY <1>2, <1>3, <2>1
<1> QED
  BY <1>1, <1>2, <1>4 DEF Begins

\* The next part of f after b arrives, and is put to it.
BytesType(b) == b \in [Downloads -> Seq(Downloads \X Nat)]
NextPart(f, b, part) ==
  /\ part \in Seq(Downloads \X Nat) /\ Len(part) \in Nat /\ Len(part) = UnitsOf(f, Len(b[f]))
  /\ \A i \in 1..Len(part) : part[i] = <<f, Len(b[f]) + i>>
Puts(f, b, part, b2) == b2 = [b EXCEPT ![f] = @ \o part]
Grown(f, b, part, b2) ==
  /\ \A d \in Downloads : d # f => b2[d] = b[d]
  /\ Len(b2[f]) = Len(b[f]) + Len(part) /\ Len(b2[f]) <= Length[f] /\ Len(part) = UnitsOf(f, Len(b[f]))
  /\ Len(part) \in Nat /\ Len(b[f]) \in Nat

LEMMA ReceivedGrown ==
  ASSUME NEW b, BytesType(b), NEW wait, NEW ask, NEW fin \in SUBSET Downloads, NEW session,
         Received(b, wait, ask, fin, session), NEW f \in Downloads, f \in ask,
         session[f] # NoSession,
         \A s \in DOMAIN wait : f \notin wait[s] /\ wait[s] \subseteq Downloads,
         NEW part, NextPart(f, b, part), NEW b2, Puts(f, b, part, b2)
  PROVE  Received(b2, wait, ask, fin, session) /\ Grown(f, b, part, b2)
<1>1. b2[f] = b[f] \o part /\ \A d \in Downloads : d # f => b2[d] = b[d]
  BY DEF Puts, BytesType
<1>2. PICK S, g, h, len : S = Downloads \X Nat /\ g = b[f] /\ h = b2[f] /\ len = Len(g)
  OBVIOUS
<1>3. g \in Seq(S) /\ part \in Seq(S) /\ Joined(g, part, h) /\ Continues(f, g, part)
  BY <1>1, <1>2 DEF BytesType, NextPart, Continues, Joined
<1>4. Begins(f, g) /\ len <= Length[f]
  BY <1>2 DEF Received, Begins
<1>5. Len(h) = Len(g) + Len(part) /\ Begins(f, h)
  BY <1>3, <1>4, Continued
<1>6. PICK n, all : n = Len(part) /\ all = Length[f] /\ n \in Nat /\ all \in Nat /\ n = UnitsOf(f, len)
  BY <1>2, Constants DEF NextPart
<1>7. len \in Nat /\ len + n <= all
  <2>1. len \in Nat
    BY <1>2, <1>3
  <2>2. n = IF len + 2 <= all THEN 2 ELSE IF len < all THEN all - len ELSE 0
    BY <1>6 DEF UnitsOf, Block
  <2> QED
    BY <1>4, <1>6, <2>1, <2>2
<1>8. b2[f] = [i \in 1..Len(b2[f]) |-> <<f, i>>] /\ Len(b2[f]) = len + n /\ Len(b2[f]) <= Length[f]
  BY <1>2, <1>5, <1>6, <1>7 DEF Begins
<1>9. \A d \in fin : d # f /\ d \in Downloads
  BY DEF Received
<1>10. \A s \in DOMAIN wait : \A d \in wait[s] : Len(b2[d]) = 0
  <2>1. ASSUME NEW s \in DOMAIN wait, NEW d \in wait[s]
        PROVE  Len(b2[d]) = 0
    <3>1. d # f /\ d \in Downloads /\ Len(b[d]) = 0
      BY DEF Received
    <3>2. b2[d] = b[d]
      BY <1>1, <3>1 DEF Continues
    <3> QED
      BY <3>1, <3>2
  <2> QED
    BY <2>1
<1>11. Received(b2, wait, ask, fin, session)
  BY <1>1, <1>8, <1>9, <1>10 DEF Received
<1> QED
  BY <1>1, <1>2, <1>6, <1>7, <1>8, <1>11 DEF Grown

\* A step that sends nothing, and receives nothing.
LEMMA OwnFewer ==
  ASSUME OwnInv, calls' \in SUBSET calls,
         mDownloadsMap' = mDownloadsMap \/ \E id : mDownloadsMap' = MapRemove(mDownloadsMap, id),
         UNCHANGED <<mInitialDownloadsMap, bytes, finished, offlines>>, asked \subseteq asked',
         \A d \in finished : downloadSession[d] = NoSession => downloadSession'[d] = NoSession
  PROVE  OwnInv'
<1>1. SUFFICES ASSUME offlines < 2
               PROVE  /\ Asks(calls', mDownloadsMap', bytes, offlines)
                      /\ Received(bytes, mInitialDownloadsMap, asked', finished, downloadSession')
  BY DEF OwnInv
<1>2. PICK c, d, map, less, b, k :
        /\ c = calls /\ d = calls' /\ map = mDownloadsMap /\ less = mDownloadsMap' /\ b = bytes /\ k = offlines
  OBVIOUS
<1>3. Asks(c, map, b, k) /\ d \in SUBSET c /\ (less = map \/ \E id : less = MapRemove(map, id))
  BY <1>1, <1>2 DEF OwnInv
<1>4. Asks(d, less, b, k)
  BY <1>3, AsksFewer
<1>5. Received(bytes, mInitialDownloadsMap, asked', finished, downloadSession')
  BY <1>1 DEF OwnInv, Received
<1> QED
  BY <1>2, <1>4, <1>5

\* The other steps without a query.
LEMMA FewerOwn ==
  ASSUME BaseInv, OwnInv,
         \/ \E r \in calls : PartResult(r) \/ UnheardQuery(r)
         \/ \E r \in calls, atOnce \in BOOLEAN : MainResult(r, atOnce)
         \/ \E f \in Downloads : UploadCancelFile(f)
         \/ \E s \in Sessions : ConnectionLost(s) \/ Reconnect(s) \/ SessionClosed(s)
         \/ \E dc \in TransferDcs : TransferAuth(dc)
         \/ \E dc \in TransferDcs, atOnce \in BOOLEAN : TransferEnds(dc, atOnce)
  PROVE  OwnInv'
<1>1. /\ calls' \in SUBSET calls /\ asked \subseteq asked'
      /\ UNCHANGED <<mDownloadsMap, mInitialDownloadsMap, bytes, finished, offlines, downloadSession>>
  BY DEF PartResult, UnheardQuery, MainResult, UploadCancelFile, ConnectionLost, Reconnect, SessionClosed,
         TransferAuth, TransferEnds, Living, downloadVars, boundVars
<1> QED
  BY <1>1, OwnFewer

LEMMA CancelledAnswerOwn ==
  ASSUME BaseInv, OwnInv, NEW r \in calls, NEW atOnce \in BOOLEAN, CancelledAnswer(r, atOnce)
  PROVE  OwnInv'
<1>1. PICK f : f = mDownloadsMap[r.id]
  OBVIOUS
<1>2. /\ Destroy(r, f, atOnce) /\ UNCHANGED <<mInitialDownloadsMap, bytes, finished, asked, offlines>>
  BY <1>1 DEF CancelledAnswer, boundVars
<1>3. /\ calls' \in SUBSET calls /\ mDownloadsMap' = MapRemove(mDownloadsMap, r.id)
      /\ downloadSession' = [downloadSession EXCEPT ![f] = NoSession]
  BY <1>2 DEF Destroy, Living
<1>4. \A d \in finished : downloadSession[d] = NoSession => downloadSession'[d] = NoSession
  BY <1>3 DEF BaseInv, DownloadsInv
<1> QED
  BY <1>2, <1>3, <1>4, OwnFewer

\* The query of a download that is answered asked for its next part.
LEMMA TakenOwn ==
  ASSUME BaseInv, NEW k, Asks(calls, mDownloadsMap, bytes, k),
         Received(bytes, mInitialDownloadsMap, asked, finished, downloadSession),
         NEW r \in calls, Taken(r), NEW f, f = mDownloadsMap[r.id]
  PROVE  r.file = f /\ r.from = Len(bytes[f]) /\ f \in Downloads /\ f \notin finished /\ f \in asked
<1>1. f \in Downloads /\ downloadSession[f] # NoSession /\ f \in asked
  BY TakenIs, ManagerParts DEF Sessions, BaseInv
<1>2. r.file = f /\ r.from = Len(bytes[f])
  BY DEF Asks, Taken
<1> QED
  BY <1>1, <1>2 DEF Received

\* What an answer makes of the units received.
LEMMA AnswerGrown ==
  ASSUME BaseInv, NEW k, Asks(calls, mDownloadsMap, bytes, k),
         Received(bytes, mInitialDownloadsMap, asked, finished, downloadSession),
         NEW r \in calls, Taken(r), NEW f, f = mDownloadsMap[r.id],
         NEW b2, Puts(f, bytes, PartOf(r), b2)
  PROVE  Received(b2, mInitialDownloadsMap, asked, finished, downloadSession) /\ Grown(f, bytes, PartOf(r), b2)
<1>1. PICK b, wait, ask, fin, session, part :
        /\ b = bytes /\ wait = mInitialDownloadsMap /\ ask = asked /\ fin = finished /\ session = downloadSession
        /\ part = PartOf(r)
  OBVIOUS
<1>2. r.file = f /\ r.from = Len(b[f]) /\ f \in Downloads /\ f \in ask
  BY <1>1, TakenOwn
<1>3. NextPart(f, b, part)
  BY <1>1, <1>2, PartOfIs DEF Taken, NextPart
<1>4. BytesType(b) /\ fin \in SUBSET Downloads
  BY <1>1 DEF BaseInv, DownloadsInv, BytesType
<1>5. session[f] # NoSession /\ \A s \in DOMAIN wait : f \notin wait[s] /\ wait[s] \subseteq Downloads
  BY <1>1, TakenIs, ManagerParts DEF Sessions, BaseInv, DownloadsInv, Placed
<1>6. Received(b, wait, ask, fin, session) /\ Puts(f, b, part, b2)
  BY <1>1
<1>7. Received(b2, wait, ask, fin, session) /\ Grown(f, b, part, b2)
  BY <1>2, <1>3, <1>4, <1>5, <1>6, ReceivedGrown
<1> QED
  BY <1>1, <1>7

\* The rest of the map, and the queries left.
LEMMA AnswerRest ==
  ASSUME BaseInv, NEW k, Asks(calls, mDownloadsMap, bytes, k),
         NEW r \in calls, Taken(r), NEW f, f = mDownloadsMap[r.id],
         NEW b2, Grown(f, bytes, PartOf(r), b2), NEW c \in SUBSET calls, NEW rest, rest = MapRemove(mDownloadsMap, r.id)
  PROVE  Asks(c, rest, b2, k) /\ DOMAIN rest \subseteq DOMAIN mDownloadsMap
<1>1. PICK map, wait, session, b, id, e :
        map = mDownloadsMap /\ wait = mInitialDownloadsMap /\ session = downloadSession /\ b = bytes /\ id = r.id /\ e = calls
  OBVIOUS
<1>2. Placed(map, wait, session) /\ rest = MapRemove(map, id) /\ Asks(e, map, b, k) /\ c \in SUBSET e
  BY <1>1 DEF BaseInv, DownloadsInv
<1>3. Placed(rest, wait, session) /\ Less(map, id, rest)
  BY <1>2, PlacedLess
<1>4. Asks(c, rest, b, k)
  BY <1>2, AsksFewer
<1>5. \A i \in DOMAIN rest : rest[i] # f
  BY <1>1, <1>3 DEF Less, Taken
<1>6. rest \in [DOMAIN rest -> Downloads]
  BY <1>3 DEF Placed
<1>7. \A d \in Downloads : d # f => b2[d] = b[d]
  BY <1>1 DEF Grown
<1>8. Asks(c, rest, b2, k)
  BY <1>4, <1>5, <1>6, <1>7, AsksGrown
<1> QED
  BY <1>1, <1>3, <1>8 DEF Less

LEMMA LastAnswerOwn ==
  ASSUME BaseInv, OwnInv, NEW r \in calls, NEW atOnce \in BOOLEAN, LastAnswer(r, atOnce)
  PROVE  OwnInv'
<1>1. PICK f, b2, c, rest : /\ f = mDownloadsMap[r.id] /\ b2 = bytes' /\ c = calls'
                            /\ rest = MapRemove(mDownloadsMap, r.id)
  OBVIOUS
<1>2. /\ Taken(r) /\ IsLastPart(f, PartOf(r)) /\ Destroy(r, f, atOnce)
      /\ Puts(f, bytes, PartOf(r), b2) /\ finished' = finished \cup {f}
      /\ UNCHANGED <<mInitialDownloadsMap, asked, offlines>>
  BY <1>1 DEF LastAnswer, boundVars, Puts
<1>3. /\ c \in SUBSET calls /\ mDownloadsMap' = rest
      /\ downloadSession' = [downloadSession EXCEPT ![f] = NoSession]
  BY <1>1, <1>2 DEF Destroy, Living
<1>4. SUFFICES ASSUME offlines < 2
               PROVE  /\ Asks(c, rest, b2, offlines)
                      /\ Received(b2, mInitialDownloadsMap, asked, finished', downloadSession')
  BY <1>1, <1>2, <1>3 DEF OwnInv
<1>5. /\ Asks(calls, mDownloadsMap, bytes, offlines)
      /\ Received(bytes, mInitialDownloadsMap, asked, finished, downloadSession)
  BY <1>4 DEF OwnInv
<1>6. Received(b2, mInitialDownloadsMap, asked, finished, downloadSession) /\ Grown(f, bytes, PartOf(r), b2)
  BY <1>1, <1>2, <1>5, AnswerGrown
<1>7. Asks(c, rest, b2, offlines)
  BY <1>1, <1>2, <1>3, <1>5, <1>6, AnswerRest
<1>8. f \in Downloads /\ f \in asked
  BY <1>1, <1>2, <1>5, TakenOwn
<1>9. Len(b2[f]) = Length[f]
  <2>1. PICK x, y, n, all : x = Len(bytes[f]) /\ y = Len(b2[f]) /\ n = Len(PartOf(r)) /\ all = Length[f]
    OBVIOUS
  <2>2. y = x + n /\ y <= all /\ n \in Nat /\ x \in Nat /\ all \in Nat
    BY <1>6, <1>8, <2>1, Constants DEF Grown
  <2>3. n = IF x + 2 <= all THEN 2 ELSE IF x < all THEN all - x ELSE 0
    BY <1>6, <2>1 DEF UnitsOf, Block, Grown
  <2>4. x + n >= all \/ n < 2
    BY <1>2, <2>1, <2>2 DEF IsLastPart, ExpectedSize, Block
  <2>5. y = all
    BY <2>2, <2>3, <2>4
  <2> QED
    BY <2>1, <2>5
<1>10. downloadSession'[f] = NoSession /\ \A d \in Downloads : d # f => downloadSession'[d] = downloadSession[d]
  BY <1>3, <1>8 DEF BaseInv, DownloadsInv
<1>11. Received(b2, mInitialDownloadsMap, asked, finished', downloadSession')
  BY <1>2, <1>6, <1>8, <1>9, <1>10 DEF Grown, Received, BaseInv, DownloadsInv
<1> QED
  BY <1>7, <1>11

LEMMA PartAnswerOwn ==
  ASSUME BaseInv, OwnInv, NEW r \in calls, NEW atOnce \in BOOLEAN, PartAnswer(r, atOnce)
  PROVE  OwnInv'
<1>1. PICK f, s, rest, next, offline, id, lost, c, sent, b2, d :
        /\ f = mDownloadsMap[r.id] /\ s = downloadSession[f] /\ rest = MapRemove(mDownloadsMap, r.id)
        /\ next = Part(f, Len(bytes[f]) + Len(PartOf(r))) /\ c = calls \ {r}
        /\ offline = (State(manager, s) # "connected")
        /\ id = IF offline THEN Offline ELSE NewIds(c, {next})[next]
        /\ lost = (offline /\ Offline \in DOMAIN rest)
        /\ sent = IF offline THEN SendOffline(c, s, next) ELSE SendQueries(c, s, {next})
        /\ b2 = bytes' /\ d = calls'
  OBVIOUS
<1>2. /\ Taken(r)
      /\ offlines' = IF offline THEN offlines + 1 ELSE offlines
      /\ Puts(f, bytes, PartOf(r), b2)
      /\ mDownloadsMap' = MapInsert(rest, id, f)
      /\ downloadSession' = IF lost THEN [downloadSession EXCEPT ![rest[Offline]] = NoSession] ELSE downloadSession
      /\ d = Living(sent, manager')
      /\ UNCHANGED <<mInitialDownloadsMap, finished, asked>>
  BY <1>1 DEF PartAnswer, Puts
<1>3. SUFFICES ASSUME offlines' < 2
               PROVE  /\ Asks(d, mDownloadsMap', b2, offlines')
                      /\ Received(b2, mInitialDownloadsMap, asked, finished, downloadSession')
  BY <1>1, <1>2 DEF OwnInv
<1>4. offlines < 2 /\ (offline => offlines = 0 /\ offlines' = 1)
  <2>1. offlines \in Nat
    BY DEF BaseInv
  <2> QED
    BY <1>2, <1>3, <2>1
<1>5. /\ Asks(calls, mDownloadsMap, bytes, offlines)
      /\ Received(bytes, mInitialDownloadsMap, asked, finished, downloadSession)
  BY <1>4 DEF OwnInv
<1>6. Received(b2, mInitialDownloadsMap, asked, finished, downloadSession) /\ Grown(f, bytes, PartOf(r), b2)
  BY <1>1, <1>2, <1>5, AnswerGrown
<1>7. Asks(c, rest, b2, offlines) /\ DOMAIN rest \subseteq DOMAIN mDownloadsMap
  BY <1>1, <1>2, <1>5, <1>6, AnswerRest
<1>8. next.file = f /\ next.from = Len(b2[f])
  BY <1>1, <1>6 DEF Part, Grown
<1>9. PICK more : more = MapInsert(rest, id, f)
  OBVIOUS
<1>10. Asks(sent, more, b2, offlines')
  <2>1. CASE offline
    <3>1. Asks(c, rest, b2, 0) /\ sent = SendOffline(c, s, next) /\ more = MapInsert(rest, Offline, next.file)
      BY <1>1, <1>4, <1>7, <1>8, <1>9, <2>1
    <3>2. next.from = Len(b2[next.file])
      BY <1>8
    <3>3. Asks(sent, more, b2, 1)
      BY <3>1, <3>2, AsksOffline
    <3> QED
      BY <1>4, <2>1, <3>3
  <2>2. CASE ~offline
    <3>1. PICK parts, ids, k : parts = {next} /\ ids = NewIds(c, parts) /\ k = offlines
      OBVIOUS
    <3>2. sent = SendQueries(c, s, parts) /\ id = ids[next] /\ offlines' = k
      BY <1>1, <1>2, <2>2, <3>1
    <3>3. Sent(c, s, parts, ids, sent)
      <4>1. PICK m, e : m = manager /\ e = calls
        OBVIOUS
      <4>2. ManagerType(m) /\ CallsOk(e, m) /\ c \in SUBSET e
        BY <1>1, <4>1 DEF BaseInv
      <4>3. CallsOk(c, m)
        BY <4>2, CallsFewer, ManagerParts
      <4>4. IsFiniteSet(parts)
        BY <3>1, FS_Singleton
      <4> QED
        BY <3>1, <3>2, <4>3, <4>4, SentIs DEF BaseInv
    <3>4. Filed(rest, b2, parts, ids, more)
      BY <1>8, <1>9, <3>1, <3>2 DEF MapInsert, Filed
    <3>5. Asks(sent, more, b2, k)
      BY <1>7, <3>1, <3>3, <3>4, AsksSent
    <3> QED
      BY <3>2, <3>5
  <2> QED
    BY <2>1, <2>2
<1>11. Asks(d, more, b2, offlines')
  <2>1. d \in SUBSET sent /\ more = more
    BY <1>2 DEF Living
  <2>2. PICK k : k = offlines'
    OBVIOUS
  <2>3. Asks(sent, more, b2, k)
    BY <1>10, <2>2
  <2>4. Asks(d, more, b2, k)
    BY <2>1, <2>3, AsksFewer
  <2> QED
    BY <2>2, <2>4
<1>12. ~lost
  BY <1>1, <1>4, <1>7 DEF Asks
<1> QED
  BY <1>2, <1>6, <1>9, <1>11, <1>12

\* The parts of an upload are sent: to no download.
LEMMA PartsOwn ==
  ASSUME BaseInv, NEW m, NEW c, CallsOk(c, m), NEW map, NEW b, NEW k, Asks(c, map, b, k),
         DOMAIN map \subseteq DOMAIN mDownloadsMap,
         NEW n, NEW s, NEW e \in Engines, NEW d, d = SendParts(c, n, s, e)
  PROVE  /\ State(n, s) = "connected" => Asks(d, map, b, k)
         /\ State(n, s) # "connected" /\ k = 0 => Asks(d, map, b, 1)
<1>1. ASSUME State(n, s) = "connected"
      PROVE  Asks(d, map, b, k)
  <2>1. PICK parts, ids : parts = PartsOf(e) /\ ids = NewIds(c, parts)
    OBVIOUS
  <2>2. d = SendQueries(c, s, parts) /\ IsFiniteSet(parts)
    BY <1>1, <2>1, PartsAre DEF SendParts
  <2>3. Sent(c, s, parts, ids, d)
    BY <2>1, <2>2, SentIs DEF BaseInv
  <2>4. Filed(map, b, parts, ids, map)
    BY DEF Filed
  <2> QED
    BY <2>3, <2>4, AsksSent
<1>2. ASSUME State(n, s) # "connected", k = 0
      PROVE  Asks(d, map, b, 1)
  <2>1. PICK p : p = Part(e, Parts - 1)
    OBVIOUS
  <2>2. d = SendOffline(c, s, p) /\ Asks(c, map, b, 0) /\ map = map
    BY <1>2, <2>1 DEF SendParts
  <2> QED
    BY <2>2, AsksOffline
<1> QED
  BY <1>1, <1>2

LEMMA UploadSendFileOwn ==
  ASSUME BaseInv, OwnInv, NEW u \in Uploads, UploadSendFile(u)
  PROVE  OwnInv'
<1>1. PICK a, s, d, c : a = Acquire(manager, WorkingDc) /\ s = a.session /\ d = calls' /\ c = calls
  OBVIOUS
<1>2. UNCHANGED <<downloadVars, boundVars>> /\ asked \subseteq asked'
  BY DEF UploadSendFile
<1>3. CASE d = c
  BY <1>1, <1>2, <1>3, OwnFewer DEF downloadVars, boundVars
<1>4. CASE d # c
  <2>1. PICK e, n : e = FirstEngine(u) /\ n = a.manager
    OBVIOUS
  <2>2. State(n, s) = "connected" /\ d = SendParts(c, n, s, e)
    BY <1>1, <1>4, <2>1 DEF UploadSendFile
  <2>3. SUFFICES ASSUME offlines < 2
                 PROVE  /\ Asks(d, mDownloadsMap, bytes, offlines)
                        /\ Received(bytes, mInitialDownloadsMap, asked', finished, downloadSession)
    BY <1>1, <1>2 DEF OwnInv, downloadVars, boundVars
  <2>4. PICK m, map, b, k : m = manager /\ map = mDownloadsMap /\ b = bytes /\ k = offlines
    OBVIOUS
  <2>5. CallsOk(c, m) /\ Asks(c, map, b, k) /\ DOMAIN map \subseteq DOMAIN mDownloadsMap /\ e \in Engines
    BY <1>1, <2>1, <2>3, <2>4, FirstEngineIs DEF BaseInv, OwnInv
  <2>6. Asks(d, map, b, k)
    BY <2>2, <2>5, PartsOwn
  <2>7. Received(bytes, mInitialDownloadsMap, asked', finished, downloadSession)
    BY <1>2, <2>3 DEF OwnInv, Received
  <2> QED
    BY <2>4, <2>6, <2>7
<1> QED
  BY <1>3, <1>4

LEMMA ThumbnailResultOwn ==
  ASSUME BaseInv, OwnInv, NEW r \in calls, ThumbnailResult(r)
  PROVE  OwnInv'
<1>1. PICK s, c, d, e, m, b, map, k, l, q :
        /\ s = uploadSession[r.file.op] /\ c = calls \ {r} /\ e = Engine(r.file.op, "Main") /\ q = calls
        /\ m = manager /\ d = calls' /\ b = bytes /\ map = mDownloadsMap /\ k = offlines /\ l = offlines'
  OBVIOUS
<1>2. /\ r.file \in mUploadsMap /\ d = SendParts(c, m, s, e)
      /\ l = k + IF State(m, s) = "connected" THEN 0 ELSE 1
      /\ UNCHANGED <<downloadVars, asked>>
  BY <1>1 DEF ThumbnailResult, SaveFilePartResult
<1>3. SUFFICES ASSUME l < 2
               PROVE  /\ Asks(d, map, b, l)
                      /\ Received(bytes, mInitialDownloadsMap, asked, finished, downloadSession)
  BY <1>1, <1>2 DEF OwnInv, downloadVars
<1>4. k \in Nat
  BY <1>1 DEF BaseInv
<1>5. k < 2 /\ (State(m, s) = "connected" => l = k) /\ (State(m, s) # "connected" => k = 0 /\ l = 1)
  BY <1>2, <1>3, <1>4
<1>6. Asks(q, map, b, k) /\ Received(bytes, mInitialDownloadsMap, asked, finished, downloadSession)
  BY <1>1, <1>5 DEF OwnInv
<1>7. Asks(c, map, b, k)
  BY <1>1, <1>6, AsksFewer
<1>8. CallsOk(c, m)
  <2>1. ManagerType(m) /\ CallsOk(q, m) /\ c \in SUBSET q
    BY <1>1 DEF BaseInv
  <2> QED
    BY <2>1, CallsFewer, ManagerParts
<1>9. e \in Engines
  BY <1>1, <1>2, EngineIs DEF BaseInv, UploadsInv
<1>10. DOMAIN map \subseteq DOMAIN mDownloadsMap
  BY <1>1
<1>11. /\ State(m, s) = "connected" => Asks(d, map, b, k)
       /\ State(m, s) # "connected" /\ k = 0 => Asks(d, map, b, 1)
  BY <1>2, <1>7, <1>8, <1>9, <1>10, PartsOwn
<1> QED
  BY <1>5, <1>6, <1>11

\* A download that received nothing starts.
LEMMA StartOwn ==
  ASSUME BaseInv, NEW f \in Downloads, NEW m, NEW s, s # NoSession, NEW map, NEW c, CallsOk(c, manager),
         DOMAIN map \subseteq DOMAIN mDownloadsMap, NEW k, Asks(c, map, bytes, k),
         NEW more, asked \subseteq more, Received(bytes, mInitialDownloadsMap, asked, finished, downloadSession),
         Len(bytes[f]) = 0, f \notin finished, Start(f, m, s, map, c)
  PROVE  /\ Asks(calls', mDownloadsMap', bytes, k)
         /\ Received(bytes, mInitialDownloadsMap', more, finished, downloadSession')
<1>1. PICK p, parts, ids, d, b, after, replaced :
        /\ p = Part(f, 0) /\ parts = {p} /\ ids = NewIds(c, parts) /\ d = calls' /\ b = bytes /\ after = mDownloadsMap'
        /\ replaced = IF State(m, s) \notin {"connecting", "connected"} THEN MapSet(mInitialDownloadsMap, s) ELSE {}
  OBVIOUS
<1>2. \/ d = SendQueries(c, s, parts) /\ after = MapInsert(map, ids[p], f) /\ mInitialDownloadsMap' = mInitialDownloadsMap
      \/ /\ d = c /\ after = map
         /\ mInitialDownloadsMap' = MapInsert(mInitialDownloadsMap, s, {f} \cup (MapSet(mInitialDownloadsMap, s) \ replaced))
  BY <1>1 DEF Start
<1>3. Asks(d, after, b, k)
  <2>1. CASE d = SendQueries(c, s, parts) /\ after = MapInsert(map, ids[p], f)
    <3>1. IsFiniteSet(parts)
      BY <1>1, FS_Singleton
    <3>2. Sent(c, s, parts, ids, d)
      BY <1>1, <2>1, <3>1, SentIs DEF BaseInv
    <3>3. p.file = f /\ p.from = Len(b[f])
      BY <1>1 DEF Part
    <3>4. Filed(map, b, parts, ids, after)
      BY <1>1, <2>1, <3>3 DEF Filed, MapInsert
    <3>5. Asks(c, map, b, k)
      BY <1>1
    <3> QED
      BY <3>2, <3>4, <3>5, AsksSent
  <2>2. CASE d = c /\ after = map
    BY <1>1, <2>2
  <2> QED
    BY <1>2, <2>1, <2>2
<1>4. \A t \in DOMAIN mInitialDownloadsMap' : \A x \in mInitialDownloadsMap'[t] :
        Len(bytes[x]) = 0 \/ \E v \in DOMAIN mInitialDownloadsMap : x \in mInitialDownloadsMap[v]
  BY <1>2 DEF MapInsert, MapSet
<1>5. \A x \in finished : downloadSession[x] = NoSession => downloadSession'[x] = NoSession
  BY DEF Start, BaseInv, DownloadsInv
<1>6. Received(bytes, mInitialDownloadsMap', more, finished, downloadSession')
  BY <1>4, <1>5 DEF Received
<1> QED
  BY <1>1, <1>3, <1>6

LEMMA UploadGetFileOwn ==
  ASSUME BaseInv, OwnInv, NEW f \in Downloads, UploadGetFile(f)
  PROVE  OwnInv'
<1>1. PICK a, s, n : a = Acquire(manager, DcNum[f]) /\ s = a.session /\ n = ConnectSlot(a.manager, s, "rename")
  OBVIOUS
<1>2. f \notin asked /\ asked' = asked \cup {f} /\ UNCHANGED boundVars
  BY DEF UploadGetFile
<1>3. CASE s = NoSession
  <2>1. UNCHANGED <<downloadVars, calls>>
    BY <1>1, <1>3 DEF UploadGetFile
  <2> QED
    BY <1>2, <2>1, OwnFewer DEF downloadVars, boundVars
<1>4. CASE s # NoSession
  <2>1. Start(f, n, s, mDownloadsMap, calls) /\ UNCHANGED <<bytes, finished>>
    BY <1>1, <1>4 DEF UploadGetFile
  <2>2. SUFFICES ASSUME offlines < 2
                 PROVE  /\ Asks(calls', mDownloadsMap', bytes, offlines)
                        /\ Received(bytes, mInitialDownloadsMap', asked', finished, downloadSession')
    BY <1>2, <2>1 DEF OwnInv, boundVars
  <2>3. /\ Asks(calls, mDownloadsMap, bytes, offlines) /\ CallsOk(calls, manager) /\ asked \subseteq asked'
        /\ Received(bytes, mInitialDownloadsMap, asked, finished, downloadSession)
    BY <1>2, <2>2 DEF OwnInv, BaseInv
  <2>4. Len(bytes[f]) = 0 /\ f \notin finished
    BY <1>2, <2>3 DEF Received
  <2> QED
    BY <1>4, <2>1, <2>3, <2>4, StartOwn
<1> QED
  BY <1>3, <1>4

LEMMA MigrateAnswerOwn ==
  ASSUME BaseInv, OwnInv, NEW r \in calls, NEW dc \in DCs, NEW atOnce \in BOOLEAN, MigrateAnswer(r, dc, atOnce)
  PROVE  OwnInv'
<1>1. PICK f, m, a, c, rest, s, n :
        /\ f = mDownloadsMap[r.id] /\ m = Release(manager, downloadSession[f], atOnce)
        /\ a = Acquire(m, dc) /\ c = Living(calls \ {r}, m) /\ rest = MapRemove(mDownloadsMap, r.id)
        /\ s = a.session /\ n = a.manager
  OBVIOUS
<1>2. /\ Taken(r) /\ r.from = 0 /\ s # NoSession /\ Start(f, n, s, rest, c)
      /\ UNCHANGED <<bytes, finished, asked, offlines>>
  BY <1>1 DEF MigrateAnswer
<1>3. SUFFICES ASSUME offlines < 2
               PROVE  /\ Asks(calls', mDownloadsMap', bytes, offlines)
                      /\ Received(bytes, mInitialDownloadsMap', asked, finished, downloadSession')
  BY <1>2 DEF OwnInv
<1>4. /\ Asks(calls, mDownloadsMap, bytes, offlines)
      /\ Received(bytes, mInitialDownloadsMap, asked, finished, downloadSession)
  BY <1>3 DEF OwnInv
<1>5. f \in Downloads /\ Len(bytes[f]) = 0 /\ f \notin finished
  <2>1. r.file = f /\ r.from = Len(bytes[f]) /\ f \in Downloads /\ f \notin finished
    BY <1>1, <1>2, <1>4, TakenOwn
  <2> QED
    BY <1>2, <2>1
<1>6. Asks(c, rest, bytes, offlines) /\ DOMAIN rest \subseteq DOMAIN mDownloadsMap
  <2>1. PICK e, map, b, k : e = calls /\ map = mDownloadsMap /\ b = bytes /\ k = offlines
    OBVIOUS
  <2>2. Asks(e, map, b, k) /\ c \in SUBSET e /\ \E id : rest = MapRemove(map, id)
    BY <1>1, <1>4, <2>1 DEF Living
  <2>3. Asks(c, rest, b, k)
    BY <2>2, AsksFewer
  <2> QED
    BY <1>1, <2>1, <2>3 DEF MapRemove
<1>7. CallsOk(c, manager)
  <2>1. PICK e, k : e = calls /\ k = manager
    OBVIOUS
  <2>2. ManagerType(k) /\ CallsOk(e, k) /\ c \in SUBSET e
    BY <1>1, <2>1 DEF BaseInv, Living
  <2>3. CallsOk(c, k)
    BY <2>2, CallsFewer, ManagerParts
  <2> QED
    BY <2>1, <2>3
<1>8. asked \subseteq asked
  OBVIOUS
<1> QED
  BY <1>2, <1>4, <1>5, <1>6, <1>7, <1>8, StartOwn

LEMMA UpdateMessageIdOwn ==
  ASSUME BaseInv, OwnInv, NEW r \in calls, UpdateMessageId(r)
  PROVE  OwnInv'
<1>1. PICK part, id, moves, x, c, d, map, moved, b, k :
        /\ part = Part(r.file, r.from) /\ id = NewIds(calls, {part})[part]
        /\ moves = ("rename" \in manager.sockets[r.session].slots /\ r.id \in DOMAIN mDownloadsMap)
        /\ x = [r EXCEPT !.id = id] /\ c = calls /\ d = calls' /\ map = mDownloadsMap /\ moved = mDownloadsMap'
        /\ b = bytes /\ k = offlines
  OBVIOUS
<1>2. /\ d = (c \ {r}) \cup {x}
      /\ moved = IF moves THEN MapInsert(MapRemove(map, r.id), id, map[r.id]) ELSE map
      /\ UNCHANGED <<mInitialDownloadsMap, downloadSession, bytes, finished, asked, offlines>>
  BY <1>1 DEF UpdateMessageId
<1>3. SUFFICES ASSUME k < 2
               PROVE  Asks(d, moved, b, k)
  BY <1>1, <1>2 DEF OwnInv
<1>4. Asks(c, map, b, k) /\ r \in c
  BY <1>1, <1>3 DEF OwnInv
<1>5. id \in Nat \ {0} /\ id \notin DOMAIN map /\ \A q \in c : q.id # id
  BY <1>1, NewIdIs DEF BaseInv
<1>6. x.id = id /\ x.file = r.file /\ x.from = r.from
  BY <1>1 DEF BaseInv, CallsOk
<1>7. id # Offline /\ id \in Ids
  BY <1>5 DEF Offline, Ids
<1>8. \/ moved = map
      \/ r.id \in DOMAIN map /\ Moved(map, r.id, id, map[r.id], moved)
  <2>1. ASSUME moves
        PROVE  r.id \in DOMAIN map /\ Moved(map, r.id, id, map[r.id], moved)
    <3>1. PICK wait, session, o, f : wait = mInitialDownloadsMap /\ session = downloadSession /\ o = r.id /\ f = map[o]
      OBVIOUS
    <3>2. Placed(map, wait, session) /\ o \in DOMAIN map /\ moved = MapInsert(MapRemove(map, o), id, f)
      BY <1>1, <1>2, <2>1, <3>1 DEF BaseInv, DownloadsInv
    <3>3. Moved(map, o, id, f, moved)
      BY <1>7, <3>1, <3>2, PlacedMoved
    <3> QED
      BY <3>1, <3>2, <3>3
  <2>2. ASSUME ~moves
        PROVE  moved = map
    BY <1>2, <2>2
  <2> QED
    BY <2>1, <2>2
<1> QED
  BY <1>2, <1>4, <1>5, <1>6, <1>7, <1>8, AsksRenamed

LEMMA SessionReadyOwn ==
  ASSUME BaseInv, OwnInv, NEW s \in Sessions, SessionReady(s)
  PROVE  OwnInv'
<1>1. PICK ups, downs, parts, ids : Ready(s, ups, downs, parts, ids)
  BY ReadyIs
<1>2. PICK c, d, map, more, b, k :
        /\ c = calls /\ d = calls' /\ map = mDownloadsMap /\ more = mDownloadsMap' /\ b = bytes /\ k = offlines
  OBVIOUS
<1>3. /\ UNCHANGED <<bytes, asked, finished, downloadSession, offlines>> /\ parts = PartsFor(ups, downs)
      /\ more = WithIds(map, ids, downs) /\ Replaces(downs, mInitialDownloadsMap, s)
  BY <1>1, <1>2 DEF Ready, boundVars
<1>4. SUFFICES ASSUME k < 2
               PROVE  /\ Asks(d, more, b, k)
                      /\ Received(bytes, mInitialDownloadsMap', asked, finished, downloadSession)
  BY <1>2, <1>3 DEF OwnInv
<1>5. Asks(c, map, b, k) /\ Received(bytes, mInitialDownloadsMap, asked, finished, downloadSession)
  BY <1>2, <1>4 DEF OwnInv
<1>6. ups \in SUBSET Engines /\ downs \in SUBSET Downloads /\ Sent(c, s, parts, ids, d)
  BY <1>1, <1>2, SessionReadyBase
<1>7. \A f \in downs : Part(f, 0) \in parts
  <2>1. PartsAreFor(ups, downs, parts)
    BY <1>3, <1>6, ReadyParts
  <2> QED
    BY <2>1 DEF PartsAreFor
<1>8. \A f \in downs : Len(b[f]) = 0
  BY <1>2, <1>3, <1>5 DEF Replaces, MapSet, Received
<1>9. Filed(map, b, parts, ids, more)
  <2>1. ASSUME NEW i \in DOMAIN more
        PROVE  \/ i \in DOMAIN map /\ more[i] = map[i]
               \/ \E p \in parts : i = ids[p] /\ more[i] = p.file /\ p.from = Len(b[p.file])
    <3>1. CASE i \in DOMAIN map
      BY <1>3, <3>1 DEF WithIds
    <3>2. CASE i \notin DOMAIN map
      <4>1. /\ \E f \in downs : ids[Part(f, 0)] = i
            /\ more[i] = CHOOSE f \in downs : ids[Part(f, 0)] = i
        BY <1>3, <3>2 DEF WithIds
      <4>2. PICK f \in downs : f = more[i] /\ ids[Part(f, 0)] = i
        BY <4>1
      <4>3. PICK p \in parts : p = Part(f, 0)
        BY <1>7
      <4>4. p.file = f /\ p.from = Len(b[f])
        BY <1>8, <4>3 DEF Part
      <4> QED
        BY <4>2, <4>3, <4>4
    <3> QED
      BY <3>1, <3>2
  <2> QED
    BY <2>1 DEF Filed
<1>10. Asks(d, more, b, k)
  <2>1. DOMAIN map \subseteq DOMAIN mDownloadsMap
    BY <1>2
  <2> QED
    BY <1>5, <1>6, <1>9, <2>1, AsksSent
<1>11. \/ mInitialDownloadsMap' = mInitialDownloadsMap
       \/ mInitialDownloadsMap' = MapRemove(mInitialDownloadsMap, s)
  <2>1. \/ downs = {} /\ mInitialDownloadsMap' = mInitialDownloadsMap
        \/ downs = MapSet(mInitialDownloadsMap, s) /\ mInitialDownloadsMap' = MapRemove(mInitialDownloadsMap, s)
    BY <1>1, Zenon DEF Ready
  <2> QED
    BY <2>1
<1>12. Received(bytes, mInitialDownloadsMap', asked, finished, downloadSession)
  BY <1>5, <1>11 DEF Received, MapRemove
<1> QED
  BY <1>10, <1>12

LEMMA OwnInit ==
  ASSUME Init
  PROVE  OwnInv
<1>1. calls = {} /\ mDownloadsMap = EmptyMap /\ mInitialDownloadsMap = EmptyMap /\ asked = {} /\ finished = {}
  BY DEF Init
<1>2. \A d \in Downloads : bytes[d] = <<>>
  BY DEF Init
<1>3. ASSUME NEW d \in Downloads
      PROVE  Len(bytes[d]) = 0 /\ bytes[d] = [i \in 1..Len(bytes[d]) |-> <<d, i>>] /\ Len(bytes[d]) <= Length[d]
  <2>1. Len(bytes[d]) = 0 /\ bytes[d] = <<>> /\ Length[d] \in Nat
    BY <1>2, Constants
  <2>2. <<>> = [i \in 1..0 |-> <<d, i>>]
    OBVIOUS
  <2> QED
    BY <2>1, <2>2
<1> QED
  BY <1>1, <1>3 DEF OwnInv, Asks, Received, EmptyMap

LEMMA NextOwn ==
  ASSUME BaseInv, OwnInv, Next
  PROVE  OwnInv'
<1>1. CASE \E u \in Uploads : UploadSendFile(u)
  BY <1>1, UploadSendFileOwn
<1>2. CASE \E f \in Downloads : UploadGetFile(f) \/ UploadCancelFile(f)
  BY <1>2, UploadGetFileOwn, FewerOwn
<1>3. CASE \E r \in calls, atOnce \in BOOLEAN : AnswerReceived(r, atOnce)
  <2>1. PICK r \in calls, atOnce \in BOOLEAN : AnswerReceived(r, atOnce)
    BY <1>3
  <2>2. CASE PartResult(r) \/ MainResult(r, atOnce)
    BY <2>2, FewerOwn
  <2>3. CASE ThumbnailResult(r)
    BY <2>3, ThumbnailResultOwn
  <2>4. CASE CancelledAnswer(r, atOnce)
    BY <2>4, CancelledAnswerOwn
  <2>5. CASE LastAnswer(r, atOnce)
    BY <2>5, LastAnswerOwn
  <2>6. CASE PartAnswer(r, atOnce)
    BY <2>6, PartAnswerOwn
  <2> QED
    BY <2>1, <2>2, <2>3, <2>4, <2>5, <2>6 DEF AnswerReceived
<1>4. CASE \E r \in calls, atOnce \in BOOLEAN, dc \in DCs : MigrateAnswer(r, dc, atOnce)
  BY <1>4, MigrateAnswerOwn
<1>5. CASE \E r \in calls : UnheardQuery(r) \/ UpdateMessageId(r)
  BY <1>5, UpdateMessageIdOwn, FewerOwn
<1>6. CASE \E s \in Sessions : SessionReady(s) \/ ConnectionLost(s) \/ Reconnect(s) \/ SessionClosed(s)
  BY <1>6, SessionReadyOwn, FewerOwn
<1>7. CASE \/ \E dc \in TransferDcs : TransferAuth(dc)
           \/ \E dc \in TransferDcs, atOnce \in BOOLEAN : TransferEnds(dc, atOnce)
  BY <1>7, FewerOwn
<1> QED
  BY <1>1, <1>2, <1>3, <1>4, <1>5, <1>6, <1>7 DEF Next

LEMMA StutterOwn ==
  ASSUME OwnInv, UNCHANGED vars
  PROVE  OwnInv'
BY OwnFewer DEF vars

LEMMA AlwaysOwn == Spec => []OwnInv
<1>1. Init => OwnInv
  BY OwnInit
<1>2. BaseInv /\ OwnInv /\ [Next]_vars => OwnInv'
  BY NextOwn, StutterOwn
<1>3. Inv => BaseInv
  BY DEF Inv
<1> QED
  BY <1>1, <1>2, <1>3, AlwaysInv, PTL DEF Spec

LEMMA OwnDownloads ==
  ASSUME OwnInv
  PROVE  DownloadsAreOwn
BY DEF OwnInv, Received, DownloadsAreOwn

\* What a download received is a beginning of its own file, and all of it when
\* the end is reported, through renamed queries, cancelled downloads, sessions
\* that migrate or are lost (file/filehandler.cpp:305), for any number of
\* files of any length, as long as no two parts were asked for without a
\* connection.
THEOREM DownloadsCorrect == Spec => []DownloadsAreOwn
BY AlwaysOwn, OwnDownloads, PTL

-----------------------------------------------------------------------------
(* The counts of the sessions.                                             *)

\* A file or a transfer of the authorization, and the session it uses.
User(kind, x, s) == [kind |-> kind, of |-> x, session |-> s]
UsersOf(U, s)    == {p \in U : p.session = s}

\* The DC counts the users of its session s, which is open.
Serves(m, U, dc, s) ==
  /\ s \in m.files /\ m.sockets[s].state \in Opened /\ m.sockets[s].dc = dc
  /\ UsersOf(U, s) # {} /\ m.counts[dc] = Cardinality(UsersOf(U, s))

\* Every user has the session of its DC, and every DC with one counts its users.
Belongs(m, p)  == p.session \in DOMAIN m.sockets /\ m.ids[m.sockets[p.session].dc] = p.session
CountsOf(m, U, dc) ==
  /\ m.ids[dc] = NoSession => m.counts[dc] = 0
  /\ m.ids[dc] # NoSession => Serves(m, U, dc, m.ids[dc])
CountsOk(m, U) ==
  /\ IsFiniteSet(U) /\ \A p \in U : Belongs(m, p)
  /\ \A dc \in DCs : CountsOf(m, U, dc)

\* The sessions open in m are open in n, and counted alike.
Kept(m, n) ==
  /\ Later(m, n) /\ n.counts = m.counts /\ n.ids = m.ids
  /\ \A t \in m.files : m.sockets[t].state \in Opened => t \in n.files /\ n.sockets[t].state \in Opened

LEMMA CountsKept ==
  ASSUME NEW m, ManagerType(m), NEW U, CountsOk(m, U), NEW n, Kept(m, n)
  PROVE  CountsOk(n, U)
<1>1. ASSUME NEW p \in U
      PROVE  Belongs(n, p)
  BY DEF CountsOk, Belongs, Kept, Later
<1>2. ASSUME NEW dc \in DCs
      PROVE  CountsOf(n, U, dc)
  <2>1. CASE m.ids[dc] = NoSession
    BY <2>1 DEF CountsOk, CountsOf, Kept
  <2>2. CASE m.ids[dc] # NoSession
    <3>1. PICK s : s = m.ids[dc]
      OBVIOUS
    <3>2. Serves(m, U, dc, s) /\ n.ids[dc] = s
      BY <2>2, <3>1 DEF CountsOk, CountsOf, Kept
    <3>3. s \in DOMAIN m.sockets
      BY <3>2, ManagerParts DEF Serves
    <3>4. Serves(n, U, dc, s)
      BY <3>2, <3>3 DEF Serves, Kept, Later
    <3> QED
      BY <2>2, <3>1, <3>2, <3>4 DEF CountsOf
  <2> QED
    BY <2>1, <2>2
<1> QED
  BY <1>1, <1>2 DEF CountsOk

LEMMA ReachedKept ==
  ASSUME NEW m, ManagerType(m), NEW n, Reached(m, n)
  PROVE  Kept(m, n)
BY ManagerParts DEF Reached, Kept

\* The step is about another session than that of the DC.
LEMMA CountsAside ==
  ASSUME NEW m, ManagerType(m), NEW U, CountsOk(m, U), NEW n, Later(m, n), NEW V,
         NEW dc \in DCs, n.counts[dc] = m.counts[dc], n.ids[dc] = m.ids[dc],
         NEW s, m.ids[dc] # s,
         \A t \in m.files : t # s => t \in n.files /\ n.sockets[t] = m.sockets[t],
         \A t : t # s => UsersOf(V, t) = UsersOf(U, t)
  PROVE  CountsOf(n, V, dc)
<1>1. CASE m.ids[dc] = NoSession
  BY <1>1 DEF CountsOk, CountsOf
<1>2. CASE m.ids[dc] # NoSession
  <2>1. PICK t : t = m.ids[dc]
    OBVIOUS
  <2>2. Serves(m, U, dc, t) /\ n.ids[dc] = t /\ t # s
    BY <1>2, <2>1 DEF CountsOk, CountsOf
  <2>3. UsersOf(V, t) = UsersOf(U, t) /\ t \in n.files /\ n.sockets[t] = m.sockets[t]
    BY <2>2 DEF Serves
  <2>4. Serves(n, V, dc, t)
    BY <2>2, <2>3 DEF Serves
  <2> QED
    BY <1>2, <2>1, <2>2, <2>4 DEF CountsOf
<1> QED
  BY <1>1, <1>2

\* The session handed out is counted with its new user.
LEMMA CountsAcquired ==
  ASSUME NEW m, ManagerType(m), NEW U, CountsOk(m, U), NEW dc \in DCs, NEW a, Acquired(m, dc, a),
         NEW p, p.session = a.session, p \notin U
  PROVE  a.session # NoSession /\ CountsOk(a.manager, U \cup {p})
<1>1. PICK n, s, V : n = a.manager /\ s = a.session /\ V = U \cup {p}
  OBVIOUS
<1>2. IsFiniteSet(U) /\ IsFiniteSet(V)
  BY <1>1, FS_AddElement DEF CountsOk
<1>3. /\ Later(m, n) /\ \A t \in DOMAIN m.sockets : n.sockets[t] = m.sockets[t]
      /\ \A t \in m.files : t \in n.files
      /\ \A e \in DCs : e # dc => n.counts[e] = m.counts[e] /\ n.ids[e] = m.ids[e]
      /\ n.counts[dc] = m.counts[dc] + 1
  BY <1>1 DEF Acquired
<1>4. ASSUME NEW t
      PROVE  IsFiniteSet(UsersOf(U, t)) /\ Cardinality(UsersOf(U, t)) \in Nat
  <2>1. UsersOf(U, t) \in SUBSET U
    BY DEF UsersOf
  <2> QED
    BY <1>2, <2>1, FS_Subset, FS_CardinalityType
<1>5. \A t : t # s => UsersOf(V, t) = UsersOf(U, t)
  BY <1>1 DEF UsersOf
<1>6. UsersOf(V, s) = UsersOf(U, s) \cup {p} /\ p \notin UsersOf(U, s)
  BY <1>1 DEF UsersOf
<1>7. s # NoSession /\ n.ids[dc] = s /\ Serves(n, V, dc, s) /\ s \in DOMAIN n.sockets
      /\ \A e \in DCs : e # dc => m.ids[e] # s
  <2>1. CASE m.counts[dc] = 0
    <3>1. /\ s \notin DOMAIN m.sockets /\ s # NoSession /\ n.ids[dc] = s /\ s \in n.files
          /\ n.sockets[s].dc = dc /\ n.sockets[s].state = "unconnected"
      BY <1>1, <2>1 DEF Acquired
    <3>2. UsersOf(U, s) = {}
      BY <3>1 DEF UsersOf, CountsOk, Belongs
    <3>3. UsersOf(V, s) = {p} /\ Cardinality(UsersOf(V, s)) = 1
      BY <1>6, <3>2, FS_Singleton
    <3>4. n.counts[dc] = 1
      BY <1>3, <2>1
    <3>5. s \in DOMAIN n.sockets
      BY <1>1, <3>1 DEF Acquired, ManagerType
    <3>6. \A e \in DCs : m.ids[e] # s
      BY <3>1 DEF ManagerType
    <3> QED
      BY <3>1, <3>3, <3>4, <3>5, <3>6 DEF Serves, Opened
  <2>2. CASE m.counts[dc] # 0
    <3>1. PICK t : t = m.ids[dc]
      OBVIOUS
    <3>2. t # NoSession /\ Serves(m, U, dc, t)
      BY <2>2, <3>1 DEF CountsOk, CountsOf
    <3>3. t \in m.files /\ t \in DOMAIN m.sockets
      BY <3>2, ManagerParts DEF Serves
    <3>4. s = t /\ n.ids[dc] = s /\ DOMAIN n.sockets = DOMAIN m.sockets
      BY <1>1, <2>2, <3>1, <3>3 DEF Acquired
    <3>5. Cardinality(UsersOf(V, s)) = Cardinality(UsersOf(U, s)) + 1
      BY <1>4, <1>6, FS_AddElement
    <3>6. Serves(n, V, dc, s)
      BY <1>3, <1>6, <3>2, <3>3, <3>4, <3>5 DEF Serves
    <3>7. ASSUME NEW e \in DCs, e # dc
          PROVE  m.ids[e] # s
      BY <3>2, <3>4, <3>7 DEF CountsOk, CountsOf, Serves
    <3> QED
      BY <3>2, <3>3, <3>4, <3>6, <3>7
  <2> QED
    BY <2>1, <2>2
<1>8. ASSUME NEW e \in DCs
      PROVE  CountsOf(n, V, e)
  <2>1. CASE e = dc
    BY <1>7, <2>1 DEF CountsOf
  <2>2. CASE e # dc
    <3>1. \A t \in m.files : t # s => t \in n.files /\ n.sockets[t] = m.sockets[t]
      BY <1>3, ManagerParts
    <3> QED
      BY <1>3, <1>5, <1>7, <2>2, <3>1, CountsAside
  <2> QED
    BY <2>1, <2>2
<1>9. ASSUME NEW q \in V
      PROVE  Belongs(n, q)
  <2>1. CASE q = p
    <3>1. n.sockets[s].dc = dc
      BY <1>7 DEF Serves
    <3> QED
      BY <1>1, <1>7, <2>1, <3>1 DEF Belongs
  <2>2. CASE q \in U
    <3>1. PICK t, e : t = q.session /\ e = m.sockets[t].dc
      OBVIOUS
    <3>2. t \in DOMAIN m.sockets /\ m.ids[e] = t
      BY <2>2, <3>1 DEF CountsOk, Belongs
    <3>3. t \in DOMAIN n.sockets /\ n.sockets[t].dc = e /\ e \in DCs
      BY <1>3, <3>1, <3>2, DcOf DEF Later
    <3>4. CASE e # dc
      BY <1>3, <3>1, <3>2, <3>3, <3>4 DEF Belongs
    <3>5. CASE e = dc
      <4>1. t # NoSession
        BY <3>2, ManagerParts
      <4>2. m.counts[dc] # 0
        <5>1. Serves(m, U, dc, t)
          BY <3>2, <3>5, <4>1 DEF CountsOk, CountsOf
        <5> QED
          BY <1>4, <5>1, FS_EmptySet DEF Serves
      <4>3. n.ids[dc] = m.ids[dc]
        BY <1>1, <4>2 DEF Acquired
      <4> QED
        BY <3>1, <3>2, <3>3, <3>5, <4>3 DEF Belongs
    <3> QED
      BY <3>4, <3>5
  <2> QED
    BY <1>1, <2>1, <2>2
<1> QED
  BY <1>1, <1>2, <1>7, <1>8, <1>9 DEF CountsOk

\* The session s is released for its users R.
LEMMA CountsFreed ==
  ASSUME NEW m, ManagerType(m), NEW U, CountsOk(m, U), NEW s, UsersOf(U, s) # {},
         NEW R \in SUBSET UsersOf(U, s), NEW k, k = Cardinality(R), NEW n, Freed(m, s, k, n)
  PROVE  CountsOk(n, U \ R)
<1>1. PICK V, A, B : V = U \ R /\ A = UsersOf(U, s) /\ B = UsersOf(V, s)
  OBVIOUS
<1>2. PICK p \in U : p.session = s
  BY DEF UsersOf
<1>3. PICK dc \in DCs : /\ dc = m.sockets[s].dc /\ m.counts[dc] \in Int /\ m.ids[dc] = s
                        /\ s \in DOMAIN m.sockets /\ s # NoSession
  <2>1. Belongs(m, p)
    BY DEF CountsOk
  <2>2. s \in DOMAIN m.sockets /\ m.ids[m.sockets[s].dc] = s
    BY <1>2, <2>1 DEF Belongs
  <2> QED
    BY <2>2, DcOf, ManagerParts
<1>4. s \in m.files /\ m.sockets[s].state \in Opened /\ m.counts[dc] = Cardinality(A)
  <2>1. Serves(m, U, dc, s)
    BY <1>3 DEF CountsOk, CountsOf
  <2> QED
    BY <1>1, <2>1 DEF Serves
<1>5. IsFiniteSet(V) /\ IsFiniteSet(A) /\ IsFiniteSet(R)
  <2>1. IsFiniteSet(U) /\ V \in SUBSET U /\ A \in SUBSET U /\ R \in SUBSET U
    BY <1>1 DEF CountsOk, UsersOf
  <2> QED
    BY <2>1, FS_Subset
<1>6. PICK x, y, z : /\ x = Cardinality(A) /\ y = Cardinality(R) /\ z = Cardinality(B)
                     /\ x \in Nat /\ y \in Nat /\ z \in Nat /\ z = x - y /\ (x = y => B = {}) /\ (z > 0 => B # {})
  <2>1. B = A \ R /\ R = A \cap R /\ R \in SUBSET A
    BY <1>1 DEF UsersOf
  <2>2. IsFiniteSet(B) /\ Cardinality(B) = Cardinality(A) - Cardinality(A \cap R)
    BY <1>5, <2>1, FS_Difference
  <2>3. Cardinality(A) = Cardinality(R) => A = R
    BY <1>5, <2>1, FS_Subset
  <2>4. /\ Cardinality(A) \in Nat /\ Cardinality(R) \in Nat /\ Cardinality(B) \in Nat
        /\ Cardinality(B) = 0 <=> B = {}
    BY <1>5, <2>2, FS_CardinalityType, FS_EmptySet
  <2> QED
    BY <2>1, <2>2, <2>3, <2>4
<1>7. x > 0 /\ m.counts[dc] = x /\ k = y
  <2>1. x # 0
    BY <1>1, <1>5, <1>6, FS_EmptySet
  <2> QED
    BY <1>1, <1>4, <1>6, <2>1
<1>8. /\ Later(m, n) /\ \A t \in DOMAIN m.sockets : t # s => n.sockets[t] = m.sockets[t]
      /\ \A t \in m.files : t # s => t \in n.files
      /\ \A e \in DCs : e # dc => n.counts[e] = m.counts[e] /\ n.ids[e] = m.ids[e]
      /\ n.counts[dc] = x - y
      /\ x # y => n.ids[dc] = s /\ n.sockets[s] = m.sockets[s] /\ s \in n.files
      /\ x = y => n.ids[dc] = NoSession
  <2>1. m.counts[dc] >= k
    BY <1>6, <1>7
  <2>2. x = y => y > 0
    BY <1>6, <1>7
  <2> QED
    BY <1>3, <1>4, <1>7, <2>1, <2>2 DEF Freed
<1>9. \A t : t # s => UsersOf(V, t) = UsersOf(U, t)
  BY <1>1 DEF UsersOf
<1>10. ASSUME NEW e \in DCs
       PROVE  CountsOf(n, V, e)
  <2>1. CASE e # dc
    <3>1. m.ids[e] # s
      BY <1>3, <2>1 DEF CountsOk, CountsOf, Serves
    <3>2. \A t \in m.files : t # s => t \in n.files /\ n.sockets[t] = m.sockets[t]
      BY <1>8, ManagerParts
    <3> QED
      BY <1>8, <1>9, <2>1, <3>1, <3>2, CountsAside
  <2>2. CASE e = dc /\ x = y
    BY <1>6, <1>8, <2>2 DEF CountsOf
  <2>3. CASE e = dc /\ x # y
    <3>1. B # {} /\ n.counts[dc] = z
      BY <1>6, <1>8, <2>3
    <3>2. n.sockets[s].dc = dc /\ n.sockets[s].state \in Opened
      BY <1>3, <1>4, <1>8, <2>3
    <3>3. Serves(n, V, dc, s)
      BY <1>1, <1>6, <1>8, <2>3, <3>1, <3>2 DEF Serves
    <3> QED
      BY <1>3, <1>8, <2>3, <3>3 DEF CountsOf
  <2> QED
    BY <2>1, <2>2, <2>3
<1>11. ASSUME NEW q \in V
       PROVE  Belongs(n, q)
  <2>1. PICK t, e : t = q.session /\ e = m.sockets[t].dc
    OBVIOUS
  <2>2. t \in DOMAIN m.sockets /\ m.ids[e] = t
    BY <1>1, <2>1 DEF CountsOk, Belongs
  <2>3. t \in DOMAIN n.sockets /\ n.sockets[t].dc = e /\ e \in DCs
    BY <1>8, <2>1, <2>2, DcOf DEF Later
  <2>4. CASE e # dc
    BY <1>8, <2>1, <2>2, <2>3, <2>4 DEF Belongs
  <2>5. CASE e = dc
    <3>1. t = s
      BY <1>3, <2>2, <2>5
    <3>2. q \in B
      BY <1>1, <2>1, <3>1 DEF UsersOf
    <3>3. x # y
      BY <1>6, <3>2
    <3> QED
      BY <1>8, <2>1, <2>2, <2>3, <2>5, <3>1, <3>3 DEF Belongs
  <2> QED
    BY <2>4, <2>5
<1> QED
  BY <1>1, <1>5, <1>10, <1>11 DEF CountsOk

-----------------------------------------------------------------------------
(* The users.                                                              *)

DownloadUsers(session)    == {User("download", d, session[d]) : d \in {x \in Downloads : session[x] # NoSession}}
UploadUsers(map, session) == {User("upload", e.op, session[e.op]) : e \in map}
TransferUsers(t)          == {User("transfer", dc, t[dc]) : dc \in DOMAIN t}
AllUsers(session, map, uploads, t) == DownloadUsers(session) \cup UploadUsers(map, uploads) \cup TransferUsers(t)
Users     == AllUsers(downloadSession, mUploadsMap, uploadSession, transfers)
CountsInv == CountsOk(manager, Users)

LEMMA UserIs ==
  ASSUME NEW kind, NEW x, NEW s, NEW l, NEW y, NEW t
  PROVE  /\ User(kind, x, s).kind = kind /\ User(kind, x, s).of = x /\ User(kind, x, s).session = s
         /\ User(kind, x, s) = User(l, y, t) => kind = l /\ x = y /\ s = t
BY DEF User

\* One kind of users is that of a state where one of them comes or goes.
LEMMA DownloadGoes ==
  ASSUME NEW session, DOMAIN session = Downloads, NEW f \in Downloads, session[f] # NoSession,
         NEW after, after = [session EXCEPT ![f] = NoSession]
  PROVE  /\ User("download", f, session[f]) \in DownloadUsers(session)
         /\ DownloadUsers(after) = DownloadUsers(session) \ {User("download", f, session[f])}
<1>1. PICK p : p = User("download", f, session[f])
  OBVIOUS
<1>2. p \in DownloadUsers(session)
  BY <1>1 DEF DownloadUsers
<1>3. ASSUME NEW q \in DownloadUsers(after)
      PROVE  q \in DownloadUsers(session) /\ q # p
  <2>1. PICK d \in Downloads : after[d] # NoSession /\ q = User("download", d, after[d])
    BY <1>3 DEF DownloadUsers
  <2>2. d # f /\ after[d] = session[d]
    BY <2>1
  <2>3. q \in DownloadUsers(session)
    BY <2>1, <2>2 DEF DownloadUsers
  <2> QED
    BY <1>1, <2>1, <2>2, <2>3, UserIs
<1>4. ASSUME NEW q \in DownloadUsers(session), q # p
      PROVE  q \in DownloadUsers(after)
  <2>1. PICK d \in Downloads : session[d] # NoSession /\ q = User("download", d, session[d])
    BY <1>4 DEF DownloadUsers
  <2>2. d # f /\ after[d] = session[d]
    BY <1>1, <1>4, <2>1
  <2> QED
    BY <2>1, <2>2 DEF DownloadUsers
<1> QED
  BY <1>1, <1>2, <1>3, <1>4


\* One user less, and the download f without a session.
LEMMA CountsLeft ==
  ASSUME NEW m, ManagerType(m), NEW U, CountsOk(m, U), NEW p \in U, NEW n, Freed(m, p.session, 1, n)
  PROVE  CountsOk(n, U \ {p})
<1>1. PICK s, R, k : s = p.session /\ R = {p} /\ k = Cardinality(R)
  OBVIOUS
<1>2. R \in SUBSET UsersOf(U, s) /\ UsersOf(U, s) # {}
  BY <1>1 DEF UsersOf
<1>3. k = 1
  BY <1>1, FS_Singleton
<1>4. CountsOk(n, U \ R)
  BY <1>1, <1>2, <1>3, CountsFreed
<1> QED
  BY <1>1, <1>4

LEMMA DownloadLeft ==
  ASSUME NEW m, ManagerType(m), NEW session, NEW map, NEW u, NEW t, CountsOk(m, AllUsers(session, map, u, t)),
         DOMAIN session = Downloads, NEW f \in Downloads, session[f] # NoSession,
         NEW n, Freed(m, session[f], 1, n), NEW after, after = [session EXCEPT ![f] = NoSession]
  PROVE  CountsOk(n, AllUsers(after, map, u, t))
<1>1. PICK U, p : U = AllUsers(session, map, u, t) /\ p = User("download", f, session[f])
  OBVIOUS
<1>2. p \in DownloadUsers(session) /\ DownloadUsers(after) = DownloadUsers(session) \ {p}
  BY <1>1, DownloadGoes
<1>3. p \notin UploadUsers(map, u) /\ p \notin TransferUsers(t)
  BY <1>1, UserIs DEF UploadUsers, TransferUsers
<1>4. p \in U /\ AllUsers(after, map, u, t) = U \ {p}
  BY <1>1, <1>2, <1>3 DEF AllUsers
<1>5. p.session = session[f]
  BY <1>1, UserIs
<1>6. CountsOk(m, U) /\ Freed(m, p.session, 1, n)
  BY <1>1, <1>5
<1>7. CountsOk(n, U \ {p})
  BY <1>4, <1>6, CountsLeft
<1> QED
  BY <1>4, <1>7

\* The step destroys the download f.
DownloadEnds(f) ==
  /\ downloadSession[f] \in Sessions /\ Freed(manager, downloadSession[f], 1, manager')
  /\ downloadSession' = [downloadSession EXCEPT ![f] = NoSession]
  /\ UNCHANGED <<mUploadsMap, uploadSession, transfers>>

LEMMA DownloadEndsCounts ==
  ASSUME BaseInv, CountsInv, NEW f \in Downloads, DownloadEnds(f)
  PROVE  CountsInv'
<1>1. PICK m, n, session, after, map, u, t :
        /\ m = manager /\ n = manager' /\ session = downloadSession /\ after = downloadSession'
        /\ map = mUploadsMap /\ u = uploadSession /\ t = transfers
  OBVIOUS
<1>2. /\ ManagerType(m) /\ DOMAIN session = Downloads /\ session[f] # NoSession
      /\ Freed(m, session[f], 1, n) /\ after = [session EXCEPT ![f] = NoSession]
  BY <1>1, ManagerParts DEF BaseInv, DownloadsInv, DownloadEnds, Sessions
<1>3. CountsOk(m, AllUsers(session, map, u, t))
  BY <1>1 DEF CountsInv, Users
<1>4. CountsOk(n, AllUsers(after, map, u, t))
  BY <1>2, <1>3, DownloadLeft
<1>5. mUploadsMap' = map /\ uploadSession' = u /\ transfers' = t
  BY <1>1 DEF DownloadEnds
<1> QED
  BY <1>1, <1>4, <1>5 DEF CountsInv, Users

LEMMA AnswerCounts ==
  ASSUME BaseInv, CountsInv, NEW r \in calls, NEW atOnce \in BOOLEAN,
         CancelledAnswer(r, atOnce) \/ LastAnswer(r, atOnce)
  PROVE  CountsInv'
<1>1. PICK f : f = mDownloadsMap[r.id]
  OBVIOUS
<1>2. Taken(r) /\ Destroy(r, f, atOnce) /\ UNCHANGED <<uploadVars, transfers>>
  BY <1>1 DEF CancelledAnswer, LastAnswer
<1>3. f \in Downloads /\ downloadSession[f] \in Sessions
  BY <1>1, <1>2, TakenIs
<1>4. Freed(manager, downloadSession[f], 1, manager')
  BY <1>1, CancelledAnswerBase, LastAnswerBase
<1>5. DownloadEnds(f)
  BY <1>2, <1>3, <1>4 DEF DownloadEnds, Destroy, uploadVars
<1> QED
  BY <1>3, <1>5, DownloadEndsCounts

\* The step changes no user, and keeps the sessions.
LEMMA KeptCounts ==
  ASSUME BaseInv, CountsInv, Kept(manager, manager'), UNCHANGED <<downloadSession, mUploadsMap, uploadSession, transfers>>
  PROVE  CountsInv'
<1>1. PICK m, n, U : m = manager /\ n = manager' /\ U = Users
  OBVIOUS
<1>2. Users' = U
  BY <1>1 DEF Users, AllUsers, DownloadUsers, UploadUsers, TransferUsers
<1>3. CountsOk(n, U)
  BY <1>1, CountsKept DEF BaseInv, CountsInv
<1> QED
  BY <1>1, <1>2, <1>3 DEF CountsInv

LEMMA AsideCounts ==
  ASSUME BaseInv, CountsInv, UNCHANGED <<manager, downloadSession, mUploadsMap, uploadSession, transfers>>
  PROVE  CountsInv'
<1>1. Kept(manager, manager')
  BY ManagerParts DEF BaseInv, Kept
<1> QED
  BY <1>1, KeptCounts

LEMMA PartAnswerCounts ==
  ASSUME BaseInv, CountsInv, NEW r \in calls, NEW atOnce \in BOOLEAN, PartAnswer(r, atOnce)
  PROVE  CountsInv'
<1>1. UNCHANGED <<mUploadsMap, uploadSession, transfers>>
  BY DEF PartAnswer, uploadVars
<1>2. \/ UNCHANGED <<manager, downloadSession>>
      \/ \E d \in Downloads :
           /\ downloadSession[d] \in Sessions /\ Freed(manager, downloadSession[d], 1, manager')
           /\ downloadSession' = [downloadSession EXCEPT ![d] = NoSession]
  BY PartAnswerBase
<1>3. CASE UNCHANGED <<manager, downloadSession>>
  BY <1>1, <1>3, AsideCounts
<1>4. CASE \E d \in Downloads : DownloadEnds(d)
  BY <1>4, DownloadEndsCounts
<1> QED
  BY <1>1, <1>2, <1>3, <1>4 DEF DownloadEnds

\* Steps that change no user and no count.
Idle == \/ \E r \in calls : PartResult(r) \/ ThumbnailResult(r) \/ UnheardQuery(r) \/ UpdateMessageId(r)
        \/ \E f \in Downloads : UploadCancelFile(f)

LEMMA IdleCounts ==
  ASSUME BaseInv, CountsInv, Idle
  PROVE  CountsInv'
<1>1. UNCHANGED <<manager, downloadSession, mUploadsMap, uploadSession, transfers>>
  BY DEF Idle, PartResult, ThumbnailResult, UnheardQuery, UpdateMessageId, UploadCancelFile, uploadVars, downloadVars
<1> QED
  BY <1>1, AsideCounts

LEMMA SocketKept ==
  ASSUME NEW m, ManagerType(m), NEW s \in DOMAIN m.sockets, NEW y, NEW n, SocketIs(m, s, y, n), y.state \in Opened
  PROVE  Kept(m, n)
BY ManagerParts DEF SocketIs, Kept

LEMMA SessionCounts ==
  ASSUME BaseInv, CountsInv, NEW s \in Sessions, SessionReady(s) \/ ConnectionLost(s)
  PROVE  CountsInv'
<1>1. PICK m, n : m = manager /\ n = manager'
  OBVIOUS
<1>2. PICK state \in Opened : n = [m EXCEPT !.sockets[s].state = state]
  BY <1>1 DEF SessionReady, ConnectionLost, Opened
<1>3. ManagerType(m) /\ s \in DOMAIN m.sockets
  BY <1>1 DEF BaseInv, Sessions
<1>4. \E y : SocketIs(m, s, y, n) /\ y.state = state
  BY <1>2, <1>3, StateSet DEF Opened
<1>5. Kept(m, n)
  BY <1>2, <1>3, <1>4, SocketKept
<1>6. UNCHANGED <<downloadSession, mUploadsMap, uploadSession, transfers>>
  BY DEF SessionReady, ConnectionLost, uploadVars, downloadVars
<1> QED
  BY <1>1, <1>5, <1>6, KeptCounts

LEMMA ReconnectCounts ==
  ASSUME BaseInv, CountsInv, NEW s \in Sessions, Reconnect(s)
  PROVE  CountsInv'
<1>1. PICK m, n, slot : m = manager /\ n = manager' /\ slot = "upload"
  OBVIOUS
<1>2. ManagerType(m) /\ s \in DOMAIN m.sockets /\ n = ConnectToServer(m, s) /\ slot \in {"upload", "download", "rename"}
  BY <1>1 DEF BaseInv, Sessions, Reconnect
<1>3. Reached(m, n)
  BY <1>2, ConnectIs
<1>4. Kept(m, n)
  BY <1>2, <1>3, ReachedKept
<1>5. UNCHANGED <<downloadSession, mUploadsMap, uploadSession, transfers>>
  BY DEF Reconnect, uploadVars, downloadVars
<1> QED
  BY <1>1, <1>4, <1>5, KeptCounts

LEMMA SessionClosedCounts ==
  ASSUME BaseInv, CountsInv, NEW s \in Sessions, SessionClosed(s)
  PROVE  CountsInv'
<1>1. PICK m, n : m = manager /\ n = manager'
  OBVIOUS
<1>2. ManagerType(m) /\ s \in DOMAIN m.sockets /\ n = CloseSession(m, s, TRUE) /\ m.sockets[s].state = "closing"
  BY <1>1 DEF BaseInv, Sessions, SessionClosed, State
<1>3. /\ Later(m, n) /\ n.counts = m.counts /\ n.ids = m.ids
      /\ n.files \in {m.files, m.files \ {s}}
      /\ \A t \in DOMAIN m.sockets : t # s => n.sockets[t] = m.sockets[t]
  <2>1. PICK atOnce \in BOOLEAN : atOnce <=> TRUE
    OBVIOUS
  <2>2. n = CloseSession(m, s, atOnce)
    BY <1>2, <2>1 DEF CloseSession
  <2>3. ManagerType(m) /\ s \in DOMAIN m.sockets
    BY <1>2
  <2> QED
    BY <2>2, <2>3, CloseIs
<1>4. Kept(m, n)
  BY <1>2, <1>3, ManagerParts DEF Kept, Opened
<1>5. UNCHANGED <<downloadSession, mUploadsMap, uploadSession, transfers>>
  BY DEF SessionClosed, uploadVars, downloadVars
<1> QED
  BY <1>1, <1>4, <1>5, KeptCounts

\* The session s is taken for one more user, which the step adds.
LEMMA TransferAuthCounts ==
  ASSUME BaseInv, CountsInv, NEW dc \in TransferDcs, TransferAuth(dc)
  PROVE  CountsInv'
<1>1. PICK m, a, s, k, n, t, more, U, p :
        /\ m = manager /\ a = Acquire(m, dc) /\ s = a.session /\ k = a.manager /\ n = manager'
        /\ t = transfers /\ more = transfers' /\ U = Users /\ p = User("transfer", dc, s)
  OBVIOUS
<1>2. /\ dc \notin asked /\ n = ConnectToServer(k, s) /\ more = MapInsert(t, dc, s)
      /\ UNCHANGED <<downloadSession, mUploadsMap, uploadSession>>
  BY <1>1 DEF TransferAuth, uploadVars, downloadVars
<1>3. ManagerType(m) /\ CountsOk(m, U) /\ dc \in DCs /\ dc \notin DOMAIN t
  BY <1>1, <1>2, Constants DEF BaseInv, CountsInv, TransfersInv
<1>4. Acquired(m, dc, a)
  BY <1>1, <1>3, AcquireIs
<1>5. p \notin U /\ p.session = s
  <2>1. p \notin TransferUsers(t)
    BY <1>1, <1>3, UserIs DEF TransferUsers
  <2>2. p \notin DownloadUsers(downloadSession) /\ p \notin UploadUsers(mUploadsMap, uploadSession)
    BY <1>1, UserIs DEF DownloadUsers, UploadUsers
  <2>3. p.session = s
    BY <1>1, UserIs
  <2> QED
    BY <1>1, <2>1, <2>2, <2>3 DEF Users, AllUsers
<1>6. s # NoSession /\ CountsOk(k, U \cup {p})
  BY <1>1, <1>3, <1>4, <1>5, CountsAcquired
<1>7. Users' = U \cup {p}
  <2>1. /\ DOMAIN more = DOMAIN t \cup {dc} /\ more[dc] = s
        /\ \A x \in DOMAIN t : more[x] = t[x]
    BY <1>2, <1>3 DEF MapInsert
  <2>2. ASSUME NEW q \in TransferUsers(more)
        PROVE  q \in TransferUsers(t) \cup {p}
    BY <1>1, <2>1 DEF TransferUsers
  <2>3. ASSUME NEW q \in TransferUsers(t) \cup {p}
        PROVE  q \in TransferUsers(more)
    BY <1>1, <2>1 DEF TransferUsers
  <2>4. TransferUsers(more) = TransferUsers(t) \cup {p}
    BY <2>2, <2>3
  <2>5. /\ U = AllUsers(downloadSession, mUploadsMap, uploadSession, t)
        /\ Users' = AllUsers(downloadSession, mUploadsMap, uploadSession, more)
    BY <1>1, <1>2 DEF Users
  <2> QED
    BY <2>4, <2>5 DEF AllUsers
<1>8. ManagerType(k) /\ s \in DOMAIN k.sockets
  BY <1>1, <1>4, <1>6 DEF Acquired
<1>9. CountsOk(n, U \cup {p})
  <2>1. PICK slot \in {"upload", "download", "rename"} : slot = "upload"
    OBVIOUS
  <2>2. Reached(k, n)
    BY <1>2, <1>8, <2>1, ConnectIs
  <2>3. Kept(k, n)
    BY <1>8, <2>2, ReachedKept
  <2> QED
    BY <1>6, <1>8, <2>3, CountsKept
<1> QED
  BY <1>1, <1>7, <1>9 DEF CountsInv

LEMMA TransferEndsCounts ==
  ASSUME BaseInv, CountsInv, NEW dc \in TransferDcs, NEW atOnce \in BOOLEAN, TransferEnds(dc, atOnce)
  PROVE  CountsInv'
<1>1. PICK m, n, t, less, U, p :
        /\ m = manager /\ n = manager' /\ t = transfers /\ less = transfers' /\ U = Users
        /\ p = User("transfer", dc, t[dc])
  OBVIOUS
<1>2. /\ dc \in DOMAIN t /\ less = MapRemove(t, dc)
      /\ UNCHANGED <<downloadSession, mUploadsMap, uploadSession>>
  BY <1>1 DEF TransferEnds, uploadVars, downloadVars
<1>3. ManagerType(m) /\ CountsOk(m, U) /\ Freed(m, t[dc], 1, n)
  BY <1>1, TransferEndsBase DEF BaseInv, CountsInv
<1>4. p.session = t[dc]
  BY <1>1, UserIs
<1>5. p \in TransferUsers(t) /\ TransferUsers(less) = TransferUsers(t) \ {p}
  <2>1. DOMAIN less = DOMAIN t \ {dc} /\ \A x \in DOMAIN less : less[x] = t[x]
    BY <1>2 DEF MapRemove
  <2>2. p \in TransferUsers(t)
    BY <1>1, <1>2 DEF TransferUsers
  <2>3. ASSUME NEW q \in TransferUsers(less)
        PROVE  q \in TransferUsers(t) /\ q # p
    BY <1>1, <2>1, <2>3, UserIs DEF TransferUsers
  <2>4. ASSUME NEW q \in TransferUsers(t), q # p
        PROVE  q \in TransferUsers(less)
    BY <1>1, <2>1, <2>4 DEF TransferUsers
  <2> QED
    BY <2>2, <2>3, <2>4
<1>6. p \in U /\ Users' = U \ {p}
  <2>1. p \notin DownloadUsers(downloadSession) /\ p \notin UploadUsers(mUploadsMap, uploadSession)
    BY <1>1, UserIs DEF DownloadUsers, UploadUsers
  <2>2. /\ U = AllUsers(downloadSession, mUploadsMap, uploadSession, t)
        /\ Users' = AllUsers(downloadSession, mUploadsMap, uploadSession, less)
    BY <1>1, <1>2 DEF Users
  <2> QED
    BY <1>5, <2>1, <2>2 DEF AllUsers
<1>7. Freed(m, p.session, 1, n)
  BY <1>3, <1>4
<1>8. CountsOk(n, U \ {p})
  BY <1>3, <1>6, <1>7, CountsLeft
<1> QED
  BY <1>1, <1>6, <1>8 DEF CountsInv

LEMMA MainResultCounts ==
  ASSUME BaseInv, CountsInv, Thumbs = {}, NEW r \in calls, NEW atOnce \in BOOLEAN, MainResult(r, atOnce)
  PROVE  CountsInv'
<1>1. PICK m, n, map, less, u, U, f, p :
        /\ m = manager /\ n = manager' /\ map = mUploadsMap /\ less = mUploadsMap' /\ u = uploadSession
        /\ U = Users /\ f = r.file /\ p = User("upload", f.op, u[f.op])
  OBVIOUS
<1>2. /\ f \in map /\ less = {e \in map : e.op # f.op}
      /\ UNCHANGED <<downloadSession, uploadSession, transfers>>
  BY <1>1 DEF MainResult, SaveFilePartResult, downloadVars
<1>3. ManagerType(m) /\ CountsOk(m, U)
  BY <1>1 DEF BaseInv, CountsInv
<1>4. Freed(m, u[f.op], 1, n)
  BY <1>1, MainResultBase
<1>5. p \in UploadUsers(map, u) /\ UploadUsers(less, u) = UploadUsers(map, u) \ {p}
  <2>1. p \in UploadUsers(map, u)
    BY <1>1, <1>2 DEF UploadUsers
  <2>2. ASSUME NEW q \in UploadUsers(less, u)
        PROVE  q \in UploadUsers(map, u) /\ q # p
    BY <1>1, <1>2, <2>2, UserIs DEF UploadUsers
  <2>3. ASSUME NEW q \in UploadUsers(map, u), q # p
        PROVE  q \in UploadUsers(less, u)
    <3>1. PICK e \in map : q = User("upload", e.op, u[e.op])
      BY <2>3 DEF UploadUsers
    <3>2. e.op # f.op
      BY <1>1, <2>3, <3>1
    <3> QED
      BY <1>2, <3>1, <3>2 DEF UploadUsers
  <2> QED
    BY <2>1, <2>2, <2>3
<1>6. p \in U /\ Users' = U \ {p}
  <2>1. p \notin DownloadUsers(downloadSession) /\ p \notin TransferUsers(transfers)
    BY <1>1, UserIs DEF DownloadUsers, TransferUsers
  <2>2. /\ U = AllUsers(downloadSession, map, u, transfers)
        /\ Users' = AllUsers(downloadSession, less, u, transfers)
    BY <1>1, <1>2 DEF Users
  <2> QED
    BY <1>5, <2>1, <2>2 DEF AllUsers
<1>7. Freed(m, p.session, 1, n)
  BY <1>1, <1>4, UserIs
<1>8. CountsOk(n, U \ {p})
  BY <1>3, <1>6, <1>7, CountsLeft
<1> QED
  BY <1>1, <1>6, <1>8 DEF CountsInv

LEMMA UploadSendFileCounts ==
  ASSUME BaseInv, CountsInv, NEW f \in Uploads, UploadSendFile(f)
  PROVE  CountsInv'
<1>1. PICK m, a, s, k, n, map, more, u, after, U, p, dc :
        /\ m = manager /\ a = Acquire(m, dc) /\ s = a.session /\ k = a.manager /\ n = manager'
        /\ map = mUploadsMap /\ more = mUploadsMap' /\ u = uploadSession /\ after = uploadSession'
        /\ U = Users /\ p = User("upload", f, s) /\ dc = WorkingDc
  OBVIOUS
<1>2. f \notin asked /\ UNCHANGED <<downloadSession, transfers>>
  BY DEF UploadSendFile, downloadVars
<1>3. ManagerType(m) /\ CountsOk(m, U) /\ dc \in DCs /\ \A e \in map : e.op # f
  BY <1>1, <1>2, Constants DEF BaseInv, CountsInv, UploadsInv
<1>4. Acquired(m, dc, a)
  BY <1>1, <1>3, AcquireIs
<1>5. p \notin U /\ p.session = s
  <2>1. p \notin UploadUsers(map, u)
    BY <1>1, <1>3, UserIs DEF UploadUsers
  <2>2. p \notin DownloadUsers(downloadSession) /\ p \notin TransferUsers(transfers)
    BY <1>1, UserIs DEF DownloadUsers, TransferUsers
  <2>3. p.session = s
    BY <1>1, UserIs
  <2> QED
    BY <1>1, <2>1, <2>2, <2>3 DEF Users, AllUsers
<1>6. s # NoSession /\ CountsOk(k, U \cup {p})
  BY <1>1, <1>3, <1>4, <1>5, CountsAcquired
<1>7. /\ after = [u EXCEPT ![f] = s] /\ more = map \cup {e \in Engines : e.op = f}
      /\ n = k \/ n = ConnectToServer(ConnectSlot(k, s, "upload"), s)
  BY <1>1, <1>6 DEF UploadSendFile
<1>8. Users' = U \cup {p}
  <2>1. PICK e \in Engines : e.op = f
    BY FirstEngineIs
  <2>2. after[f] = s /\ \A x \in map : after[x.op] = u[x.op]
    BY <1>1, <1>3, <1>7 DEF BaseInv, UploadsInv
  <2>3. ASSUME NEW q \in UploadUsers(more, after)
        PROVE  q \in UploadUsers(map, u) \cup {p}
    BY <1>1, <1>7, <2>2 DEF UploadUsers
  <2>4. ASSUME NEW q \in UploadUsers(map, u) \cup {p}
        PROVE  q \in UploadUsers(more, after)
    BY <1>1, <1>7, <2>1, <2>2 DEF UploadUsers
  <2>5. UploadUsers(more, after) = UploadUsers(map, u) \cup {p}
    BY <2>3, <2>4
  <2>6. /\ U = AllUsers(downloadSession, map, u, transfers)
        /\ Users' = AllUsers(downloadSession, more, after, transfers)
    BY <1>1, <1>2 DEF Users
  <2> QED
    BY <2>5, <2>6 DEF AllUsers
<1>9. ManagerType(k) /\ s \in DOMAIN k.sockets
  BY <1>1, <1>4, <1>6 DEF Acquired
<1>10. CountsOk(n, U \cup {p})
  <2>1. CASE n = k
    BY <1>6, <2>1
  <2>2. CASE n = ConnectToServer(ConnectSlot(k, s, "upload"), s)
    <3>1. PICK slot \in {"upload", "download", "rename"} : slot = "upload"
      OBVIOUS
    <3>2. Reached(k, n)
      BY <1>9, <2>2, <3>1, ConnectedIs
    <3>3. Kept(k, n)
      BY <1>9, <3>2, ReachedKept
    <3> QED
      BY <1>6, <1>9, <3>3, CountsKept
  <2> QED
    BY <1>7, <2>1, <2>2
<1> QED
  BY <1>1, <1>8, <1>10 DEF CountsInv

\* The users that a download replaces.
Replacing(session, f, s, replaced, with, after, R) ==
  /\ DOMAIN session = Downloads /\ f \in Downloads /\ s # NoSession
  /\ replaced \in SUBSET Downloads /\ (\A d \in replaced : session[d] = s) /\ f \notin replaced
  /\ with = [session EXCEPT ![f] = s] /\ after = After(f, s, replaced, session)
  /\ R = {User("download", d, s) : d \in replaced}

\* R of the users of s are gone, and one is left.
Gone(before, s, R, after) ==
  R \in SUBSET UsersOf(before, s) /\ UsersOf(before, s) # {} /\ after = before \ R

LEMMA DownloadsReplaced ==
  ASSUME NEW session, NEW f, NEW s, NEW replaced, NEW with, NEW after, NEW R,
         Replacing(session, f, s, replaced, with, after, R)
  PROVE  /\ Gone(DownloadUsers(with), s, R, DownloadUsers(after))
         /\ Cardinality(R) = Cardinality(replaced)
<1> USE DEF Replacing
<1>1. \A d \in Downloads : with[d] = IF d = f THEN s ELSE session[d]
  OBVIOUS
<1>2. \A d \in Downloads : after[d] = IF d \in replaced THEN NoSession ELSE with[d]
  BY <1>1 DEF After
<1>3. \A d \in Downloads : with[d] = s => User("download", d, s) \in UsersOf(DownloadUsers(with), s)
  BY UserIs DEF DownloadUsers, UsersOf
<1>4. R \in SUBSET UsersOf(DownloadUsers(with), s) /\ UsersOf(DownloadUsers(with), s) # {}
  BY <1>1, <1>3
<1>5. ASSUME NEW q \in DownloadUsers(after)
      PROVE  q \in DownloadUsers(with) /\ q \notin R
  <2>1. PICK d \in Downloads : after[d] # NoSession /\ q = User("download", d, after[d])
    BY <1>5 DEF DownloadUsers
  <2>2. d \notin replaced /\ after[d] = with[d]
    BY <1>2, <2>1
  <2>3. q \in DownloadUsers(with)
    BY <2>1, <2>2 DEF DownloadUsers
  <2> QED
    BY <2>1, <2>2, <2>3, UserIs
<1>6. ASSUME NEW q \in DownloadUsers(with), q \notin R
      PROVE  q \in DownloadUsers(after)
  <2>1. PICK d \in Downloads : with[d] # NoSession /\ q = User("download", d, with[d])
    BY <1>6 DEF DownloadUsers
  <2>2. d \notin replaced
    BY <1>1, <1>6, <2>1
  <2>3. after[d] = with[d]
    BY <1>2, <2>2
  <2> QED
    BY <2>1, <2>3 DEF DownloadUsers
<1>7. Cardinality(R) = Cardinality(replaced)
  <2>1. PICK g : g = [d \in replaced |-> User("download", d, s)]
    OBVIOUS
  <2>2. g \in Bijection(replaced, R)
    <3>1. g \in [replaced -> R] /\ \A q \in R : \E d \in replaced : g[d] = q
      BY <2>1
    <3>2. ASSUME NEW d \in replaced, NEW e \in replaced, g[d] = g[e]
          PROVE  d = e
      BY <2>1, <3>2, UserIs
    <3> QED
      BY <3>1, <3>2 DEF Bijection, Injection, Surjection, IsInjective
  <2>3. IsFiniteSet(replaced)
    BY Constants, FS_Subset
  <2>4. ExistsBijection(replaced, R)
    BY <2>2 DEF ExistsBijection
  <2> QED
    BY <2>3, <2>4, FS_Bijection
<1> QED
  BY <1>4, <1>5, <1>6, <1>7 DEF Gone

\* Start, when f is counted with its session.
LEMMA StartCounts ==
  ASSUME BaseInv, NEW f \in Downloads, \A t \in DOMAIN mInitialDownloadsMap : f \notin mInitialDownloadsMap[t],
         NEW m, ManagerType(m), NEW s \in DOMAIN m.sockets, NEW map, NEW c, Start(f, m, s, map, c),
         CountsOk(m, AllUsers([downloadSession EXCEPT ![f] = s], mUploadsMap, uploadSession, transfers)),
         UNCHANGED <<mUploadsMap, uploadSession, transfers>>
  PROVE  CountsInv'
<1>1. PICK connects, replaced, k, h, n, session, with, after, ups, u, t, R :
        /\ connects = (State(m, s) \notin {"connecting", "connected"})
        /\ replaced = IF connects THEN MapSet(mInitialDownloadsMap, s) ELSE {}
        /\ k = Cardinality(replaced) /\ h = ReleaseTimes(m, s, k) /\ n = manager'
        /\ session = downloadSession /\ with = [session EXCEPT ![f] = s] /\ after = downloadSession'
        /\ ups = mUploadsMap /\ u = uploadSession /\ t = transfers /\ R = {User("download", d, s) : d \in replaced}
  OBVIOUS
<1>2. /\ n = IF connects THEN ConnectToServer(ConnectSlot(h, s, "download"), s) ELSE m
      /\ after = After(f, s, replaced, session)
  BY <1>1 DEF Start, After
<1>3. PICK U, V : U = AllUsers(with, ups, u, t) /\ V = AllUsers(after, ups, u, t)
  OBVIOUS
<1>4. CountsOk(m, U) /\ Users' = V
  BY <1>1, <1>3 DEF Users
<1>5. /\ DOMAIN session = Downloads /\ s # NoSession /\ replaced \in SUBSET Downloads
      /\ \A d \in replaced : session[d] = s
      /\ f \notin replaced
  BY <1>1, ManagerParts DEF BaseInv, DownloadsInv, Placed, MapSet
<1>6. /\ R \in SUBSET UsersOf(DownloadUsers(with), s) /\ UsersOf(DownloadUsers(with), s) # {}
      /\ DownloadUsers(after) = DownloadUsers(with) \ R /\ Cardinality(R) = k
  <2>1. Replacing(session, f, s, replaced, with, after, R)
    BY <1>1, <1>2, <1>5 DEF Replacing
  <2>2. Gone(DownloadUsers(with), s, R, DownloadUsers(after)) /\ Cardinality(R) = Cardinality(replaced)
    BY <2>1, DownloadsReplaced
  <2>3. k = Cardinality(replaced)
    BY <1>1
  <2> QED
    BY <2>2, <2>3 DEF Gone
<1>7. R \in SUBSET UsersOf(U, s) /\ UsersOf(U, s) # {} /\ V = U \ R
  <2>1. \A q \in R : q \notin UploadUsers(ups, u) /\ q \notin TransferUsers(t)
    BY <1>1, UserIs DEF UploadUsers, TransferUsers
  <2> QED
    BY <1>3, <1>6, <2>1 DEF AllUsers, UsersOf
<1>8. CountsOk(n, V)
  <2>1. CASE connects
    <3>1. k \in Nat
      BY <1>1, <1>5, Constants, FS_Subset, FS_CardinalityType
    <3>2. Freed(m, s, k, h)
      BY <1>1, <3>1, ReleaseTimesIs
    <3>3. CountsOk(h, U \ R)
      BY <1>4, <1>6, <1>7, <3>2, CountsFreed
    <3>4. ManagerType(h) /\ s \in DOMAIN h.sockets
      BY <3>2 DEF Freed
    <3>5. PICK slot \in {"upload", "download", "rename"} : slot = "download"
      OBVIOUS
    <3>6. Reached(h, n)
      BY <1>2, <2>1, <3>4, <3>5, ConnectedIs
    <3>7. Kept(h, n)
      BY <3>4, <3>6, ReachedKept
    <3>8. CountsOk(h, V)
      BY <1>7, <3>3
    <3> QED
      BY <3>4, <3>7, <3>8, CountsKept
  <2>2. CASE ~connects
    <3>1. R = {}
      BY <1>1, <2>2
    <3>2. V = U
      BY <1>7, <3>1
    <3> QED
      BY <1>2, <1>4, <2>2, <3>2
  <2> QED
    BY <2>1, <2>2
<1> QED
  BY <1>1, <1>4, <1>8 DEF CountsInv

\* The download f, that has no session, gets one.
LEMMA DownloadComes ==
  ASSUME NEW m, ManagerType(m), NEW session, NEW map, NEW u, NEW t, CountsOk(m, AllUsers(session, map, u, t)),
         DOMAIN session = Downloads, NEW f \in Downloads, session[f] = NoSession,
         NEW dc \in DCs, NEW a, Acquired(m, dc, a), NEW with, with = [session EXCEPT ![f] = a.session]
  PROVE  a.session # NoSession /\ CountsOk(a.manager, AllUsers(with, map, u, t))
<1>1. PICK U, s, p : U = AllUsers(session, map, u, t) /\ s = a.session /\ p = User("download", f, s)
  OBVIOUS
<1>2. \A d \in Downloads : with[d] = IF d = f THEN s ELSE session[d]
  BY <1>1
<1>3. p.session = s
  BY <1>1, UserIs
<1>4. p \notin DownloadUsers(session)
  BY <1>1, UserIs DEF DownloadUsers
<1>5. p \notin UploadUsers(map, u) /\ p \notin TransferUsers(t)
  BY <1>1, UserIs DEF UploadUsers, TransferUsers
<1>6. p \notin U
  BY <1>1, <1>4, <1>5 DEF AllUsers
<1>7. s # NoSession /\ CountsOk(a.manager, U \cup {p})
  BY <1>1, <1>3, <1>6, CountsAcquired
<1>8. DownloadUsers(with) = DownloadUsers(session) \cup {p}
  <2>1. ASSUME NEW q \in DownloadUsers(with)
        PROVE  q \in DownloadUsers(session) \cup {p}
    BY <1>1, <1>2 DEF DownloadUsers
  <2>2. ASSUME NEW q \in DownloadUsers(session)
        PROVE  q \in DownloadUsers(with)
    <3>1. PICK d \in Downloads : session[d] # NoSession /\ q = User("download", d, session[d])
      BY <2>2 DEF DownloadUsers
    <3>2. with[d] = session[d]
      BY <1>2, <3>1
    <3> QED
      BY <3>1, <3>2 DEF DownloadUsers
  <2>3. p \in DownloadUsers(with)
    BY <1>1, <1>2, <1>7 DEF DownloadUsers
  <2> QED
    BY <2>1, <2>2, <2>3
<1>9. AllUsers(with, map, u, t) = U \cup {p}
  BY <1>1, <1>8 DEF AllUsers
<1> QED
  BY <1>1, <1>7, <1>9

LEMMA UploadGetFileCounts ==
  ASSUME BaseInv, CountsInv, NEW f \in Downloads, UploadGetFile(f)
  PROVE  CountsInv'
<1>1. PICK m, dc, a, s, k, h, session, with, map, u, t :
        /\ m = manager /\ dc = DcNum[f] /\ a = Acquire(m, dc) /\ s = a.session /\ k = a.manager
        /\ h = ConnectSlot(k, s, "rename") /\ session = downloadSession /\ with = [session EXCEPT ![f] = s]
        /\ map = mUploadsMap /\ u = uploadSession /\ t = transfers
  OBVIOUS
<1>2. /\ ManagerType(m) /\ CountsOk(m, AllUsers(session, map, u, t)) /\ dc \in DCs
      /\ DOMAIN session = Downloads /\ session[f] = NoSession
  BY <1>1, Constants DEF BaseInv, CountsInv, Users, DownloadsInv, UploadGetFile
<1>3. Acquired(m, dc, a)
  BY <1>1, <1>2, AcquireIs
<1>4. s # NoSession /\ CountsOk(k, AllUsers(with, map, u, t))
  <2>1. with = [session EXCEPT ![f] = a.session]
    BY <1>1
  <2>2. a.session # NoSession /\ CountsOk(a.manager, AllUsers(with, map, u, t))
    BY <1>2, <1>3, <2>1, DownloadComes
  <2> QED
    BY <1>1, <2>2
<1>5. ManagerType(k) /\ s \in DOMAIN k.sockets
  BY <1>1, <1>3, <1>4 DEF Acquired
<1>6. Reached(k, h)
  <2>1. PICK slot \in {"upload", "download", "rename"} : slot = "rename"
    OBVIOUS
  <2>2. h = ConnectSlot(k, s, slot)
    BY <1>1, <2>1
  <2> QED
    BY <1>5, <2>2, ConnectIs
<1>7. ManagerType(h) /\ s \in DOMAIN h.sockets /\ CountsOk(h, AllUsers(with, map, u, t))
  <2>1. Kept(k, h)
    BY <1>5, <1>6, ReachedKept
  <2> QED
    BY <1>4, <1>5, <1>6, <2>1, CountsKept DEF Reached
<1>8. Start(f, h, s, mDownloadsMap, calls) /\ UNCHANGED <<mUploadsMap, uploadSession, transfers>>
  BY <1>1, <1>4 DEF UploadGetFile, uploadVars
<1>9. \A x \in DOMAIN mInitialDownloadsMap : f \notin mInitialDownloadsMap[x]
  BY <1>1, <1>2 DEF BaseInv, DownloadsInv, Placed
<1>10. CountsOk(h, AllUsers([downloadSession EXCEPT ![f] = s], mUploadsMap, uploadSession, transfers))
  BY <1>1, <1>7
<1> QED
  BY <1>7, <1>8, <1>9, <1>10, StartCounts

LEMMA MigrateAnswerCounts ==
  ASSUME BaseInv, CountsInv, NEW r \in calls, NEW dc \in DCs, NEW atOnce \in BOOLEAN, MigrateAnswer(r, dc, atOnce)
  PROVE  CountsInv'
<1>1. PICK f, b, m, a, s, k, session, less, with, map, u, t :
        /\ f = mDownloadsMap[r.id] /\ b = manager /\ session = downloadSession
        /\ m = Release(b, session[f], atOnce) /\ a = Acquire(m, dc) /\ s = a.session /\ k = a.manager
        /\ less = [session EXCEPT ![f] = NoSession] /\ with = [less EXCEPT ![f] = s]
        /\ map = mUploadsMap /\ u = uploadSession /\ t = transfers
  OBVIOUS
<1>2. /\ Taken(r) /\ s # NoSession /\ Start(f, k, s, MapRemove(mDownloadsMap, r.id), Living(calls \ {r}, m))
      /\ UNCHANGED <<mUploadsMap, uploadSession, transfers>>
  BY <1>1 DEF MigrateAnswer, uploadVars
<1>3. /\ f \in Downloads /\ session[f] \in DOMAIN b.sockets
      /\ \A x \in DOMAIN mInitialDownloadsMap : f \notin mInitialDownloadsMap[x]
  BY <1>1, <1>2, TakenIs DEF Sessions
<1>4. /\ ManagerType(b) /\ CountsOk(b, AllUsers(session, map, u, t))
      /\ DOMAIN session = Downloads /\ session[f] # NoSession
  BY <1>1, <1>3, ManagerParts DEF BaseInv, CountsInv, Users, DownloadsInv
<1>5. Freed(b, session[f], 1, m)
  <2>1. m = Release(b, session[f], atOnce)
    BY <1>1
  <2> QED
    BY <1>3, <1>4, <2>1, ReleaseIs
<1>6. CountsOk(m, AllUsers(less, map, u, t))
  <2>1. less = [session EXCEPT ![f] = NoSession]
    BY <1>1
  <2> QED
    BY <1>3, <1>4, <1>5, <2>1, DownloadLeft
<1>7. ManagerType(m) /\ DOMAIN less = Downloads /\ less[f] = NoSession
  BY <1>1, <1>3, <1>4, <1>5 DEF Freed
<1>8. Acquired(m, dc, a)
  <2>1. a = Acquire(m, dc)
    BY <1>1
  <2> QED
    BY <1>7, <2>1, AcquireIs
<1>9. CountsOk(k, AllUsers(with, map, u, t))
  <2>1. with = [less EXCEPT ![f] = a.session]
    BY <1>1
  <2>2. CountsOk(a.manager, AllUsers(with, map, u, t))
    BY <1>3, <1>6, <1>7, <1>8, <2>1, DownloadComes
  <2> QED
    BY <1>1, <2>2
<1>10. ManagerType(k) /\ s \in DOMAIN k.sockets
  BY <1>1, <1>2, <1>8 DEF Acquired
<1>11. with = [session EXCEPT ![f] = s]
  BY <1>1
<1>12. CountsOk(k, AllUsers([downloadSession EXCEPT ![f] = s], mUploadsMap, uploadSession, transfers))
  BY <1>1, <1>9, <1>11
<1> QED
  BY <1>2, <1>3, <1>10, <1>12, StartCounts

LEMMA CountsInit ==
  ASSUME Init
  PROVE  CountsInv
<1>1. PICK m, session, map, u, t, U :
        /\ m = manager /\ session = downloadSession /\ map = mUploadsMap /\ u = uploadSession /\ t = transfers
        /\ U = AllUsers(session, map, u, t)
  OBVIOUS
<1>2. /\ \A d \in Downloads : session[d] = NoSession
      /\ map = {} /\ DOMAIN t = {} /\ \A dc \in DCs : m.counts[dc] = 0 /\ m.ids[dc] = NoSession
  BY <1>1 DEF Init, InitManager, EmptyMap
<1>3. DownloadUsers(session) = {} /\ UploadUsers(map, u) = {} /\ TransferUsers(t) = {}
  BY <1>2 DEF DownloadUsers, UploadUsers, TransferUsers
<1>4. U = {}
  BY <1>1, <1>3 DEF AllUsers
<1>5. CountsOk(m, U)
  BY <1>2, <1>4, FS_EmptySet DEF CountsOk, CountsOf
<1> QED
  BY <1>1, <1>5 DEF CountsInv, Users

LEMMA NextCounts ==
  ASSUME Thumbs = {}, BaseInv, CountsInv, Next
  PROVE  CountsInv'
<1>1. CASE \E u \in Uploads : UploadSendFile(u)
  BY <1>1, UploadSendFileCounts
<1>2. CASE \E f \in Downloads : UploadGetFile(f) \/ UploadCancelFile(f)
  BY <1>2, UploadGetFileCounts, IdleCounts DEF Idle
<1>3. CASE \E r \in calls, atOnce \in BOOLEAN : AnswerReceived(r, atOnce)
  <2>1. PICK r \in calls, atOnce \in BOOLEAN : AnswerReceived(r, atOnce)
    BY <1>3
  <2>2. CASE PartResult(r) \/ ThumbnailResult(r)
    BY <2>2, IdleCounts DEF Idle
  <2>3. CASE MainResult(r, atOnce)
    BY <2>3, MainResultCounts
  <2>4. CASE CancelledAnswer(r, atOnce) \/ LastAnswer(r, atOnce)
    BY <2>4, AnswerCounts
  <2>5. CASE PartAnswer(r, atOnce)
    BY <2>5, PartAnswerCounts
  <2> QED
    BY <2>1, <2>2, <2>3, <2>4, <2>5 DEF AnswerReceived
<1>4. CASE \E r \in calls, atOnce \in BOOLEAN, dc \in DCs : MigrateAnswer(r, dc, atOnce)
  BY <1>4, MigrateAnswerCounts
<1>5. CASE \E r \in calls : UnheardQuery(r) \/ UpdateMessageId(r)
  BY <1>5, IdleCounts DEF Idle
<1>6. CASE \E s \in Sessions : SessionReady(s) \/ ConnectionLost(s) \/ Reconnect(s) \/ SessionClosed(s)
  BY <1>6, SessionCounts, ReconnectCounts, SessionClosedCounts
<1>7. CASE \E dc \in TransferDcs : TransferAuth(dc)
  BY <1>7, TransferAuthCounts
<1>8. CASE \E dc \in TransferDcs, atOnce \in BOOLEAN : TransferEnds(dc, atOnce)
  BY <1>8, TransferEndsCounts
<1> QED
  BY <1>1, <1>2, <1>3, <1>4, <1>5, <1>6, <1>7, <1>8 DEF Next

LEMMA StutterCounts ==
  ASSUME BaseInv, CountsInv, UNCHANGED vars
  PROVE  CountsInv'
BY AsideCounts DEF vars

LEMMA AlwaysCounts ==
  ASSUME Thumbs = {}
  PROVE  Spec => []CountsInv
<1>1. Init => CountsInv
  BY CountsInit
<1>2. BaseInv /\ CountsInv /\ [Next]_vars => CountsInv'
  BY NextCounts, StutterCounts
<1>3. Inv => BaseInv
  BY DEF Inv
<1> QED
  BY <1>1, <1>2, <1>3, AlwaysInv, PTL DEF Spec

\* A user's session is the counted one of its DC.
LEMMA UserServed ==
  ASSUME BaseInv, CountsInv, NEW p \in Users
  PROVE  IsOpen(p.session)
<1>1. PICK m, U, s : m = manager /\ U = Users /\ s = p.session
  OBVIOUS
<1>2. ManagerType(m) /\ CountsOk(m, U) /\ p \in U
  BY <1>1 DEF BaseInv, CountsInv
<1>3. s \in DOMAIN m.sockets /\ m.ids[m.sockets[s].dc] = s
  BY <1>1, <1>2 DEF CountsOk, Belongs
<1>4. PICK dc \in DCs : dc = m.sockets[s].dc
  BY <1>2, <1>3, DcOf
<1>5. s # NoSession
  BY <1>2, <1>3, ManagerParts
<1>6. Serves(m, U, dc, s)
  BY <1>2, <1>3, <1>4, <1>5 DEF CountsOk, CountsOf
<1>7. s \in m.files /\ m.sockets[s].state \in Opened
  BY <1>6 DEF Serves
<1> QED
  BY <1>1, <1>7 DEF IsOpen, State, Opened

LEMMA CountsOpen ==
  ASSUME BaseInv, CountsInv
  PROVE  UsedSessionsAreOpen
<1>1. ASSUME NEW d \in LiveDownloads
      PROVE  IsOpen(downloadSession[d])
  <2>1. PICK p : p = User("download", d, downloadSession[d])
    OBVIOUS
  <2>2. p \in Users
    BY <1>1, <2>1 DEF Users, AllUsers, DownloadUsers, LiveDownloads
  <2> QED
    BY <2>1, <2>2, UserIs, UserServed
<1>2. ASSUME NEW u \in LiveUploads
      PROVE  IsOpen(uploadSession[u])
  <2>1. PICK e \in mUploadsMap : e.op = u
    BY <1>2 DEF LiveUploads
  <2>2. PICK p : p = User("upload", e.op, uploadSession[e.op])
    OBVIOUS
  <2>3. p \in Users
    BY <2>1, <2>2 DEF Users, AllUsers, UploadUsers
  <2> QED
    BY <2>1, <2>2, <2>3, UserIs, UserServed
<1>3. ASSUME NEW dc \in DOMAIN transfers
      PROVE  IsOpen(transfers[dc])
  <2>1. PICK p : p = User("transfer", dc, transfers[dc])
    OBVIOUS
  <2>2. p \in Users
    BY <1>3, <2>1 DEF Users, AllUsers, TransferUsers
  <2> QED
    BY <2>1, <2>2, UserIs, UserServed
<1> QED
  BY <1>1, <1>2, <1>3 DEF UsedSessionsAreOpen

LEMMA CountsIdle ==
  ASSUME BaseInv, CountsInv
  PROVE  IdleCountsAreZero
<1>1. SUFFICES ASSUME NEW dc \in DCs, manager.counts[dc] # 0
               PROVE  \E s \in {downloadSession[d] : d \in LiveDownloads} \cup {uploadSession[u] : u \in LiveUploads}
                              \cup {transfers[x] : x \in DOMAIN transfers} :
                        manager.sockets[s].dc = dc
  BY DEF IdleCountsAreZero
<1>2. PICK s : s = manager.ids[dc]
  OBVIOUS
<1>3. Serves(manager, Users, dc, s)
  BY <1>1, <1>2 DEF CountsInv, CountsOk, CountsOf
<1>4. PICK p \in Users : p.session = s
  BY <1>3 DEF Serves, UsersOf
<1>5. manager.sockets[s].dc = dc
  BY <1>3 DEF Serves
<1>6. CASE p \in DownloadUsers(downloadSession)
  <2>1. PICK d \in LiveDownloads : s = downloadSession[d]
    BY <1>4, <1>6, UserIs DEF DownloadUsers, LiveDownloads
  <2> QED
    BY <1>5, <2>1
<1>7. CASE p \in UploadUsers(mUploadsMap, uploadSession)
  <2>1. PICK e \in mUploadsMap : s = uploadSession[e.op]
    BY <1>4, <1>7, UserIs DEF UploadUsers
  <2>2. e.op \in LiveUploads
    BY DEF LiveUploads
  <2> QED
    BY <1>5, <2>1, <2>2
<1>8. CASE p \in TransferUsers(transfers)
  <2>1. PICK x \in DOMAIN transfers : s = transfers[x]
    BY <1>4, <1>8, UserIs DEF TransferUsers
  <2> QED
    BY <1>5, <2>1
<1> QED
  BY <1>4, <1>6, <1>7, <1>8 DEF Users, AllUsers

\* No session is closed while a download, an upload or a transfer of the
\* authorization uses it (core/sessionmanager.cpp:79), for any number of them
\* and of data centers.  It takes that no upload has a thumbnail: the two
\* engines of such an upload release the session that was counted once.
THEOREM SessionsCorrect ==
  ASSUME Thumbs = {}
  PROVE  Spec => []UsedSessionsAreOpen
<1>1. Inv => BaseInv
  BY DEF Inv
<1>2. BaseInv /\ CountsInv => UsedSessionsAreOpen
  BY CountsOpen
<1> QED
  BY <1>1, <1>2, AlwaysInv, AlwaysCounts, PTL

\* The count of a data center is zero when nothing uses a session to it, so
\* that fileSession then makes a session instead of looking for one that was
\* closed; again when no upload has a thumbnail.
THEOREM CountsCorrect ==
  ASSUME Thumbs = {}
  PROVE  Spec => []IdleCountsAreZero
<1>1. Inv => BaseInv
  BY DEF Inv
<1>2. BaseInv /\ CountsInv => IdleCountsAreZero
  BY CountsIdle
<1> QED
  BY <1>1, <1>2, AlwaysInv, AlwaysCounts, PTL
=============================================================================

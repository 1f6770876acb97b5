---------------------------- MODULE FileHandler -----------------------------
(***************************************************************************)
(* Transfers of files in libqtelegram-aseman-edition: the FileHandler      *)
(* (file/filehandler.cpp), the UploadFileEngine and DownloadFile objects   *)
(* it owns (file/uploadfileengine.cpp, file/downloadfile.cpp, file/file.h) *)
(* and the sessions to other data centers that the SessionManager shares   *)
(* among them and counts (core/sessionmanager.cpp).                        *)
(*                                                                         *)
(* A Session is represented by what Session.tla shows of it: a query gets  *)
(* an identifier, or Offline when the socket is not connected; it gets at  *)
(* most one answer; the session may give it a new identifier and tells so  *)
(* with updateMessageId; it may be discarded in silence; and it may be lost *)
(* with the connection, since a query is not sent again unless the setting *)
(* resendQueries, which is off by default, says so.  Two queries that one  *)
(* session files under Offline replace each other.                         *)
(*                                                                         *)
(* Sizes are counted in units, two of which make a BLOCK.  The server      *)
(* answers the query of a part with the units of the file asked for from   *)
(* that offset, and FILE_MIGRATE only for the first part of a file.        *)
(***************************************************************************)
EXTENDS Integers, Sequences, FiniteSets, Functions

CONSTANTS
  Downloads, Uploads,  \* the calls of uploadGetFile and of uploadSendFile
  Thumbs,              \* the uploads that have a thumbnail
  DCs, WorkingDc,
  TransferDcs,         \* the DCs the authorization is transferred to
  DcNum,               \* the DC a download is asked of
  Length,              \* units of the file a download asks for
  SizedDownloads,      \* the downloads whose caller gives the size
  Parts,               \* parts of every uploaded file
  MaxDrops,            \* bound: lost connections
  MaxUnanswered,       \* bound: parts whose query gets no answer, or an error
  MaxMigrations,       \* bound: FILE_MIGRATE answers
  MaxRenames,          \* bound: new identifiers of queries that have one
  MaxOffline           \* bound: queries issued without a connection

ASSUME FilesAssumption ==
  /\ IsFiniteSet(Downloads) /\ IsFiniteSet(Uploads) /\ IsFiniteSet(DCs)
  /\ Downloads \cap [op : Uploads, type : {"Main", "Thumbnail"}] = {}
  /\ Thumbs \subseteq Uploads /\ SizedDownloads \subseteq Downloads
  /\ WorkingDc \in DCs /\ TransferDcs \subseteq DCs
  /\ DcNum \in [Downloads -> DCs]
  /\ Length \in [Downloads -> Nat \ {0}] /\ Parts \in Nat \ {0}
ASSUME FileBoundsAssumption ==
  {MaxDrops, MaxUnanswered, MaxMigrations, MaxRenames, MaxOffline} \subseteq Nat

VARIABLES
  manager,              \* the SessionManager and the sockets of its sessions
  calls,                \* the queries the sessions hold
  \* uploads
  mUploadsMap,          \* the UploadFileEngine objects
  mInitialUploadsMap,   \* session -> engines waiting for it
  uploadSession,        \* upload -> the session of its engines
  uploadedParts,        \* engine -> mUploadedParts
  sentMedia,            \* uploads whose metadata was sent
  \* downloads
  mDownloadsMap,        \* query identifier -> download
  mInitialDownloadsMap, \* session -> downloads waiting for it
  mActiveDownloadsMap, mCancelDownloadsMap,
  downloadSession,      \* download -> session of its DownloadFile, if it exists
  bytes,                \* download -> what it received
  finished,             \* downloads whose last part was emitted
  \* others
  transfers,            \* data center -> its session in a transfer of DcProvider
  asked,                \* the calls made
  answered,             \* the parts of uploads whose query was answered
  unanswered,           \* parts whose query got no answer, or an error
  drops, migrations, renames, offlines

uploadVars   == <<mUploadsMap, mInitialUploadsMap, uploadSession,
                  uploadedParts, sentMedia, answered>>
downloadVars == <<mDownloadsMap, mInitialDownloadsMap, mActiveDownloadsMap,
                  mCancelDownloadsMap, downloadSession, bytes, finished>>
boundVars    == <<drops, unanswered, migrations, renames, offlines>>

vars == <<manager, calls, mUploadsMap, mInitialUploadsMap, uploadSession,
          uploadedParts, sentMedia, answered, mDownloadsMap,
          mInitialDownloadsMap, mActiveDownloadsMap, mCancelDownloadsMap,
          downloadSession, bytes, finished, transfers, asked,
          drops, unanswered, migrations, renames, offlines>>

NoSession == 0
Offline   == -1
Block     == 2

EmptyMap           == [x \in {} |-> 0]
MapInsert(m, k, v) == [x \in DOMAIN m \cup {k} |-> IF x = k THEN v ELSE m[x]]
MapRemove(m, k)    == [x \in DOMAIN m \ {k} |-> m[x]]
MapSet(m, k)       == IF k \in DOMAIN m THEN m[k] ELSE {}

-----------------------------------------------------------------------------
(* SessionManager                                                          *)

\* mDcResourceCounts[dc], mDcSessionIds.value(dc), mFileSessions, and for
\* every session made so far its DC, socket and connected slots.
InitManager ==
  [counts |-> [dc \in DCs |-> 0], ids |-> [dc \in DCs |-> NoSession],
   files |-> {}, sockets |-> <<>>]

Sessions    == DOMAIN manager.sockets
State(m, s) == m.sockets[s].state

\* The count and the session of a DC are set.
Counted(m, dc, count, s) ==
  [m EXCEPT !.counts = [@ EXCEPT ![dc] = count], !.ids = [@ EXCEPT ![dc] = s]]

\* createFileSession, and the session of the DC, NoSession when there is none.
Created(m, dc) ==
  LET new == Len(m.sockets) + 1
  IN  [session |-> new,
       manager |-> [counts |-> [m.counts EXCEPT ![dc] = 1], ids |-> [m.ids EXCEPT ![dc] = new],
                    files |-> m.files \cup {new},
                    sockets |-> Append(m.sockets, [dc |-> dc, state |-> "unconnected", slots |-> {}])]]
Shared(m, dc) == IF m.ids[dc] \in m.files THEN m.ids[dc] ELSE NoSession

\* Mutant: a session that is shared is not counted again.
AcquireUncounted(m, dc) ==
  IF m.counts[dc] = 0 THEN Created(m, dc) ELSE [session |-> Shared(m, dc), manager |-> m]

\* fileSession: the session handed out; the count may say that there is one
\* when there is none.
Acquire(m, dc) ==
  IF m.counts[dc] = 0 THEN Created(m, dc)
  ELSE [session |-> Shared(m, dc), manager |-> Counted(m, dc, m.counts[dc] + 1, m.ids[dc])]

\* Session::close; at once is whether the socket had nothing left to write.
CloseSession(m, s, atOnce) ==
  IF atOnce \/ State(m, s) = "unconnected"
  THEN [m EXCEPT !.files = @ \ {s}, !.sockets[s] = [dc |-> @.dc, state |-> "deleted", slots |-> {}]]
  ELSE [m EXCEPT !.sockets[s].state = "closing"]

\* Mutant: the count that reaches zero is not written back.
ReleaseUnwritten(m, s, atOnce) ==
  LET dc   == m.sockets[s].dc
      left == m.counts[dc] - 1
  IN  IF s \notin m.files THEN m
      ELSE IF left = 0 THEN CloseSession(Counted(m, dc, left + 1, NoSession), s, atOnce)
      ELSE Counted(m, dc, left, m.ids[dc])

\* Session::release and SessionManager::onSessionReleased.
Release(m, s, atOnce) ==
  LET dc   == m.sockets[s].dc
      left == m.counts[dc] - 1
  IN  IF s \notin m.files THEN m
      ELSE IF left = 0 THEN CloseSession(Counted(m, dc, 0, NoSession), s, atOnce)
      ELSE Counted(m, dc, left, m.ids[dc])

\* The same n times at once, for n files that have the session: what is left
\* when the session is closed changes nothing.
ReleaseTimes(m, s, n) ==
  LET dc == m.sockets[s].dc
  IN  IF s \notin m.files THEN m
      ELSE IF m.counts[dc] \in 1..n THEN CloseSession(Counted(m, dc, 0, NoSession), s, TRUE)
      ELSE Counted(m, dc, m.counts[dc] - n, m.ids[dc])

ConnectToServer(m, s) ==
  IF State(m, s) = "unconnected" THEN [m EXCEPT !.sockets[s].state = "connecting"] ELSE m

\* Mutant: a new listener takes the place of the others.
ConnectSlotAlone(m, s, slot) == [m EXCEPT !.sockets[s].slots = {slot}]

ConnectSlot(m, s, slot) == [m EXCEPT !.sockets[s].slots = @ \cup {slot}]

-----------------------------------------------------------------------------
(* Queries                                                                 *)

Call(id, s, f, from) == [id |-> id, session |-> s, file |-> f, from |-> from]
Part(f, from)        == [file |-> f, from |-> from]

\* Identifiers never repeat in the code.  Here those that nothing mentions
\* stand for the next ones.
UsedIds(c) == {r.id : r \in c} \cup DOMAIN mDownloadsMap
NewIds(c, parts) ==
  CHOOSE ids \in Injection(parts, (1..(Cardinality(UsedIds(c)) + Cardinality(parts))) \ UsedIds(c)) : TRUE

\* Session::sendQuery for these parts, when the socket is connected; and for
\* one part when it is not.
SendQueries(c, s, parts) ==
  c \cup {Call(NewIds(c, parts)[p], s, p.file, p.from) : p \in parts}
SendOffline(c, s, p) ==
  {r \in c : r.id # Offline \/ r.session # s} \cup {Call(Offline, s, p.file, p.from)}

\* The queries that are left when sessions are deleted with theirs.
Living(c, m) == {r \in c : State(m, r.session) # "deleted"}

Engine(u, type) == [op |-> u, type |-> type]
Engines         == {Engine(u, "Main") : u \in Uploads} \cup {Engine(u, "Thumbnail") : u \in Thumbs}

\* uploadSendFileParts; without a connection the last part is left.
PartsOf(e) == {Part(e, i) : i \in 0..(Parts - 1)}
SendParts(c, m, s, e) ==
  IF State(m, s) = "connected" THEN SendQueries(c, s, PartsOf(e)) ELSE SendOffline(c, s, Part(e, Parts - 1))

-----------------------------------------------------------------------------
(* Uploads                                                                 *)

FirstEngine(u) == Engine(u, IF u \in Thumbs THEN "Thumbnail" ELSE "Main")

\* uploadSendFile.  Without a session it returns 0; the variant that takes
\* the path of the file has no such check.
UploadSendFile(u) ==
  LET a == Acquire(manager, WorkingDc)
      s == a.session
  IN
  /\ u \notin asked
  /\ asked' = asked \cup {u}
  /\ IF s = NoSession
     THEN /\ manager' = a.manager
          /\ UNCHANGED <<uploadVars, calls>>
     ELSE /\ uploadSession' = [uploadSession EXCEPT ![u] = s]
          /\ mUploadsMap' = mUploadsMap \cup {e \in Engines : e.op = u}
          /\ UNCHANGED <<uploadedParts, sentMedia, answered>>
          /\ IF State(a.manager, s) = "connected"
             THEN /\ manager' = a.manager
                  /\ calls' = SendParts(calls, a.manager, s, FirstEngine(u))
                  /\ UNCHANGED mInitialUploadsMap
             ELSE /\ manager' = ConnectToServer(ConnectSlot(a.manager, s, "upload"), s)
                  /\ mInitialUploadsMap' =
                       MapInsert(mInitialUploadsMap, s, MapSet(mInitialUploadsMap, s) \cup {FirstEngine(u)})
                  /\ UNCHANGED calls
  /\ UNCHANGED <<downloadVars, transfers, boundVars>>

\* onUploadSaveFilePartResult: the flag that says whether the server saved the
\* part is not looked at, so one it refused counts like the others.
SaveFilePartResult(r) ==
  /\ r.file \in mUploadsMap /\ r.id # Offline
  /\ uploadedParts' = [uploadedParts EXCEPT ![r.file] = @ + 1]
  /\ answered' = answered \cup {<<r.file, r.from>>}

\* Mutant: the last part is not waited for.
IsCompleteEarly(e) == uploadedParts[e] + 2 >= Parts

IsComplete(e) == uploadedParts[e] + 1 = Parts

PartResult(r) ==
  /\ SaveFilePartResult(r) /\ ~IsComplete(r.file)
  /\ calls' = calls \ {r}
  /\ UNCHANGED <<manager, mUploadsMap, mInitialUploadsMap, uploadSession, sentMedia,
                 downloadVars, transfers, asked, boundVars>>

\* The thumbnail is complete: the main file follows.
ThumbnailResult(r) ==
  LET s    == uploadSession[r.file.op]
      lost == IF State(manager, s) = "connected" THEN 0 ELSE 1
  IN
  /\ SaveFilePartResult(r) /\ IsComplete(r.file) /\ r.file.type = "Thumbnail"
  /\ offlines + lost <= MaxOffline /\ offlines' = offlines + lost
  /\ calls' = SendParts(calls \ {r}, manager, s, Engine(r.file.op, "Main"))
  /\ UNCHANGED <<manager, mUploadsMap, mInitialUploadsMap, uploadSession, sentMedia,
                 downloadVars, transfers, asked, drops, unanswered, migrations, renames>>

\* The main file is complete: the thumbnail is destroyed, the metadata sent
\* and the main file destroyed.  The destructor of each releases the session.
MainResult(r, atOnce) ==
  LET u == r.file.op
      s == uploadSession[u]
      m == IF u \in Thumbs THEN Release(manager, s, atOnce) ELSE manager
  IN
  /\ SaveFilePartResult(r) /\ IsComplete(r.file) /\ r.file.type = "Main"
  /\ sentMedia' = sentMedia \cup {u}
  /\ mUploadsMap' = {e \in mUploadsMap : e.op # u}
  /\ manager' = Release(m, s, atOnce)
  /\ calls' = Living(calls \ {r}, manager')
  /\ UNCHANGED <<mInitialUploadsMap, uploadSession, downloadVars, transfers, asked, boundVars>>

-----------------------------------------------------------------------------
(* Downloads                                                               *)

\* The download f gets the session s of the manager m, asks it for the first
\* part or waits for it.  A session that is not connecting is told to, and
\* the files that waited for it are replaced by f and destroyed.  The map and
\* the queries are those the caller left.
Start(f, m, s, map, c) ==
  LET connects == State(m, s) \notin {"connecting", "connected"}
      waiting  == MapSet(mInitialDownloadsMap, s)
      replaced == IF connects THEN waiting ELSE {}
  IN
  /\ downloadSession' = [d \in Downloads |-> IF d = f THEN s
                                             ELSE IF d \in replaced THEN NoSession
                                             ELSE downloadSession[d]]
  /\ manager' = IF connects
                THEN ConnectToServer(ConnectSlot(ReleaseTimes(m, s, Cardinality(replaced)), s, "download"), s)
                ELSE m
  /\ IF State(m, s) = "connected"
     THEN /\ calls' = SendQueries(c, s, {Part(f, 0)})
          /\ mDownloadsMap' = MapInsert(map, NewIds(c, {Part(f, 0)})[Part(f, 0)], f)
          /\ UNCHANGED mInitialDownloadsMap
     ELSE /\ calls' = c
          /\ mDownloadsMap' = map
          /\ mInitialDownloadsMap' =
               MapInsert(mInitialDownloadsMap, s, {f} \cup (waiting \ replaced))

\* uploadGetFile: without a session it returns 0.
UploadGetFile(f) ==
  LET a == Acquire(manager, DcNum[f])
      s == a.session
  IN
  /\ f \notin asked
  /\ asked' = asked \cup {f}
  /\ IF s = NoSession
     THEN /\ manager' = a.manager
          /\ UNCHANGED <<downloadVars, calls>>
     ELSE /\ mActiveDownloadsMap' = mActiveDownloadsMap \cup {f}
          /\ Start(f, ConnectSlot(a.manager, s, "rename"), s, mDownloadsMap, calls)
          /\ UNCHANGED <<mCancelDownloadsMap, bytes, finished>>
  /\ UNCHANGED <<uploadVars, transfers, boundVars>>

\* onUploadGetFileAnswer takes the download filed under the identifier.
Taken(r) == r.file \in Downloads /\ r.id \in DOMAIN mDownloadsMap /\ r.id # Offline

\* The units of the file that the query asked for.
UnitsOf(f, from) ==
  IF from + Block <= Length[f] THEN Block ELSE IF from < Length[f] THEN Length[f] - from ELSE 0
PartOf(r) == [i \in 1..UnitsOf(r.file, r.from) |-> <<r.file, r.from + i>>]

\* The size the download ends at, 0 while it is not known, when it received
\* the part got.
ExpectedSize(f, got) ==
  IF f \in SizedDownloads THEN Length[f]
  ELSE IF Len(got) < Block THEN Len(bytes[f]) + Len(got) ELSE 0

\* Mutant: the end is one unit early.
IsLastPartShort(f, got) ==
  ExpectedSize(f, got) # 0 /\ Len(bytes[f]) + Len(got) + 1 >= ExpectedSize(f, got)

IsLastPart(f, got) ==
  ExpectedSize(f, got) # 0 /\ Len(bytes[f]) + Len(got) >= ExpectedSize(f, got)

\* The DownloadFile of f is destroyed and its session released.
Destroy(r, f, atOnce) ==
  /\ manager' = Release(manager, downloadSession[f], atOnce)
  /\ calls' = Living(calls \ {r}, manager')
  /\ mDownloadsMap' = MapRemove(mDownloadsMap, r.id)
  /\ mActiveDownloadsMap' = mActiveDownloadsMap \ {f}
  /\ downloadSession' = [downloadSession EXCEPT ![f] = NoSession]

CancelledAnswer(r, atOnce) ==
  LET f == mDownloadsMap[r.id]
  IN
  /\ Taken(r) /\ f \in mCancelDownloadsMap
  /\ mCancelDownloadsMap' = mCancelDownloadsMap \ {f}
  /\ Destroy(r, f, atOnce)
  /\ UNCHANGED <<mInitialDownloadsMap, bytes, finished, uploadVars, transfers, asked, boundVars>>

LastAnswer(r, atOnce) ==
  LET f == mDownloadsMap[r.id]
  IN
  /\ Taken(r) /\ f \notin mCancelDownloadsMap /\ IsLastPart(f, PartOf(r))
  /\ bytes' = [bytes EXCEPT ![f] = @ \o PartOf(r)]
  /\ finished' = finished \cup {f}
  /\ Destroy(r, f, atOnce)
  /\ UNCHANGED <<mInitialDownloadsMap, mCancelDownloadsMap, uploadVars, transfers, asked, boundVars>>

\* The next part is asked for.  Issued without a connection, its query takes
\* the place of the download already filed under Offline, which is destroyed.
PartAnswer(r, atOnce) ==
  LET f       == mDownloadsMap[r.id]
      s       == downloadSession[f]
      rest    == MapRemove(mDownloadsMap, r.id)
      next    == Part(f, Len(bytes[f]) + Len(PartOf(r)))
      offline == State(manager, s) # "connected"
      id      == IF offline THEN Offline ELSE NewIds(calls \ {r}, {next})[next]
      lost    == offline /\ Offline \in DOMAIN rest
  IN
  /\ Taken(r) /\ f \notin mCancelDownloadsMap /\ ~IsLastPart(f, PartOf(r))
  /\ offline => offlines < MaxOffline
  /\ offlines' = IF offline THEN offlines + 1 ELSE offlines
  /\ bytes' = [bytes EXCEPT ![f] = @ \o PartOf(r)]
  /\ mDownloadsMap' = MapInsert(rest, id, f)
  /\ manager' = IF lost THEN Release(manager, downloadSession[rest[Offline]], atOnce) ELSE manager
  /\ downloadSession' = IF lost THEN [downloadSession EXCEPT ![rest[Offline]] = NoSession] ELSE downloadSession
  /\ calls' = Living(IF offline THEN SendOffline(calls \ {r}, s, next) ELSE SendQueries(calls \ {r}, s, {next}),
                     manager')
  /\ UNCHANGED <<mInitialDownloadsMap, mActiveDownloadsMap, mCancelDownloadsMap, finished,
                 uploadVars, transfers, asked, drops, unanswered, migrations, renames>>

\* onUploadGetFileError with FILE_MIGRATE: the session is released and one to
\* the other DC taken, whose updateMessageId is not connected.
MigrateAnswer(r, dc, atOnce) ==
  LET f == mDownloadsMap[r.id]
      m == Release(manager, downloadSession[f], atOnce)
      a == Acquire(m, dc)
  IN
  /\ Taken(r) /\ r.from = 0 /\ dc # manager.sockets[r.session].dc
  /\ migrations < MaxMigrations /\ migrations' = migrations + 1
  /\ a.session # NoSession
  /\ Start(f, a.manager, a.session, MapRemove(mDownloadsMap, r.id), Living(calls \ {r}, m))
  /\ UNCHANGED <<mActiveDownloadsMap, mCancelDownloadsMap, bytes, finished,
                 uploadVars, transfers, asked, drops, unanswered, renames, offlines>>

\* These queries get no answer, or an error.
GoUnanswered(gone) ==
  /\ unanswered' = unanswered \cup {Part(r.file, r.from) : r \in gone}
  /\ Cardinality(unanswered') <= MaxUnanswered

\* An answer to no download known, another error, or a query the session
\* discards: nothing else changes.
UnheardQuery(r) ==
  /\ \/ r.file \in Downloads /\ ~Taken(r) /\ r.id # Offline /\ UNCHANGED unanswered
     \/ GoUnanswered({r})
  /\ calls' = calls \ {r}
  /\ UNCHANGED <<manager, uploadVars, downloadVars, transfers, asked, drops, migrations, renames, offlines>>

\* Mutant: a download that is not active can be cancelled too.
UploadCancelFileAny(f) ==
  /\ f \notin mCancelDownloadsMap
  /\ mCancelDownloadsMap' = mCancelDownloadsMap \cup {f}
  /\ UNCHANGED <<manager, calls, uploadVars, mDownloadsMap, mInitialDownloadsMap, mActiveDownloadsMap,
                 downloadSession, bytes, finished, transfers, asked, boundVars>>

\* uploadCancelFile: of a download that is not active nothing is kept.
UploadCancelFile(f) ==
  /\ f \in mActiveDownloadsMap /\ f \notin mCancelDownloadsMap
  /\ mCancelDownloadsMap' = mCancelDownloadsMap \cup {f}
  /\ UNCHANGED <<manager, calls, uploadVars, mDownloadsMap, mInitialDownloadsMap, mActiveDownloadsMap,
                 downloadSession, bytes, finished, transfers, asked, boundVars>>

-----------------------------------------------------------------------------
(* Sessions                                                                *)

\* The session gives the query a new identifier; onUpdateMessageId moves the
\* download filed under the old one, if it hears of it.
UpdateMessageId(r) ==
  LET part  == Part(r.file, r.from)
      id    == NewIds(calls, {part})[part]
      moves == "rename" \in manager.sockets[r.session].slots /\ r.id \in DOMAIN mDownloadsMap
  IN
  /\ State(manager, r.session) = "connected"
  /\ \/ r.id = Offline /\ UNCHANGED renames
     \/ r.id # Offline /\ renames < MaxRenames /\ renames' = renames + 1
  /\ calls' = (calls \ {r}) \cup {[r EXCEPT !.id = id]}
  /\ mDownloadsMap' = IF moves THEN MapInsert(MapRemove(mDownloadsMap, r.id), id, mDownloadsMap[r.id])
                      ELSE mDownloadsMap
  /\ UNCHANGED <<manager, uploadVars, mInitialDownloadsMap, mActiveDownloadsMap, mCancelDownloadsMap,
                 downloadSession, bytes, finished, transfers, asked, drops, unanswered, migrations, offlines>>

\* The parts of the files that wait, and the map with the downloads among
\* them under the identifiers of their queries.
PartsFor(ups, downs) == (UNION {PartsOf(e) : e \in ups}) \cup {Part(f, 0) : f \in downs}
WithIds(map, ids, downs) ==
  [id \in DOMAIN map \cup {ids[Part(f, 0)] : f \in downs} |->
     IF id \in DOMAIN map THEN map[id] ELSE CHOOSE f \in downs : ids[Part(f, 0)] = id]

\* sessionReady: onUploadSendFileSessionCreated and
\* onUploadGetFileSessionCreated, if connected, take the files that wait.
SessionReady(s) ==
  LET hears(x) == x \in manager.sockets[s].slots
      ups      == IF hears("upload") THEN MapSet(mInitialUploadsMap, s) ELSE {}
      downs    == IF hears("download") THEN MapSet(mInitialDownloadsMap, s) ELSE {}
      parts    == PartsFor(ups, downs)
  IN
  /\ State(manager, s) = "connecting"
  /\ manager' = [manager EXCEPT !.sockets[s].state = "connected"]
  /\ calls' = SendQueries(calls, s, parts)
  /\ mDownloadsMap' = WithIds(mDownloadsMap, NewIds(calls, parts), downs)
  /\ mInitialUploadsMap' = IF hears("upload") THEN MapRemove(mInitialUploadsMap, s) ELSE mInitialUploadsMap
  /\ mInitialDownloadsMap' = IF hears("download") THEN MapRemove(mInitialDownloadsMap, s) ELSE mInitialDownloadsMap
  /\ UNCHANGED <<mUploadsMap, uploadSession, uploadedParts, sentMedia, answered, mActiveDownloadsMap,
                 mCancelDownloadsMap, downloadSession, bytes, finished, transfers, asked, boundVars>>

\* Connection::onError; the socket is told to connect again by a timer.  What
\* was written and is lost stays with the session, which does not send it again.
ConnectionLost(s) ==
  /\ State(manager, s) \in {"connecting", "connected"}
  /\ drops < MaxDrops /\ drops' = drops + 1
  /\ manager' = [manager EXCEPT !.sockets[s].state = "unconnected"]
  /\ \E gone \in SUBSET {r \in calls : r.session = s /\ r.id # Offline} :
       GoUnanswered(gone) /\ calls' = calls \ gone
  /\ UNCHANGED <<uploadVars, downloadVars, transfers, asked, migrations, renames, offlines>>

Reconnect(s) ==
  /\ State(manager, s) = "unconnected"
  /\ manager' = ConnectToServer(manager, s)
  /\ UNCHANGED <<calls, uploadVars, downloadVars, transfers, asked, boundVars>>

\* sessionClosed and SessionManager::onSessionClosed.  A socket whose last
\* error was RemoteHostClosedError never emits it: the step may stay away.
SessionClosed(s) ==
  /\ State(manager, s) = "closing"
  /\ manager' = CloseSession(manager, s, TRUE)
  /\ calls' = Living(calls, manager')
  /\ UNCHANGED <<uploadVars, downloadVars, transfers, asked, boundVars>>

\* DcProvider::transferAuth takes a session, onAuthImportedAuthorization
\* releases it.
TransferAuth(dc) ==
  LET a == Acquire(manager, dc)
  IN
  /\ dc \notin asked
  /\ asked' = asked \cup {dc}
  /\ a.session # NoSession
  /\ manager' = ConnectToServer(a.manager, a.session)
  /\ transfers' = MapInsert(transfers, dc, a.session)
  /\ UNCHANGED <<calls, uploadVars, downloadVars, boundVars>>

TransferEnds(dc, atOnce) ==
  /\ dc \in DOMAIN transfers /\ State(manager, transfers[dc]) = "connected"
  /\ transfers' = MapRemove(transfers, dc)
  /\ manager' = Release(manager, transfers[dc], atOnce)
  /\ calls' = Living(calls, manager')
  /\ UNCHANGED <<uploadVars, downloadVars, asked, boundVars>>

-----------------------------------------------------------------------------

Init ==
  /\ manager = InitManager
  /\ calls = {}
  /\ mUploadsMap = {} /\ mInitialUploadsMap = EmptyMap
  /\ uploadSession = [u \in Uploads |-> NoSession]
  /\ uploadedParts = [e \in Engines |-> 0]
  /\ sentMedia = {} /\ answered = {}
  /\ mDownloadsMap = EmptyMap /\ mInitialDownloadsMap = EmptyMap
  /\ mActiveDownloadsMap = {} /\ mCancelDownloadsMap = {}
  /\ downloadSession = [d \in Downloads |-> NoSession]
  /\ bytes = [d \in Downloads |-> <<>>]
  /\ finished = {}
  /\ transfers = EmptyMap /\ asked = {}
  /\ drops = 0 /\ unanswered = {} /\ migrations = 0 /\ renames = 0 /\ offlines = 0

AnswerReceived(r, atOnce) ==
  \/ PartResult(r) \/ ThumbnailResult(r) \/ MainResult(r, atOnce)
  \/ CancelledAnswer(r, atOnce) \/ LastAnswer(r, atOnce) \/ PartAnswer(r, atOnce)

Next ==
  \/ \E u \in Uploads : UploadSendFile(u)
  \/ \E f \in Downloads : UploadGetFile(f) \/ UploadCancelFile(f)
  \/ \E r \in calls, atOnce \in BOOLEAN : AnswerReceived(r, atOnce)
  \/ \E r \in calls, atOnce \in BOOLEAN, dc \in DCs : MigrateAnswer(r, dc, atOnce)
  \/ \E r \in calls : UnheardQuery(r) \/ UpdateMessageId(r)
  \/ \E s \in Sessions : SessionReady(s) \/ ConnectionLost(s) \/ Reconnect(s) \/ SessionClosed(s)
  \/ \E dc \in TransferDcs : TransferAuth(dc)
  \/ \E dc \in TransferDcs, atOnce \in BOOLEAN : TransferEnds(dc, atOnce)

\* The timers and the event loop of the sessions run, and the servers answer
\* what was not lost, on sessions that are connected.
Fairness ==
  /\ WF_vars(\E s \in Sessions : SessionReady(s) \/ Reconnect(s))
  /\ WF_vars(\E r \in calls, atOnce \in BOOLEAN :
               State(manager, r.session) = "connected" /\ AnswerReceived(r, atOnce))
  /\ WF_vars(\E r \in calls : r.id = Offline /\ UpdateMessageId(r))

Spec == Init /\ [][Next]_vars /\ Fairness

-----------------------------------------------------------------------------
(* Properties                                                              *)

Files      == Downloads \cup Engines
SocketType == [dc : DCs, state : {"unconnected", "connecting", "connected", "closing", "deleted"},
               slots : SUBSET {"upload", "download", "rename"}]

TypeOK ==
  /\ manager.counts \in [DCs -> Int] /\ manager.ids \in [DCs -> Nat]
  /\ \A s \in Sessions : manager.sockets[s] \in SocketType
  /\ manager.files \subseteq Sessions
  /\ \A r \in calls : r.file \in Files /\ r.session \in Sessions /\ r.id \in Int
  /\ mUploadsMap \subseteq Engines
  /\ uploadedParts \in [Engines -> 0..Parts]
  /\ sentMedia \subseteq Uploads /\ finished \subseteq Downloads
  /\ \A id \in DOMAIN mDownloadsMap : mDownloadsMap[id] \in Downloads
  /\ mCancelDownloadsMap \subseteq mActiveDownloadsMap
  /\ \A d \in Downloads : downloadSession[d] \in Sessions \cup {NoSession}

\* The downloads whose DownloadFile exists, and the uploads not finished.
LiveDownloads == {d \in Downloads : downloadSession[d] # NoSession}
LiveUploads   == {e.op : e \in mUploadsMap}

IsOpen(s) == s \in manager.files /\ State(manager, s) \in {"unconnected", "connecting", "connected"}

\* No session is closed while a file or a transfer of the authorization uses
\* it: release is called by the destructor of every file and once more when a
\* download migrates, in an order no one decides (core/sessionmanager.cpp:79).
UsedSessionsAreOpen ==
  /\ \A d \in LiveDownloads : IsOpen(downloadSession[d])
  /\ \A u \in LiveUploads : IsOpen(uploadSession[u])
  /\ \A dc \in DOMAIN transfers : IsOpen(transfers[dc])

\* When nothing uses the sessions to a DC none is counted, so that the next
\* fileSession makes one instead of looking for the one that was closed.
IdleCountsAreZero ==
  \A dc \in DCs :
    \/ manager.counts[dc] = 0
    \/ \E s \in {downloadSession[d] : d \in LiveDownloads} \cup {uploadSession[u] : u \in LiveUploads}
               \cup {transfers[x] : x \in DOMAIN transfers} :
         manager.sockets[s].dc = dc

\* What a download received is at any time a beginning of its own file, and
\* all of it when the end is reported: renamed, cancelled and migrated
\* downloads never mix (file/filehandler.cpp:305).  It takes that no two parts
\* were asked for without a connection: RequestFindsFile fails when they are.
DownloadsAreOwn ==
  offlines < 2 =>
    \A d \in Downloads :
      /\ bytes[d] = [i \in 1..Len(bytes[d]) |-> <<d, i>>]
      /\ d \in finished => Len(bytes[d]) = Length[d]

\* "requestId -> physical downloading file details", file/filehandler.h:60: the
\* file found under a request is the one the request asks for.
RequestFindsFile ==
  \A r \in calls : r.id \in DOMAIN mDownloadsMap => mDownloadsMap[r.id] = r.file

\* The metadata of an upload is sent when the server has answered every part of
\* the file and of its thumbnail, whatever else shares the session.  (A part it
\* answered that it did not save counts, too: file/filehandler.cpp:139.)
MediaIsAnswered ==
  \A u \in sentMedia, e \in Engines : e.op = u => \A p \in 0..(Parts - 1) : <<e, p>> \in answered

OwnUnanswered(u) == {p \in unanswered : p.file \in Engines /\ p.file.op = u}

\* An upload is completed, whatever else the session it shares is used for and
\* however often the connection is lost (file/filehandler.cpp:139), if none of
\* its own queries stays without an answer (one that is lost with a connection,
\* discarded or answered with an error is not sent again) and no part is asked
\* for without a connection: the parts of a file sent then replace each other.
UploadsComplete ==
  \A u \in Uploads : (u \in asked /\ [](OwnUnanswered(u) = {} /\ offlines = 0)) ~> (u \in sentMedia)

\* dcId -> 'resources using' count (files being downloading using this
\* session), core/sessionmanager.h:62.
CountsCoverDownloads ==
  \A dc \in DCs :
    Cardinality({d \in LiveDownloads : manager.sockets[downloadSession[d]].dc = dc}) <= manager.counts[dc]

=============================================================================

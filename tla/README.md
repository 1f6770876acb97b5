# A TLA+ verification of SailorGram's Telegram client

This directory specifies the core of the client in `src/`: the C++ library
`libqtelegram-aseman-edition` that talks to the Telegram servers, and what the
layers above it rely on. The specifications are written from the code; paths
below are relative to `src/`. TLC checks them on small instances, TLAPS proves
the safety properties of most of them for every value of the constants.

## 1. The system

Everything runs in one thread on Qt's event loop (the two worker threads, of the
database and of the thumbnails, only do I/O). What makes the code hard is
therefore not shared memory but the order in which handlers run: timers, socket
events, queued packets, answers and calls of the user interface come in any
order, each handler runs to its end, and connections, identifiers and objects
may be different when the next handler of the same operation runs.

| Component | State it keeps | Operations | Talks to |
|---|---|---|---|
| `core/connection.cpp` Connection | the socket, half-read packets | connect, reconnect by timer after an error, queue complete packets | Session, DCAuth inherit it |
| `core/session.cpp`, `query.cpp`, `eventtimer.cpp` Session | salt, sequence number, last message identifier, pending queries with timers and resends, pending acknowledgements with timers | sendQuery, resendQuery, recomposeAndSendQuery, handlers of rpc_result, msgs_ack, bad_server_salt, bad_msg_notification, containers and updates, acknowledgements | callers through results, errors, `updateMessageId` |
| `core/dcauth.cpp` DCAuth | state of a DC's handshake | four messages of the key exchange | DcProvider through `dcReady`, `fatalError` |
| `core/dcprovider.cpp` DcProvider | the DCs, handshakes under way, pending DCs, transfer sessions | initialize, onDcReady, onApiReady, onApiError, onConfigReceived, transferAuth, export and import, logOut | Settings (file), Api, Telegram |
| `core/sessionmanager.cpp` SessionManager | main session, file sessions, their DCs and use counts | fileSession, release, close, change of the main session | FileHandler, DcProvider, Session |
| `file/` FileHandler, UploadFileEngine, DownloadFile | uploads and downloads by file or request, lists waiting for a session, active and cancelled downloads | uploadSendFile, uploadGetFile, uploadCancelFile, part results, FILE_MIGRATE, updateMessageId | SessionManager, Session |
| `core/settings.cpp` Settings | the file of DCs and keys, the file of secret chats | read and write whole files | DcProvider, SecretState |
| `telegram.cpp`, `secret/` secret chats | chats by identifier (or request), keys, sequence numbers, the prime they are computed with | request, accept, discard, load and save, send, receive, gaps | Session's updates, Settings |
| `telegram.cpp`, `core/api.cpp` facade | the logged-in user | one method and one answer per server call | everything above |
| `TelegramQML/telegramqml.cpp` | caches of dialogs, messages, users, requests under way | send, receive, delete messages, histories and chats, refresh, clean-up and freeing by timers | Telegram, Database, models |
| `TelegramQML/` database, models, thumbnailer, profiles | tables, lists | SQL, list updates | TelegramQml |
| `harbour-sailorgram/` SailorGram | notifications of the dialogs, closings that are due, the dialog in the foreground | notify, closeNotification, the timer of a closing, signals of the phone; pages, daemon mode | TelegramQml's messages, D-Bus |

`PROJECT.json` lists them all with their status, and the hazards of the code at
their lines. What makes the parts correct:

* **Session** — every call gets at most one answer, the answer to its own query,
  whatever is lost, repeated, late, renamed or rejected; no query that was
  written is forgotten; acknowledgements are bounded and sent.
* **DcProvider** — a start ends, ready with a key for every DC or with an error;
  readiness is told once; the file is always one the next start can use; the
  sign-in reaches every DC, and only with the bytes exported for it.
* **SessionManager and FileHandler** — no session is closed while it is used; no
  count remains without a user; a download holds only bytes of its own file; an
  upload is announced when every part of it was answered.
* **Secret chats** — a chat is accepted on both sides with one key, whatever prime
  is current by then; the file is what memory is; no handler uses a deleted
  chat; a text is shown at most once and in the order of sending.
* **TelegramQml** — what a list shows is stored, or came in an update, with one entry for each text that
  was sent; no freed object is used; a wish to delete is carried to its end.
* **SailorGram** — the notification of a message that was read on another client goes.

## 2. Modules

| Module | Models | Composed with |
|---|---|---|
| `RpcCalls` | the contract of a session: a call is issued, executed by the server, answered at most once, only after its own execution, or discarded | abstract |
| `Session` | Session, Query, EventTimer, the reconnecting part of Connection, and the server at the other end of the socket | implements `RpcCalls` |
| `MCSession` | the symmetry of the calls | |
| `SessionProofs` | theorems about `Session` and their proofs | |
| `DcProvider` | DcProvider, DCAuth, the authorization file, the callers in Telegram and TelegramQml | |
| `DcProviderProofs` | theorems about `DcProvider` and their proofs | |
| `FileHandler` | FileHandler, UploadFileEngine, DownloadFile, the file sessions of SessionManager, and the uses DcProvider makes of them | takes of `Session` what `RpcCalls` and `updateMessageId` promise |
| `MCFileHandler` | sizes and DCs of the downloads | |
| `FileHandlerProofs` | theorems about `FileHandler` and their proofs | |
| `SecretChats` | request, acceptance and discarding of secret chats, the map of chats and its file, the server's record of a chat and a peer | |
| `SecretChatsProofs` | theorems about `SecretChats` and their proofs | |
| `SecretKeysProofs` | theorems about the keys and the file of `SecretChats` and their proofs | |
| `OnceChannel` | what the users of a secret chat may rely on: at most once, in order | abstract |
| `SecretChannel` | the messages of an accepted chat between two clients: numbers, gaps, saved counts | implements `OnceChannel` |
| `SecretChannelProofs` | theorems about `SecretChannel` and their proofs | |
| `MessageCache` | TelegramQml's messages and dialogs, the deletions, the two timers that free objects, the pages that start them, the server | takes of `Session` an identifier that may be -1 |
| `MessageCacheProofs` | theorems about `MessageCache` and their proofs | |
| `Notifications` | SailorGram's notifications, their closing by timers, pages and the phone, and of TelegramQml the messages they belong to | takes of TelegramQml its messages' signals and when it frees them |
| `NotificationsProofs` | theorems about `Notifications` and their proofs | |

### Session and RpcCalls

Variables carry the names of the members: `pending` is `m_pendingQueries`
(identifier to query), `query` the Query objects by call, `pendingAcks` the
keys of `m_pendingAcks` and `ackTimers` those whose timer still runs, `lastMsgId`
is `m_clientLastMsgId`. `toServer` and `toClient` are the two directions of the
connection; the packets of `toClient` include those the event loop has yet to
process, which survive the loss of the connection. A handler is an action: `SendQuery`, `QueryTimeout`
(resendQuery), `AckTimeout`, `ProcessPacket` with one operator per packet
(`WorkRpcResult`, `WorkMsgsAck`, `WorkBadServerSalt`, `WorkBadMsgNotification`,
`WorkOther`), `ConnectToServer`, `OnConnected`, `OnError`. The server executes
queries, answers, answers again, acknowledges, changes its salt and rejects
messages. A query made while the socket is away gets the identifier `Offline`
(-1), as `encryptSendMessage` does.

The refinement maps a call to its outcome (*none*, *live*, *answered*, *failed*,
*discarded*) and to whether the server executed it; the run
`session_safety` checks `RpcSpec` (`INSTANCE RpcCalls WITH ...`) and
`SessionProofs!Implements` proves it, both without restarts of the identifiers
(`MaxResyncs = 0`): after one, an identifier can be given twice, and a late
answer to its first use can reach the second. The properties about answers are
guarded accordingly (`resyncs = 0`).

Left out: a container is a sequence of packets; the misreading of the rest of
a container after an unknown identifier in `workMsgsAck`; an answer sent again is a
packet of its own; other sessions that share the static `m_clientLastMsgId`;
`close` and `release`, which are in `FileHandler`; the decoding of packets.

### DcProvider

`mDcs` holds the `DC::DcState` of each known DC, `auths` the handshakes under
way, `api` the main session, `stored` what `writeAuthFile` last wrote,
`transferSessions` is `mTransferSessions`, `pendingTransfers`
`mPendingTransferSessions`. Actions are the handlers; `Restart` kills the process and
starts it from `stored`. Handshakes are taken without their cryptography: an
answer is right or wrong. A lost connection is retried, as `Connection::onError`
does for the errors it retries. The configuration names every DC once, and at
least two. Not modelled: a rejected configuration request, a second sign-in of
another user while one is being transferred, and a MIGRATE to an unknown DC
(the code dereferences null there).

### FileHandler

`manager` is SessionManager (`counts`, `ids`, `files` for mDcResourceCounts,
mDcSessionIds, mFileSessions) and the socket and connected slots of every
session; `calls` are the queries the sessions hold. The maps of FileHandler keep
their names. The destructor of a file releases its session (`file/file.h:56`), so
every place where the last pointer to a file goes is a `Release`, including the
places where a map entry is overwritten. A socket that has nothing left to write
closes at once, another later: both are allowed (`atOnce`). A query gets at most one
answer. One that was written when its connection is lost may be lost with it
(`ConnectionLost` picks which), and so is one that is discarded or refused: nothing sends it again, as
`resendQueries` is off by default (`settings.cpp:196`, `session.cpp:534`). `unanswered` are the
parts this happened to, `answered` those of uploads whose answer came. The flag in that
answer, whether the server saved the part, is not looked at (`filehandler.cpp:139`); hence the model has
no set of saved parts, and what holds of an announced upload is that all of it was answered (`MediaIsAnswered`). File contents are
sequences of units `<<download, i>>`, so that mixing two files would show.
Identifiers of queries never repeat in the code (all sessions share the static
`m_clientLastMsgId`; that a rejected time restarts it is in `Session`); in the model
`NewIds` gives any that no query and no entry mentions. Loops that issue or release
one by one are one step over a set: `SendQueries` for the parts of the files that waited
(`SessionReady`) or of one upload, `ReleaseTimes` for the downloads that are replaced.

Left out: the answer to the metadata and the contents and encryption of parts;
`uploadSendFile` without a session stops (the variant that takes paths would
dereference null, the other returns 0); a file migrates only at its first part,
as the servers do. A transfer of the authorization that finds the session
connected already hears no sessionReady and stalls in the code; the model only
needs when it takes and releases the session.

### SecretChats

`mChats` is the map of `SecretState` from identifiers to objects; while a chat waits
for the DH configuration its key is the identifier of the request
(`telegram.cpp:701`). Objects have identities, so that two keys may lead to
one object and a deleted object may still be in the map; `fault` is set where the
code would use a deleted object or a null pointer or stop in an `ASSERT`. `stored` is the
file of secret chats. The prime `mP` is one for all chats, as `SecretState::p` is, and
the server may change it between any two steps. Diffie-Hellman is `Power` and
`SharedKey`: two sides get the same key exactly if they used the same prime and each
other's values. The server has a record for each chat; the peer requests, accepts
and discards as it likes. An answer comes with the identifier of its request unless the
session was away or renamed the query (`Told`).

Faults the model shows, which `FaultsNeedDiscard` excepts by name: an
ENCRYPTION_ALREADY_DECLINED that answers an acceptance is taken for the answer to a
discard and aborts (`telegram.cpp:1079`, `:809`); a discard that crosses
the peer's finds the chat gone (`:1014`, `:457`); the DH configuration that comes under
another identifier than the request had aborts (`:722`). What remains is the claim: without one
of these, no handler uses a deleted chat, also when a Requested update comes twice and makes a
second object (`:935`); that repeat is excepted by `KeysAgree` and `FileIsCurrent` only.

Left out: bad DH parameters, the update `encryptedChatWaiting` (nothing changes), the range
check of g^a, two requests that share -1, other sessions of the same user.

### SecretChannel and OnceChannel

Two clients, both running this code, with the counts of messages received and sent
(`inSeqNo`, `outSeqNo`), what their files have (`saved`), and the messages
under way in each direction (`wire`). A message carries its sender's two parameters,
doubled and with the bit of the side, as `getInSeqNoParam` and `getOutSeqNoParam` make
them. `Decrypt` follows `decrypter.cpp`: a message behind a gap is dropped and
asked for again; the expected one is processed; another is dropped. Each client starts with
the NotifyLayer message it sends in the handler that accepted the chat. `Lose`,
`Overtake`, a receive that leaves its message (a repeat) and `Kill` are the
disturbances; a kill loses what was sent and not written, and what came and was
before the state the client asks for afterwards.

The model shows that the code never acts on a request to send again: the
decoder recognises it and nothing answers it. A receiver stays
deaf after the first loss or overtaking, and asks again for each message behind
the gap. Two clients that are both behind a gap answer each request with a
request, for ever; `MaxMessages` cuts this. The range that is asked for starts at
the client's own *out* number, not at the expected *in* number (`decrypter.cpp:176`).
A comment (`decrypter.cpp:126`) speaks of a queue for messages behind a gap; there is
none. Hence the liveness claim, `TextsAreShown`, is for a direction without losses.

Left out: a kill between the save and the insertion into the database of TelegramQml, which loses the text
for the user; `mSequence`, which is not saved; encryption and contents.

### MessageCache

`cache` is the part of `TelegramQmlPrivate` that messages and dialogs live in, by the
names of its members, and `database` what was written to it. Messages have the
identifier of their post; a message that is being sent has a temporary one; a secret message is
filed by its date, so two may collide (`Stamped`). The first part of an identifier says how the
message came: a message of a group comes as itself (`post`) or in an update (`update`), as
the message of a departure always does. Those of updates are inserted with `tempMsg` set
(`telegramqml.cpp:4679`): they are listed and not stored (`:4407`) until a list of dialogs has them on top
(`InsertTops`). `CacheIsStored` excepts them as long as the database does not have them. `calls` are requests the server has not
executed, `toClient` its answers and updates in order. The user's actions are
those of the pages: `SendMessage`, `DeleteMessage`, `DeleteChat`, `ClearHistory`,
`LeaveGroup`, `MarkRead`, `Open`. Deleting a chat is the loop of the code: read first if
unread, ask for the full chat, leave it, delete the history, with the wish kept in
`deleteChatIds`. `FreeGarbages` is the timer of three seconds, `CleanUp` the one of a
minute after a dialog was left, `UpdateDialogs` the refresh.

Faults the model shows, excepted in the properties: the clean-up locks pending
messages by the identifiers of their requests, so one that is being sent when its dialog is left is freed
and used by the answer (`telegramqml.cpp:2693`, `:3352`); a secret chat's object is freed
three seconds after the chat was deleted and stays in `encchats` (`:5155`), where the next update
finds it; the messages of a deleted secret chat stay cached (`:5143`); a
secret message whose date another one has replaces it (`:3783`, `:4900`). Observed and not modelled:
`typeUpdateMessageID` looks a random identifier up in a map by request identifiers
(`:4595`), `pend_messages.remove` is given a message identifier (`:5230`); a failed request
leaves its mark in `deleteChatIds` (`:2045`).

Left out: files and uploads, the update that deletes messages, the start from the
database, dialogs with users, the offset of a deletion in several parts, the
branches of `messagesDeleteHistory` for secret chats (no page calls them), the locks
that searches and downloads hold.

### Notifications

`notifications`, `topmessages` and `foreground` are the members of SailorGram, `watched` the
messages whose `unreadChanged` it is connected to, `timers` the closings that run.
`_deletednotifications` is keyed by `timer->timerId()`, which is asked for before
`start` (`sailorgram.cpp:376`) and in the slot of a single-shot timer (`:320`); QTimer has no identifier
then and returns -1. The map is therefore the one entry `due`, and `DelayedCloseNotification`
closes whichever message was read last. `shown` are the notifications on the phone, `closing` the
signals that one was closed which the process has not handled. Of TelegramQml the model has the messages, what
makes them read (the update, and the answers of a refresh, whose assignment emits
`unreadChanged` without a change) and the two ways to free them. Time is kept as an order: three
seconds (`garbages`) end after the closings that were due in two.

Faults the model shows, excepted in the properties: two messages of different dialogs
read within two seconds leave the notification of the first (against
`rpm/harbour-sailorgram.changes:14`); so does a message that is deleted before its closing, where
the handler returns and keeps its entry (`:330`); the clean-up that comes between the
reading and the closing frees the message the closing then uses; a notification
published while the signal of its dismissal is under way loses its object, and nobody can close
it (`orphans`). A refresh that brings an old message again closes the notification of a newer, unread
one. Also seen: `setForegroundDialog` emits `foregroundDialog()`, the getter, instead of its signal
(`:167`), and `_topmessages` is written and never read.

Left out: a kill (the notifications of the last process stay), notifications without
a dialog, dialogs that are deleted, a refresh whose answer is older than a deletion.

## 3. Runs

| Run | Question | Bounds |
|---|---|---|
| `session_safety` | does each call get its own answer, is none forgotten, are acknowledgements bounded, does the session implement `RpcCalls`? | two calls (the least where answers can be confused), 2 packets of each other kind, one loss, one change of salt, one resend, MAX_PENDING_ACKS = 1 |
| `session_liveness` | is a call that the server does not even acknowledge answered or discarded in the end, are acknowledgements sent, do restarts of identifiers leave only live queries pending? | one call (the theorem `PendingLive` covers any number), one resend, one loss, one restart of identifiers, a clock that moves on |
| `session_init` | *violated*: is a query preceded by initConnection on each connection? | one loss |
| `dc` | does the provider become ready once and with all keys, does every start end, is the file always usable, does the sign-in reach the right DCs, and in the end all of them? | four DCs (the default, the home DC and two others, so that a transfer has two sessions to confuse), bounded losses, a kill, a log-out |
| `files` | are used sessions open and counted, are downloads their own? | two downloads, one upload, a transfer; one loss, one migration, one part asked for offline; files of one and of two parts |
| `files_uploads` | is the metadata sent after every part was answered, and in the end? | two parts, a thumbnail, a download on the same session; two losses, two parts unanswered, one migration, one renaming |
| `files_offline` | *violated*: is the file found under a request the one requested? | two losses, two parts offline |
| `files_thumbnail` | *violated*: do counts cover the downloads? | one upload with a thumbnail |
| `secret_chats` | do both sides of an accepted chat have one key, is the file what memory is, does a requested chat get accepted, is no deleted chat used? | two chats, three requests, one disturbance (a kill, a new prime, a repeated update or a renamed request) |
| `secret_channel` | does the chat implement `OnceChannel`, is no honest message refused, does only a loss lead to requests, are texts shown? | two texts and five messages of each client, three disturbances |
| `message_cache` | is what is listed stored unless it came in an update, are deletions carried to their end, is nothing freed used? | a group and a secret chat, two texts, two deletions, three events in all |
| `notifications` | does the notification of a read message go, is no freed message used by its closing? | two dialogs, three messages, three events besides |

The bounds are the least that show the case: two calls or files for mixing, one
loss to get offline identifiers and one reconnection, one change of salt to give
a query a second identifier, a limit of one acknowledgement to exceed it. Counters
are bounded in the guards by the `Max...` constants and by nothing else.

The runs of the last four modules have from 160,000 to 390,000 states. Their invariants
were also checked on larger instances than the runs keep: `SecretChats` with two
disturbances (1.1 million states) and with four requests (2.4 million), `SecretChannel` with
six messages (264,000), `MessageCache` with four events (8.6 million), `Notifications` with four (1.7 million).

Violated runs are disagreements between the code and a comment that says what
the code does; each is quoted in `PROJECT.json`:

* `session.h:111` says the initConnection flag stays set until the operation was
  executed; it is cleared by a query that is never written.
* `filehandler.h:60` says requests lead to their files; two parts asked for
  offline share one request, and after the reconnection one download is completed with
  the other's bytes (with `DownloadsAreOwn` unguarded, TLC shows this in 14 steps).
* `sessionmanager.h:62` says the count is the number of users; a thumbnail is
  released and was never counted, so the count falls to -1.

Properties that those faults touch say so in their guard: `DownloadsAreOwn` excludes
repeated offline parts, `UploadsComplete` offline parts and uploads a query of which stays unanswered (lost with
its connection, discarded or refused; unanswered queries of the download beside it are not excluded), `UsedSessionsAreOpen` and
`IdleCountsAreZero` are checked without thumbnails.

### Fairness

Timers, the event loop and scheduled reconnections are weakly fair: Qt delivers
them while the process runs. In `Session` the server is not fair: liveness says that
a query ends even if it is silent. `NoEndlessWait` has resends on: without them a
query may wait for ever, and so may one the server acknowledged. In `DcProvider` and `FileHandler` the servers answer and
the number of losses is bounded, because neither has timers of its own and each simply
waits; in `FileHandler` they answer only what was not lost, and on sessions that are connected. In `SecretChats` the event loop and the server's answers are fair and the peer is
not, in `SecretChannel` only the delivery to each client is, in `MessageCache` the server and the
delivery of what it sends; timers and users are not fair there. In `Notifications` only the timers of the
closings are. User actions (calls, cancellation, log-out, kill) are never fair; the sign-in and
the migration it leads to are, in `DcProvider`, as steps of a user who wants to start.

## 4. Proofs

`SessionProofs` proves for every set of calls and every bound:

* `TypeCorrect`, `PendingLive`: types, and that the map of pending queries holds
  live queries only, each under the identifier it was last sent with;
* `RepliesAreOwn`, `QueriesAreKept`, `SeqNosFollow`: each caller gets its own
  answer, no written query is forgotten, sequence numbers follow identifiers;
* `AcksStayArmed`, `AcksStayBounded`;
* `Implements`: with `MaxResyncs = 0`, `Spec => RpcSpec`.

The inductive invariant is `IInv == TypeInv /\ PendingIsLive /\ (resyncs = 0 =>
IdsInv)`. What a caller sees (`ReplyIsOwn`) is not inductive: it needs that every
identifier on the wire, in a packet or in the map is not above the last one
given, that each belongs to one call only, and that the answer in a packet is
the answer to the call its identifier was given to. `IdsInv` is the conjunction
of these facts; it fails after a restart of the identifiers, hence the guard.
`PendingIsLive` holds with restarts too and is proved without it. Each action
has a lemma that it preserves the conjuncts it can disturb; the refinement
follows step by step from `IInv`. Assumptions are those of the constants
(`Session.tla`) and are evaluated by TLC in every run.

`SecretChannelProofs` proves for every two clients and every bound:

* `TypeCorrect`;
* `NoneIsRefused`, `OnlyLossIsAnswered`: no honest message is refused, and a client asks for
  messages only after one of the other client was lost or overtaken;
* `Implements`: `Spec => ChannelSpec`, each text is shown at most once, after those sent before it.

Its inductive invariant is `IInv == TypeOK /\ SavedIsCurrent /\ NoneRefused /\
ResendsNeedLoss /\ \A c : WayOf(c)`. The counts in the file equal those in memory between two
handlers, so a kill changes no count. `WayOf` is about one direction: the messages under way have
numbers below what their sender has counted, in the order of their texts; the texts shown
are smaller than those under way; and, unless something was lost, what is under way is
exactly the end of what was sent. The step of the receiver needs all of it: the message it processes is
the expected one, hence its text is greater than those shown. Refinement
follows from the step of each direction. The assumptions are two different clients and natural bounds.

`DcProviderProofs` proves for any finite number of data centers and every bound:

* `TypeCorrect`;
* `FileCorrect`: a process that is killed at any moment leaves a file the next one can start from;
* `SignedInCorrect`, `TransferCorrect`: no DC counts as signed in that its server does not know, an
  authorization is imported where it was exported for, and the transfer is reported complete only
  when it is;
* `ReadyOnce`: the action property `ReadyOnceWithKeys`.

Its inductive invariant names the phases of the start (`PhaseInv`): the handshake of the working
DC; the wait for the configuration; the remaining handshakes, while `mPendingDcs` equals the number of
those open; ready. That number is why readiness comes once and with all keys: `processDcReady`
counts down exactly when a handshake leaves `auths`, so zero means that none is open and every DC of the
configuration has a key. After it, `TransferInv` counts the other way: the sessions in
`mTransferSessions`, those released and those still to come are as many as the transfer began with. A
session that reconnects is appended again, so `mPendingTransferSessions` may fall below zero and the
sum still holds; this is what keeps `Head(transferSessions)` the session that exports.
`HandshakeInv` and `FileInv` say that only DCs without an open handshake are written. The lemmas on
sets (`DisjointUnion`, `Remaining`) carry the arithmetic of `onConfigReceived`.

`MessageCacheProofs` proves for any groups, secret chats and bounds:

* `TypeCorrect`;
* `FaultsCorrect`: without a deletion by the user or a clean-up, no handler uses a freed object;
* `StoredCorrect`: what a dialog lists is in the database as it is shown, came in an update, or is being sent;
* `MarksCorrect`: a chat marked for deletion has a request under way that goes on with it, or one failed.

None of the three is inductive. A fault uses what was freed before, so `SendInv` says for each text under way
(as a request or as an answer) that its pending message is filed under its request and its object
is there unless the dialog was forgotten. `TempInv` says a pending message is listed in its dialog
exactly until it is garbage. What is stored agrees with what is listed because every source of a message
(memory, database, the server's history, answers under way) says the same of an identifier: `FactsInv`
calls these facts and says that equal identifiers make equal facts, unless two secret messages had
the same date. `MarksInv` follows a mark through the loop of reading, leaving and deleting and names the request
or answer that carries it in each state. Each operation of the cache has a lemma that it loses
messages (`Shrinks`) or gains the facts of an answer (`Gains`), and two lemmas take the invariant over
any such step. One assumption is added to those of the constants: the object of a dialog is
none of a message (`ObjectsAssumption`), as in the code they are of different types.

`SecretChatsProofs` proves for any finite set of chats and every bound:

* `TypeCorrect`;
* `FaultsCorrect`: the entry of a chat never leads to a deleted object, and no handler uses a chat that is
  not there unless that chat was discarded or the identifier of a request changed.

The inductive invariant `AlwaysInv` has eight parts. `Types` keeps with the types that the objects are
exactly those that some entry leads to, as `DOMAIN objects = Range(mChats)` makes of every removal an
obligation. `MapInv` says what an entry may lead to: under a chat, the living object of that
chat; elsewhere an object that is deleted only if the server's record says the chat is discarded. A fault is a
lookup that fails, so the rest says of each handler what its lookup finds: identifiers are
used once (`IdsInv`); the entry of a request under way leads to the object of the chat it is about
(`EntriesInv`) and is there unless a request was renamed (`PresentInv`); a call
or an answer that names a chat finds it, or finds it discarded (`KnownInv`). `CountInv` is why
`NextChat` always has a free identifier to choose: requests that will name a chat are no more
than the chats that are free. It is the only part about cardinalities: a set of lemmas (`FreeKept`, `NamingKept`,
`CountStep`, `CountSaved`, `CountNamed`) follows it through the steps that use a chat up.
`FaultInv` is then the second conjunct of `FaultsNeedDiscard`. All parts hold with repeated updates and
after restarts.

`SecretKeysProofs` adds, for the same constants:

* `KeysCorrect`: a chat that both sides hold for accepted has one key, in memory and in the file;
* `FileCorrect`: the chats accepted in the file are those accepted in memory, with the same keys.

Both are about two places that no step changes together: the peer computes its key when it accepts, the
client when the answer or the update comes, and a kill puts memory back to the file in between. The
invariant, `IInv == AlwaysInv /\ (repeats = 0 => \A c : ChatInv(c))`, therefore says of each chat what is
still under way about it. `OnceInv`: one update, request or answer until it is accepted.
`TheirsInv`, of a chat the peer asked for: an unheard request means there is no copy of the chat yet; an
acceptance under way carries the key that every copy has, in the state Requested; its answer means the
copies have the key the server was told. `OursInv`, of a chat the client asked for: all copies are in the state Init
until the update of the acceptance is heard, and that update has the peer's key. `AgreedInv`: an accepted
copy has the server's key. A copy is any object an entry leads to or the one in the file, so a restart
takes copies away and adds none. `SingleInv` (all entries of a chat lead to one
object) is what makes the file well defined, as the last entry wins there, and `Current` is `FileIsCurrent` with the exception
of a deleted object that an entry still leads to. An update that comes twice makes a second object, and all of this
fails: hence the guard. Each action touches one chat. For the others it only takes away, and
`NetFewer` and `ChatFewer` say that this keeps the invariant; `SavedAlike`, `KeptAlike` and `RewriteSaved` do
the same for the map and the file.

`FileHandlerProofs` proves for any finite sets of downloads, uploads and data centers and files of any length:

* `TypeCorrect`;
* `MediaCorrect`: the metadata of an upload is sent when the server has answered every part of it and of its thumbnail;
* `DownloadsCorrect`: what a download received is a beginning of its own file, all of it at the end;
* `SessionsCorrect`, `CountsCorrect`: no session is closed while something uses it, and a DC whose
  sessions nothing uses is counted zero.

Four invariants, one on top of the other. `BaseInv`: a download that exists is in at most one place, under one
identifier or waiting for its own session; a query belongs to a session there is; no two sent
queries have one identifier, and as the used ones are finitely many there is always a next one
(`NewIdsAre`). `AnsweredInv`: an engine has counted as many parts as the server answered of it, because each
part is asked for once and answered at most once: it is under way, answered, or gone without an answer; nothing of the main file is under way before
the thumbnail is complete. `OwnInv`: the entry under the identifier of a query is the file that the query asks for,
and its offset is what that file received so far. It holds while at most one part was asked for without a
connection, since two such queries have the same identifier (`RequestFindsFile` fails then): hence the guard of
`DownloadsAreOwn`. `CountsInv`: the users of sessions are a set, `Users`, of records of a download,
an upload or a transfer with its session. Every user has the session of its DC, and the count of a DC
is the cardinality of the users of that session, which is open. `Acquired` and `Freed` say what
`fileSession` and `release` do to the manager; `CountsAcquired` and `CountsFreed` carry the
cardinalities. The case with several users at once is a download that takes the place of those that
waited for its session (`DownloadsReplaced`).

The last two theorems assume `Thumbs = {}`, and are false without it: both engines of an upload with a
thumbnail release the session that was taken once, so the count falls below the number of users and the session
of a download beside it is closed. `files_thumbnail` shows the count. The other three theorems have uploads with
and without thumbnails.

`NotificationsProofs` proves for every set of dialogs and any number of messages and events:

* `TypeCorrect`, `FreedByCleanUp`;
* `ReadIsDue`: whichever way a message was found to be read (an update, the dialogs, the history),
  a timer runs for the notification that shows it, unless the dialog is overlooked. This is what
  `ReadIsClosed` follows from once the event loop delivers its timers.

Its inductive invariant is `IInv == Types /\ TypeOK /\ FreedAfterTimers /\ ShownIsWatched /\
ClosingIsDue`. `FaultNeedsCleanUp` is not inductive, as a fault uses what was freed before:
`FreedAfterTimers` adds that while the message of the entry is garbage its timers come before the
garbage checker, and that none runs once it was freed. `ClosingIsDue` needs that the signal of the
message is still connected: `ShownIsWatched` says so of a message a notification shows, and that
an object that left the cache was deleted or freed, so no answer brings it back unwatched.

`AcksArmed` (each pending acknowledgement has a timer while connected) and `ClosingIsDue` are proved
and no run lists them; every other property of a theorem is also checked by a run.

Only model-checked: all liveness (fairness and ENABLED are outside the prover's
reach): `NoEndlessWait`, `AcksFlushed`, `StartEnds`, `SignInCompletes`, `UploadsComplete`,
`RequestsAreAccepted`, `TextsAreShown`, `DeletionEnds` and `ReadIsClosed`.

## 5. Plan

1. Done: `RpcCalls`, `Session`, `SessionProofs`; `DcProvider`, `DcProviderProofs`; `FileHandler`, `FileHandlerProofs`;
   `SecretChats`, `SecretChatsProofs`, `SecretKeysProofs`; `OnceChannel`, `SecretChannel`, `SecretChannelProofs`; `MessageCache`,
   `MessageCacheProofs`; `Notifications`, `NotificationsProofs`.
2. Proofs left: what `UsedSessionsAreOpen` becomes with thumbnails (which sessions a second
   release can close), and action properties of `FileHandler`.
3. A model that would come next: `TelegramFileHandler` above `FileHandler`.

### Not modelled

Most of the repository is not protocol: about 230 generated value classes
and their encoders (`types/`, `TelegramQML/objects/types.h`, `core/api.cpp`), the serialisation of packets, cryptography,
SQL statements, list models, QML pages, D-Bus proxies and copies of third-party libraries (libwebp, EXIF,
the Nemo notifications). The modules cover the parts that keep state between handlers; the
share of lines they map is small for that reason.

Hazards that were seen and that no property covers:

* a new main session replaces the old one together with its pending queries, which are
  never answered (`sessionmanager.cpp:116`); the model of a session has one life;
* an offline start judges the sign-in by all DCs together: after an interrupted transfer it emits authNeeded
  although the working DC knows the user, against `dcprovider.h:49` (`dcprovider.cpp:236`);
* an offline start whose configuration was never read is ready with the default DC only, and a later MIGRATE
  finds a null DC (`dcprovider.cpp:231`);
* a configuration that names one DC never ends the start: the number of pending DCs is zero
  before anything counts it down (`dcprovider.cpp:272`);
* `uploadSendFile` with paths uses its session without checking that it got one
  (`filehandler.cpp:80`).

## 6. Running

    tlc -config SessionSafety.cfg MCSession.tla
    tlapm SessionProofs.tla

`PROJECT.json` gives the module and configuration of each run, for each
property a mutant (an operator of the module that changes one definition the way a
bug would, and which breaks the property), and for every definition the lines
it models.

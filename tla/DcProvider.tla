----------------------------- MODULE DcProvider -----------------------------
(***************************************************************************)
(* Start-up and authorization of libqtelegram-aseman-edition: DcProvider   *)
(* (core/dcprovider.cpp), the DCAuth connections that create the shared    *)
(* keys (core/dcauth.cpp), the slots of Telegram that follow the sign-in   *)
(* (telegram.cpp) and the authorization file (core/settings.cpp), over the *)
(* servers, lost connections and a process that may be killed and started  *)
(* again at any point.                                                     *)
(*                                                                         *)
(* The states of a DC are the values of DC::DcState, compared as numbers   *)
(* as the code does.  A socket that lost its connection reconnects, so it  *)
(* counts as "connecting".  A DCAuth handles an answer that was read       *)
(* before it notices that the connection was lost afterwards, and the slot *)
(* a fatalError queues runs before anything else comes from the network.   *)
(***************************************************************************)
EXTENDS Integers, Sequences, FiniteSets

CONSTANTS
  DCs,               \* the data centers, all of them listed in every config
  NoDc,              \* not a data center
  DefaultDc,         \* Settings::defaultHostDcId()
  HomeDc,            \* the data center the user's phone number belongs to
  MaxDrops,          \* bound: losses of a DCAuth's or the main connection
  MaxTransferDrops,  \* bound: losses of the connection of a transfer session
  MaxRestarts,       \* bound: times the process is killed
  MaxLogOuts         \* bound: times the user logs out

ASSUME DCsAssumption ==
  NoDc \notin DCs /\ DefaultDc \in DCs /\ HomeDc \in DCs
ASSUME DCsFiniteAssumption == IsFiniteSet(DCs)
ASSUME BoundsAssumption ==
  /\ MaxDrops \in Nat /\ MaxTransferDrops \in Nat
  /\ MaxRestarts \in Nat /\ MaxLogOuts \in Nat

VARIABLES
  stored,            \* the authorization file
  \* DcProvider and Settings
  working,           \* mSettings->workingDcNum()
  mDcs,              \* data center -> state of its DC object
  auths,             \* mDcAuths: data center -> state of the DCAuth's socket
  pendingDcs,        \* mPendingDcs
  configReceived,    \* mConfigReceived
  \* the main session of mApi
  api,               \* its socket, or "none" while mApi is null
  errorSlot,         \* its error signal is connected to onApiError
  readySlot,         \* its sessionReady signal is connected to onApiReady
  configAsked,       \* an answer to helpGetConfig may come
  \* the transfer of the authorization
  transfer,          \* data center -> socket of its transfer session
  transferSessions,  \* mTransferSessions
  pendingTransfers,  \* mPendingTransferSessions
  main,              \* mApi->mainSession(): NoDc, or whose transfer session
  exporting,         \* data center an exported authorization may come for
  importing,         \* the import that may be answered: where, and whose bytes
  \* the signals emitted since the last start
  readies,           \* number of dcProviderReady
  needed,            \* authNeeded: the user is asked to sign in
  loggedIn,          \* authTransferCompleted
  failed,            \* error(-1, 500): impossible to start
  fatal,             \* a fatalError is queued for TelegramQml::try_init
  \* the servers and the bounds
  authorized,        \* data centers where the user's key is authorized
  drops, transferDrops, restarts, logOuts

configVars   == <<pendingDcs, configReceived>>
apiVars      == <<api, errorSlot, readySlot, configAsked>>
transferVars == <<transfer, transferSessions, pendingTransfers, main,
                  exporting, importing>>
signalVars   == <<readies, needed, loggedIn, failed, fatal>>
boundVars    == <<drops, transferDrops, restarts, logOuts>>

vars == <<stored, working, mDcs, auths, pendingDcs, configReceived,
          api, errorSlot, readySlot, configAsked,
          transfer, transferSessions, pendingTransfers, main, exporting,
          importing, readies, needed, loggedIn, failed, fatal,
          authorized, drops, transferDrops, restarts, logOuts>>

-----------------------------------------------------------------------------
(* States                                                                  *)

InitState      == 0   \* DC::init
ReqPQSent      == 1
ReqDHSent      == 2
ClientDHSent   == 3
AuthKeyCreated == 4
UserSignedIn   == 5
DcStates       == 0..5

EmptyMap           == [x \in {} |-> 0]
MapInsert(m, k, v) == [x \in DOMAIN m \cup {k} |-> IF x = k THEN v ELSE m[x]]
MapRemove(m, k)    == [x \in DOMAIN m \ {k} |-> m[x]]

NoImport == [at |-> NoDc, bytesFor |-> NoDc]

\* The file that writeAuthFile writes for the given DC objects.
AuthFile(dcs) == [saved |-> TRUE, working |-> working, dcs |-> dcs]

-----------------------------------------------------------------------------
(* Start                                                                   *)

\* What DcProvider::initialize reads: the working DC and the DC objects, the
\* default one being made if nothing was saved, and whether the key of the
\* working DC is there.
StartWorking(file) == IF file.saved THEN file.working ELSE DefaultDc
StartDcs(file)     == IF file.saved THEN file.dcs ELSE MapInsert(file.dcs, DefaultDc, InitState)
StartHasKey(file)  == StartDcs(file)[StartWorking(file)] >= AuthKeyCreated

StartAuths(file) ==
  IF StartHasKey(file) THEN EmptyMap ELSE MapInsert(EmptyMap, StartWorking(file), "connecting")

\* DcProvider::initialize on a new Telegram object, whose Settings read the
\* file: the key of the working DC is created, or, if there is one, its
\* session and the Api are.
Initialize ==
  /\ working' = StartWorking(stored) /\ mDcs' = StartDcs(stored)
  /\ auths' = StartAuths(stored)
  /\ api' = IF StartHasKey(stored) THEN "connecting" ELSE "none"
  /\ errorSlot' = StartHasKey(stored) /\ readySlot' = StartHasKey(stored)
  /\ configAsked' = FALSE /\ pendingDcs' = 0 /\ configReceived' = FALSE
  /\ transfer' = [d \in DCs |-> "none"] /\ transferSessions' = <<>>
  /\ pendingTransfers' = 0 /\ main' = NoDc /\ exporting' = NoDc
  /\ importing' = NoImport
  /\ readies' = 0
  /\ needed' = FALSE /\ loggedIn' = FALSE /\ failed' = FALSE /\ fatal' = FALSE

\* The first start, without a file.
Init ==
  /\ stored = [saved |-> FALSE, working |-> NoDc, dcs |-> EmptyMap]
  /\ working = DefaultDc /\ mDcs = MapInsert(EmptyMap, DefaultDc, InitState)
  /\ auths = MapInsert(EmptyMap, DefaultDc, "connecting")
  /\ api = "none" /\ errorSlot = FALSE /\ readySlot = FALSE
  /\ configAsked = FALSE /\ pendingDcs = 0 /\ configReceived = FALSE
  /\ transfer = [d \in DCs |-> "none"] /\ transferSessions = <<>>
  /\ pendingTransfers = 0 /\ main = NoDc /\ exporting = NoDc
  /\ importing = NoImport
  /\ readies = 0
  /\ needed = FALSE /\ loggedIn = FALSE /\ failed = FALSE /\ fatal = FALSE
  /\ authorized = {}
  /\ drops = 0 /\ transferDrops = 0 /\ restarts = 0 /\ logOuts = 0

\* The process is killed and started again.
Restart ==
  /\ restarts < MaxRestarts
  /\ restarts' = restarts + 1
  /\ UNCHANGED stored
  /\ Initialize
  /\ UNCHANGED <<authorized, drops, transferDrops, logOuts>>

\* TelegramQml::fatalError_slt, a queued slot, deletes the Telegram object and
\* makes a new one.  Several queued ones are like one: a restart right after a
\* restart changes nothing.
TryInit ==
  /\ fatal
  /\ UNCHANGED stored
  /\ Initialize
  /\ UNCHANGED <<authorized, boundVars>>

-----------------------------------------------------------------------------
(* What several handlers end with                                          *)

\* logOut: every DC object starts over, in the file too.
Reset == [d \in DOMAIN mDcs |-> InitState]

\* Mutant: the file keeps the states the handshakes had reached.
FatalErrorRaw == stored' = AuthFile(mDcs) /\ fatal' = TRUE

\* A DCAuth's fatalError: logOut, and the signal that ends in try_init.
FatalError == stored' = AuthFile(Reset) /\ fatal' = TRUE

\* The other DCs that have a key but not the user.
TransferTargets(dcs) == {d \in DOMAIN dcs \ {working} : dcs[d] = AuthKeyCreated}

\* transferAuth: a session to each of them.
TransferAuth(dcs) ==
  LET targets == TransferTargets(dcs) IN
  /\ transfer' = [d \in DCs |-> IF d \in targets THEN "connecting" ELSE transfer[d]]
  /\ pendingTransfers' = pendingTransfers + Cardinality(targets)
  /\ loggedIn' = (loggedIn \/ targets = {})
  /\ UNCHANGED <<transferSessions, main, exporting, importing>>

\* The end of processDcReady: the file is written, the provider is ready and
\* the state of the working DC says what comes next.
ProviderReady(dcs) ==
  /\ stored' = AuthFile(dcs)
  /\ readies' = readies + 1
  /\ needed' = (needed \/ dcs[working] = AuthKeyCreated)
  /\ IF dcs[working] = UserSignedIn
     THEN TransferAuth(dcs)
     ELSE UNCHANGED <<transferVars, loggedIn>>
  /\ UNCHANGED failed

NotReady ==
  UNCHANGED <<stored, readies, needed, transferVars, loggedIn, failed>>

\* Mutant: every DC that gets ready may be the last one.
ProcessDcReadyEarly(d) ==
  IF api = "none" /\ d = working
  THEN /\ api' = "connecting" /\ errorSlot' = TRUE /\ readySlot' = TRUE
       /\ UNCHANGED pendingDcs
       /\ NotReady
  ELSE /\ pendingDcs' = pendingDcs - 1
       /\ IF pendingDcs' <= 1 THEN ProviderReady(mDcs) ELSE NotReady
       /\ UNCHANGED <<api, errorSlot, readySlot>>

ProcessDcReady(d) ==
  IF api = "none" /\ d = working
  THEN /\ api' = "connecting" /\ errorSlot' = TRUE /\ readySlot' = TRUE
       /\ UNCHANGED pendingDcs
       /\ NotReady
  ELSE /\ pendingDcs' = pendingDcs - 1
       /\ IF pendingDcs' = 0 THEN ProviderReady(mDcs) ELSE NotReady
       /\ UNCHANGED <<api, errorSlot, readySlot>>

-----------------------------------------------------------------------------
(* DCAuth                                                                  *)

\* processConnected: a handshake starts only from init, and cannot go on after
\* a reconnection.
AuthConnected(d) ==
  /\ ~fatal
  /\ auths[d] = "connecting"
  /\ auths' = [auths EXCEPT ![d] = "connected"]
  /\ IF mDcs[d] = InitState
     THEN /\ mDcs' = [mDcs EXCEPT ![d] = ReqPQSent]
          /\ UNCHANGED <<stored, fatal>>
     ELSE /\ mDcs' = Reset
          /\ FatalError
  /\ UNCHANGED <<working, configVars, apiVars, transferVars, readies, needed,
                 loggedIn, failed, authorized, boundVars>>

\* Mutant: the connection stays open when the key is there.
AuthAnswerOpen(d) ==
  /\ ~fatal
  /\ auths[d] = "connected"
  /\ mDcs' = [mDcs EXCEPT ![d] = @ + 1]
  /\ UNCHANGED <<stored, auths, fatal, working, configVars, apiVars, transferVars,
                 readies, needed, loggedIn, failed, authorized, boundVars>>

\* processResPQAnswer, processDHAnswer and processAuthComplete: the next state
\* of the handshake.  The last one emits dcReady, upon which onDcReady closes
\* the connection.  An answer that meets a DC that was logged out is fatal.
AuthAnswer(d) ==
  /\ auths[d] = "connected"
  /\ IF mDcs[d] = InitState
     THEN /\ mDcs' = Reset
          /\ FatalError
          /\ UNCHANGED auths
     ELSE /\ mDcs' = [mDcs EXCEPT ![d] = @ + 1]
          /\ auths' = IF mDcs[d] = ClientDHSent THEN [auths EXCEPT ![d] = "closing"] ELSE auths
          /\ UNCHANGED <<stored, fatal>>
  /\ UNCHANGED <<working, configVars, apiVars, transferVars, readies, needed,
                 loggedIn, failed, authorized, boundVars>>

\* An answer that fails a check of the handler: logOut is called, and then the
\* handler goes on as if nothing had happened.
AuthBadAnswer(d) ==
  /\ ~fatal
  /\ drops < MaxDrops
  /\ drops' = drops + 1
  /\ auths[d] = "connected" /\ mDcs[d] # InitState
  /\ FatalError
  /\ mDcs' = [Reset EXCEPT ![d] = mDcs[d] + 1]
  /\ auths' = IF mDcs[d] = ClientDHSent THEN [auths EXCEPT ![d] = "closing"] ELSE auths
  /\ UNCHANGED <<working, configVars, apiVars, transferVars, readies, needed,
                 loggedIn, failed, authorized, transferDrops, restarts, logOuts>>

\* onDcAuthDisconnected
AuthDisconnected(d) ==
  /\ ~fatal
  /\ auths[d] = "closing"
  /\ auths' = MapRemove(auths, d)
  /\ ProcessDcReady(d)
  /\ UNCHANGED <<working, mDcs, configReceived, configAsked, fatal, authorized,
                 boundVars>>

\* The connection is lost in the middle of the handshake.
AuthError(d) ==
  /\ ~fatal
  /\ drops < MaxDrops
  /\ drops' = drops + 1
  /\ auths[d] = "connected"
  /\ auths' = [auths EXCEPT ![d] = "connecting"]
  /\ UNCHANGED <<stored, working, mDcs, configVars, apiVars, transferVars,
                 signalVars, authorized, transferDrops, restarts, logOuts>>

-----------------------------------------------------------------------------
(* The main session before the transfer                                    *)

\* onApiReady, while it is connected: ask for the configuration.
ApiConnected ==
  /\ ~fatal
  /\ api = "connecting"
  /\ api' = "connected"
  /\ errorSlot' = (errorSlot /\ ~readySlot)
  /\ configAsked' = (configAsked \/ readySlot)
  /\ UNCHANGED <<stored, working, mDcs, auths, configVars, readySlot,
                 transferVars, signalVars, authorized, boundVars>>

\* onApiError: with a key for every DC the provider is ready without having
\* been connected; with one missing it gives up.
OfflineStart ==
  /\ errorSlot' = FALSE /\ readySlot' = FALSE
  /\ IF \E d \in DOMAIN mDcs : mDcs[d] < AuthKeyCreated
     THEN /\ failed' = TRUE
          /\ UNCHANGED <<readies, needed, loggedIn>>
     ELSE LET all == \A d \in DOMAIN mDcs : mDcs[d] = UserSignedIn IN
          /\ readies' = readies + 1
          /\ loggedIn' = (loggedIn \/ all)
          /\ needed' = (needed \/ ~all)
          /\ UNCHANGED failed

\* A request that was written is lost with the connection.
ApiError ==
  /\ ~fatal
  /\ drops < MaxDrops
  /\ drops' = drops + 1
  /\ api \in {"connecting", "connected"}
  /\ api' = "connecting"
  /\ configAsked' = FALSE
  /\ exporting' = NoDc
  /\ IF errorSlot THEN OfflineStart
     ELSE UNCHANGED <<errorSlot, readySlot, readies, needed, loggedIn, failed>>
  /\ UNCHANGED <<stored, working, mDcs, auths, configVars, transfer,
                 transferSessions, pendingTransfers, main, importing, fatal,
                 authorized, transferDrops, restarts, logOuts>>

\* Mutants: the options that are ready already are not subtracted; the working
\* DC is subtracted twice.
StillPendingAll(dcs)  == Cardinality(DCs) - 1
StillPendingLess(dcs) ==
  (Cardinality(DCs) - 1) - Cardinality({d \in DCs : dcs[d] >= AuthKeyCreated})

\* The DCs that have to get ready, once those that have a key were handed to
\* onDcReady by the loop itself.
StillPending(dcs) ==
  (Cardinality(DCs) - 1) - Cardinality({d \in DCs \ {working} : dcs[d] >= AuthKeyCreated})

\* onConfigReceived: the first configuration makes a DC object for every option
\* that is new, or that has no key and another address, and a DCAuth for every
\* one that has no key; the others are ready.
ConfigReceived ==
  /\ ~fatal
  /\ configAsked
  /\ configAsked' = FALSE
  /\ readySlot' = FALSE
  /\ IF configReceived
     THEN /\ UNCHANGED <<mDcs, auths, configVars>>
          /\ NotReady
     ELSE \E moved \in SUBSET DCs :
          LET isNew(d) == d \notin DOMAIN mDcs \/ (d \in moved /\ mDcs[d] < AuthKeyCreated)
              dcs      == [d \in DCs \cup DOMAIN mDcs |-> IF d \in DCs /\ isNew(d) THEN InitState ELSE mDcs[d]]
              keyless  == {d \in DCs : dcs[d] < AuthKeyCreated}
              ready    == DCs \ (keyless \cup {working})
          IN /\ configReceived' = TRUE
             /\ mDcs' = dcs
             /\ auths' = [d \in DOMAIN auths \cup keyless |->
                            IF d \in keyless THEN "connecting" ELSE auths[d]]
             /\ pendingDcs' = StillPending(dcs)
             /\ IF ready # {} /\ pendingDcs' = 0 THEN ProviderReady(dcs) ELSE NotReady
  /\ UNCHANGED <<working, api, errorSlot, fatal, authorized, boundVars>>

-----------------------------------------------------------------------------
(* The user and the main session, once the provider is ready               *)

\* Telegram::onErrorRetry: the phone number belongs to another DC.  Without a
\* DC object for it the code dereferences a null pointer.
Migrate ==
  /\ ~fatal
  /\ needed /\ api = "connected" /\ working # HomeDc
  /\ HomeDc \in DOMAIN mDcs
  /\ working' = HomeDc
  /\ api' = "connecting"
  /\ errorSlot' = FALSE /\ readySlot' = FALSE /\ configAsked' = FALSE
  /\ UNCHANGED <<stored, mDcs, auths, configVars, transferVars, signalVars,
                 authorized, boundVars>>

\* Telegram::onUserAuthorized
SignIn ==
  /\ ~fatal
  /\ needed /\ api = "connected" /\ working = HomeDc
  /\ authorized' = authorized \cup {working}
  /\ needed' = FALSE
  /\ LET dcs == [mDcs EXCEPT ![working] = UserSignedIn] IN
       /\ mDcs' = dcs
       /\ stored' = AuthFile(dcs)
       /\ TransferAuth(dcs)
  /\ UNCHANGED <<working, auths, configVars, apiVars, readies, failed, fatal,
                 boundVars>>

\* Telegram::onAuthLogOutAnswer and TelegramQml::authLogOut_slt.
UserLogOut ==
  /\ ~fatal
  /\ logOuts < MaxLogOuts
  /\ logOuts' = logOuts + 1
  /\ loggedIn /\ api = "connected"
  /\ authorized' = {}
  /\ mDcs' = Reset
  /\ stored' = AuthFile(Reset)
  /\ loggedIn' = FALSE /\ needed' = TRUE
  /\ UNCHANGED <<working, auths, configVars, apiVars, transferVars, readies,
                 failed, fatal, drops, transferDrops, restarts>>

-----------------------------------------------------------------------------
(* The transfer of the authorization                                       *)

\* authExportAuthorization on the main session, which loses what it cannot write.
Export(d) == exporting' = IF api = "connected" THEN d ELSE NoDc

\* onTransferSessionReady, at every connection of the session.
TransferReady(d) ==
  /\ ~fatal
  /\ transfer[d] = "connecting"
  /\ transfer' = [transfer EXCEPT ![d] = "connected"]
  /\ transferSessions' = Append(transferSessions, d)
  /\ pendingTransfers' = pendingTransfers - 1
  /\ IF pendingTransfers' = 0 THEN Export(Head(transferSessions')) ELSE UNCHANGED exporting
  /\ UNCHANGED <<stored, working, mDcs, auths, configVars, apiVars, main,
                 importing, signalVars, authorized, boundVars>>

TransferError(d) ==
  /\ ~fatal
  /\ transferDrops < MaxTransferDrops
  /\ transferDrops' = transferDrops + 1
  /\ transfer[d] = "connected"
  /\ transfer' = [transfer EXCEPT ![d] = "connecting"]
  /\ importing' = IF importing.at = d THEN NoImport ELSE importing
  /\ UNCHANGED <<stored, working, mDcs, auths, configVars, apiVars,
                 transferSessions, pendingTransfers, main, exporting, signalVars,
                 authorized, drops, restarts, logOuts>>

\* Mutants: the last session instead of the first.
ImporterLast(list) == list[Len(list)]
ImportedLast(list) == list[Len(list)]

\* The session that imports next (first), and the one whose import was answered
\* (takeFirst).
Importer(list) == Head(list)
Imported(list) == Head(list)

OnAuthExported ==
  /\ ~fatal
  /\ exporting # NoDc
  /\ LET d == Importer(transferSessions) IN
       /\ main' = d
       /\ importing' = IF transfer[d] = "connected" THEN [at |-> d, bytesFor |-> exporting]
                       ELSE NoImport
  /\ exporting' = NoDc
  /\ UNCHANGED <<stored, working, mDcs, auths, configVars, apiVars, transfer,
                 transferSessions, pendingTransfers, signalVars, authorized,
                 boundVars>>

\* The server imports bytes that were exported for it; onAuthImportedAuthorization.
OnAuthImported ==
  /\ ~fatal
  /\ importing # NoImport /\ importing.at = importing.bytesFor
  /\ importing' = NoImport
  /\ authorized' = authorized \cup {importing.at}
  /\ LET d    == Imported(transferSessions)
         dcs  == [mDcs EXCEPT ![d] = UserSignedIn]
         rest == Tail(transferSessions)
     IN /\ transferSessions' = rest
        /\ mDcs' = dcs
        /\ transfer' = [transfer EXCEPT ![d] = "released"]
        /\ main' = NoDc
        /\ IF rest = <<>>
           THEN stored' = AuthFile(dcs) /\ loggedIn' = TRUE /\ UNCHANGED exporting
           ELSE Export(Head(rest)) /\ UNCHANGED <<stored, loggedIn>>
  /\ UNCHANGED <<working, auths, configVars, apiVars, pendingTransfers, readies,
                 needed, failed, fatal, boundVars>>

-----------------------------------------------------------------------------

DCAuth(d) ==
  AuthConnected(d) \/ AuthAnswer(d) \/ AuthBadAnswer(d) \/ AuthDisconnected(d)
  \/ AuthError(d)

Next ==
  \/ Restart \/ TryInit
  \/ \E d \in DOMAIN auths : DCAuth(d)
  \/ ApiConnected \/ ApiError \/ ConfigReceived
  \/ Migrate \/ SignIn \/ UserLogOut
  \/ \E d \in DCs : TransferReady(d) \/ TransferError(d)
  \/ OnAuthExported \/ OnAuthImported

Spec == Init /\ [][Next]_vars

\* The event loop runs what is queued, and no server and no connection attempt
\* fails for ever.  The losses, which the bounds limit, owe nothing, nor does
\* the user log out; one who is asked to signs in.
Fairness ==
  /\ WF_vars(TryInit)
  /\ \A d \in DCs :
       /\ WF_vars(d \in DOMAIN auths /\ (AuthConnected(d) \/ AuthAnswer(d) \/ AuthDisconnected(d)))
       /\ WF_vars(TransferReady(d))
  /\ WF_vars(ApiConnected) /\ WF_vars(ConfigReceived)
  /\ WF_vars(Migrate) /\ WF_vars(SignIn)
  /\ WF_vars(OnAuthExported) /\ WF_vars(OnAuthImported)

FairSpec == Spec /\ Fairness

-----------------------------------------------------------------------------
(* Properties                                                              *)

Sockets == {"none", "connecting", "connected", "released"}

TypeOK ==
  /\ stored.saved \in BOOLEAN /\ stored.working \in DCs \cup {NoDc}
  /\ DOMAIN stored.dcs \subseteq DCs
  /\ \A d \in DOMAIN stored.dcs : stored.dcs[d] \in DcStates
  /\ working \in DCs
  /\ working \in DOMAIN mDcs /\ DOMAIN mDcs \subseteq DCs
  /\ \A d \in DOMAIN mDcs : mDcs[d] \in DcStates
  /\ DOMAIN auths \subseteq DOMAIN mDcs
  /\ \A d \in DOMAIN auths : auths[d] \in {"connecting", "connected", "closing"}
  /\ pendingDcs \in Int /\ configReceived \in BOOLEAN
  /\ api \in {"none", "connecting", "connected"}
  /\ errorSlot \in BOOLEAN /\ readySlot \in BOOLEAN /\ configAsked \in BOOLEAN
  /\ transfer \in [DCs -> Sockets]
  /\ transferSessions \in Seq(DCs) /\ pendingTransfers \in Int
  /\ main \in DCs \cup {NoDc} /\ exporting \in DCs \cup {NoDc}
  /\ importing \in [at : DCs \cup {NoDc}, bytesFor : DCs \cup {NoDc}]
  /\ readies \in Nat
  /\ needed \in BOOLEAN /\ loggedIn \in BOOLEAN /\ failed \in BOOLEAN
  /\ fatal \in BOOLEAN
  /\ authorized \subseteq DCs
  /\ drops \in Nat /\ transferDrops \in Nat /\ restarts \in Nat /\ logOuts \in Nat

\* dcProviderReady is emitted only when every DC object has its shared key,
\* whatever order the handshakes, the configuration and the losses came in, and
\* once in the life of a Telegram object, which connects its own signals to the
\* Api each time.
ReadyOnceWithKeys ==
  [][readies' > readies =>
       readies = 0 /\ \A d \in DOMAIN mDcs' : mDcs'[d] >= AuthKeyCreated]_vars

\* No DC counts as signed in, in memory or in the file, unless its server knows
\* the authorization.
SignedInIsTrue ==
  /\ \A d \in DOMAIN mDcs : mDcs[d] = UserSignedIn => d \in authorized
  /\ \A d \in DOMAIN stored.dcs : stored.dcs[d] = UserSignedIn => d \in authorized

\* The file never holds a DC in the middle of its handshake, which could not be
\* started again: processConnected takes such a state for a fatal error.
FileRestartable ==
  \A d \in DOMAIN stored.dcs : stored.dcs[d] \in {InitState, AuthKeyCreated, UserSignedIn}

\* An exported authorization is imported by the DC it was exported for, and
\* authTransferCompleted is emitted only when the user is signed in at every DC,
\* unless the user logged out.
TransferIsRight ==
  /\ importing.at = importing.bytesFor
  /\ loggedIn /\ ~fatal /\ logOuts = 0 => \A d \in DOMAIN mDcs : mDcs[d] = UserSignedIn

\* A start ends with a provider that is ready or that says it is impossible,
\* whatever connections are lost on the way.
StartEnds == readies = 0 ~> readies > 0 \/ failed

\* Unless the main connection or that of a transfer session is lost, or the
\* user logs out, a user who signed in is logged in everywhere in the end, also
\* when the process is killed between the sign-in and the end of the transfer.
\* (A transfer session that reconnects is counted twice, dcprovider.cpp:346: the
\* export starts early and the transfer may stop at a session that was released.)
Undisturbed == drops = 0 /\ transferDrops = 0 /\ logOuts = 0

SignInCompletes ==
  Undisturbed /\ stored.saved /\ stored.dcs[stored.working] = UserSignedIn
    ~> loggedIn \/ ~Undisturbed
=============================================================================

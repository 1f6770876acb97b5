-------------------------- MODULE DcProviderProofs --------------------------
(***************************************************************************)
(* Proofs about DcProvider, for any number of data centers and every bound. *)
(***************************************************************************)
EXTENDS DcProvider, FiniteSetTheorems, TLAPS

-----------------------------------------------------------------------------
(* The inductive invariant.                                                *)

\* The parts of the type invariant.
FileType ==
  /\ stored.saved \in BOOLEAN /\ stored.working \in DCs \cup {NoDc}
  /\ DOMAIN stored.dcs \subseteq DCs
  /\ \A d \in DOMAIN stored.dcs : stored.dcs[d] \in DcStates
DcType ==
  /\ working \in DCs
  /\ working \in DOMAIN mDcs /\ DOMAIN mDcs \subseteq DCs
  /\ \A d \in DOMAIN mDcs : mDcs[d] \in DcStates
  /\ DOMAIN auths \subseteq DOMAIN mDcs
  /\ \A d \in DOMAIN auths : auths[d] \in {"connecting", "connected", "closing"}
  /\ pendingDcs \in Int /\ configReceived \in BOOLEAN
ApiType ==
  /\ api \in {"none", "connecting", "connected"}
  /\ errorSlot \in BOOLEAN /\ readySlot \in BOOLEAN /\ configAsked \in BOOLEAN
TransferType ==
  /\ transfer \in [DCs -> Sockets]
  /\ transferSessions \in Seq(DCs) /\ pendingTransfers \in Int
  /\ main \in DCs \cup {NoDc} /\ exporting \in DCs \cup {NoDc}
  /\ importing \in [at : DCs \cup {NoDc}, bytesFor : DCs \cup {NoDc}]
SignalType ==
  /\ readies \in Nat
  /\ needed \in BOOLEAN /\ loggedIn \in BOOLEAN /\ failed \in BOOLEAN
  /\ fatal \in BOOLEAN
ServerType ==
  /\ authorized \subseteq DCs
  /\ drops \in Nat /\ transferDrops \in Nat /\ restarts \in Nat /\ logOuts \in Nat

\* The type invariant is the conjunction of its parts.
LEMMA TypeParts ==
  TypeOK <=> FileType /\ DcType /\ ApiType /\ TransferType /\ SignalType /\ ServerType
BY DEF TypeOK, FileType, DcType, ApiType, TransferType, SignalType, ServerType

Maps ==
  /\ mDcs \in [DOMAIN mDcs -> DcStates]
  /\ stored.dcs \in [DOMAIN stored.dcs -> DcStates]
  /\ auths \in [DOMAIN auths -> {"connecting", "connected", "closing"}]

\* The file names a DC that it holds, and holds no unfinished handshake.
FileInv ==
  /\ IF stored.saved THEN stored.working \in DOMAIN stored.dcs ELSE DOMAIN stored.dcs = {}
  /\ FileRestartable

\* A DCAuth is at work on a key that is not there yet, and closes when it is.
\* After a fatal error the DC objects were logged out under it.
HandshakeInv ==
  \A d \in DOMAIN auths :
    /\ auths[d] = "connected" => mDcs[d] < AuthKeyCreated
    /\ ~fatal => IF auths[d] = "closing" THEN mDcs[d] = AuthKeyCreated
                 ELSE mDcs[d] < AuthKeyCreated

\* The slots of the main session are connected until they did their work.
SlotInv ==
  /\ errorSlot => readySlot
  /\ configAsked => readySlot /\ ~errorSlot
  /\ readySlot => api # "none" /\ ~configReceived /\ readies = 0

\* No transfer has begun.
NoTransfer ==
  /\ transfer = [d \in DCs |-> "none"] /\ transferSessions = <<>> /\ pendingTransfers = 0
  /\ exporting = NoDc /\ importing = NoImport

HandshakeOfWorking ==
  /\ DOMAIN auths = {working} /\ ~configReceived /\ readies = 0
  /\ pendingDcs = 0

WaitingForConfig ==
  /\ DOMAIN auths = {} /\ mDcs[working] >= AuthKeyCreated
  /\ pendingDcs = 0

\* After the first configuration the number of pending DCs is that of the
\* handshakes still going on.
Configured ==
  /\ DOMAIN mDcs = DCs
  /\ \A d \in DCs \ DOMAIN auths : mDcs[d] >= AuthKeyCreated
  /\ pendingDcs = Cardinality(DOMAIN auths)

IsReady ==
  /\ DOMAIN auths = {}
  /\ \A d \in DOMAIN mDcs : mDcs[d] \in {InitState, AuthKeyCreated, UserSignedIn}
  /\ logOuts = 0 => \A d \in DOMAIN mDcs : mDcs[d] >= AuthKeyCreated

\* The phases of the start.
PhaseInv ==
  /\ readies = 0 => NoTransfer /\ ~needed /\ ~loggedIn
  /\ ~fatal =>
       /\ api = "none" => HandshakeOfWorking
       /\ api # "none" /\ readies = 0 /\ ~configReceived => WaitingForConfig
       /\ readies = 0 /\ configReceived => Configured
       /\ readies > 0 => IsReady

Begun    == {d \in DCs : transfer[d] # "none"}
Released == {d \in DCs : transfer[d] = "released"}

\* The transfer.  Every session was appended as often as it got ready, and was
\* taken once when it was released; sessions that are still to come are
\* counted, those that came again are counted below zero.  The first of the
\* list exports and imports, once all are counted.
TransferInv ==
  /\ Len(transferSessions) + Cardinality(Released) + pendingTransfers = Cardinality(Begun)
  /\ exporting # NoDc =>
       /\ pendingTransfers <= 0 /\ importing = NoImport
       /\ transferSessions # <<>> /\ Head(transferSessions) = exporting
  /\ importing # NoImport =>
       /\ pendingTransfers <= 0
       /\ transferSessions # <<>> /\ Head(transferSessions) = importing.at
       /\ importing.at \in DCs /\ transfer[importing.at] = "connected"
  /\ importing.at = importing.bytesFor

\* A second sign-in finds no DC left to transfer to; in a transfer, every DC
\* that lacks the user takes part.
TargetInv ==
  /\ needed /\ ~fatal => NoTransfer \/ \A d \in DOMAIN mDcs : mDcs[d] # AuthKeyCreated
  /\ ~fatal /\ logOuts = 0 /\ Begun # {} =>
       \A d \in DOMAIN mDcs : d \notin Begun \/ d \in Released => mDcs[d] = UserSignedIn

IInv ==
  /\ TypeOK /\ Maps /\ FileInv /\ HandshakeInv /\ SlotInv /\ PhaseInv
  /\ TransferInv /\ TargetInv /\ SignedInIsTrue /\ TransferIsRight

-----------------------------------------------------------------------------
(* Sets of DCs.                                                            *)

\* Sets of DCs are finite and are counted by natural numbers.
LEMMA DcSets ==
  ASSUME NEW S \in SUBSET DCs
  PROVE  IsFiniteSet(S) /\ Cardinality(S) \in Nat /\ (Cardinality(S) = 0 <=> S = {})
<1>1. IsFiniteSet(S)
  BY DCsFiniteAssumption, FS_Subset
<1> QED
  BY <1>1, FS_CardinalityType, FS_EmptySet

\* Two sets of DCs without a common one count together what they count alone.
LEMMA DisjointUnion ==
  ASSUME NEW S \in SUBSET DCs, NEW T \in SUBSET DCs, S \cap T = {}
  PROVE  Cardinality(S \cup T) = Cardinality(S) + Cardinality(T)
<1> DEFINE m == Cardinality(S)
           n == Cardinality(T)
<1>1. m \in Nat /\ n \in Nat /\ ExistsBijection(1..m, S) /\ ExistsBijection(1..n, T)
  BY DcSets, FS_CardinalityType
<1>2. PICK f \in Bijection(1..m, S) : TRUE
  BY <1>1 DEF ExistsBijection
<1>3. PICK g \in Bijection(1..n, T) : TRUE
  BY <1>1 DEF ExistsBijection
<1> HIDE DEF m, n
<1> DEFINE h == [i \in 1..(m + n) |-> IF i <= m THEN f[i] ELSE g[i - m]]
<1>4. /\ f \in [1..m -> S] /\ \A x \in S : \E i \in 1..m : f[i] = x
      /\ \A i, j \in 1..m : f[i] = f[j] => i = j
  BY <1>2 DEF Bijection, Injection, Surjection, IsInjective
<1>5. /\ g \in [1..n -> T] /\ \A x \in T : \E i \in 1..n : g[i] = x
      /\ \A i, j \in 1..n : g[i] = g[j] => i = j
  BY <1>3 DEF Bijection, Injection, Surjection, IsInjective
<1>6. \A i \in 1..(m + n) : IF i <= m THEN i \in 1..m ELSE i - m \in 1..n
  BY <1>1
<1>7. h \in [1..(m + n) -> S \cup T]
  BY <1>4, <1>5, <1>6
<1>8. ASSUME NEW i \in 1..(m + n), NEW j \in 1..(m + n), h[i] = h[j]
      PROVE  i = j
  <2>1. CASE i <= m /\ j <= m
    BY <1>1, <1>4, <1>6, <1>8, <2>1
  <2>2. CASE ~(i <= m) /\ ~(j <= m)
    <3>1. i - m = j - m
      BY <1>5, <1>6, <1>8, <2>2
    <3> QED
      BY <1>1, <3>1
  <2>3. CASE i <= m /\ ~(j <= m)
    BY <1>4, <1>5, <1>6, <1>8, <2>3
  <2>4. CASE ~(i <= m) /\ j <= m
    BY <1>4, <1>5, <1>6, <1>8, <2>4
  <2> QED
    BY <2>1, <2>2, <2>3, <2>4
<1>9. ASSUME NEW x \in S \cup T
      PROVE  \E i \in 1..(m + n) : h[i] = x
  <2>1. CASE x \in S
    <3>1. PICK i \in 1..m : f[i] = x
      BY <1>4, <2>1
    <3>2. i \in 1..(m + n) /\ i <= m
      BY <1>1
    <3> QED
      BY <3>1, <3>2
  <2>2. CASE x \in T
    <3>1. PICK i \in 1..n : g[i] = x
      BY <1>5, <2>2
    <3>2. i + m \in 1..(m + n) /\ ~(i + m <= m) /\ i + m - m = i
      BY <1>1
    <3>3. h[i + m] = g[(i + m) - m]
      BY <3>2
    <3>4. h[i + m] = x
      <4>1. g[(i + m) - m] = g[i]
        BY <1>1, <3>2
      <4> QED
        BY <3>1, <3>3, <4>1
    <3> QED
      BY <3>2, <3>4
  <2> QED
    BY <2>1, <2>2
<1>10. h \in Bijection(1..(m + n), S \cup T)
  BY <1>7, <1>8, <1>9 DEF Bijection, Injection, Surjection, IsInjective
<1>11. ExistsBijection(1..(m + n), S \cup T) /\ m + n \in Nat
  BY <1>1, <1>10 DEF ExistsBijection
<1> QED
  BY <1>11, FS_CountingElements DEF m, n

\* The pending DCs that onConfigReceived counts, one less than all without
\* those that have keys, are those whose handshake begins.
LEMMA Remaining ==
  ASSUME NEW c \in DCs, NEW S \in SUBSET DCs, c \notin S
  PROVE  (Cardinality(DCs) - 1) - Cardinality((DCs \ {c}) \ S) = Cardinality(S)
<1> DEFINE R == (DCs \ {c}) \ S
<1>1. Cardinality(R \cup S) = Cardinality(R) + Cardinality(S)
  BY DisjointUnion
<1>2. R \cup S = DCs \ {c}
  OBVIOUS
<1>3. Cardinality(DCs \ {c}) = Cardinality(DCs) - 1
  BY DCsFiniteAssumption, FS_RemoveElement
<1>4. Cardinality(R) \in Nat /\ Cardinality(S) \in Nat /\ Cardinality(DCs) \in Nat
  BY DcSets
<1> HIDE DEF R
<1>5. Cardinality(DCs) - 1 = Cardinality(R) + Cardinality(S)
  BY <1>1, <1>2, <1>3
<1>6. (Cardinality(DCs) - 1) - Cardinality(R) = Cardinality(S)
  BY <1>4, <1>5
<1> QED
  BY <1>6 DEF R

-----------------------------------------------------------------------------
(* Every action preserves the invariant.                                   *)

\* What the file holds after a fatal error: every DC that was known, without
\* a key.
LEMMA FatalFile ==
  ASSUME TypeOK, Maps, FatalError
  PROVE  /\ stored'.saved = TRUE /\ stored'.working = working /\ fatal' = TRUE
         /\ DOMAIN stored'.dcs = DOMAIN mDcs
         /\ stored'.dcs \in [DOMAIN mDcs -> {InitState}]
         /\ stored'.dcs \in [DOMAIN mDcs -> DcStates]
BY DEF FatalError, AuthFile, Reset, DcStates, InitState

\* A logged-out DC is in its first state.
LEMMA ResetType == Reset \in [DOMAIN mDcs -> {InitState}] /\ Reset \in [DOMAIN mDcs -> DcStates]
BY DEF Reset, DcStates, InitState

\* What the file holds after writeAuthFile.
LEMMA Filed ==
  ASSUME TypeOK, NEW E \in SUBSET DCs, NEW dcs \in [E -> DcStates], stored' = AuthFile(dcs)
  PROVE  /\ FileType' /\ stored'.saved = TRUE /\ stored'.working = working
         /\ stored'.dcs = dcs /\ DOMAIN stored'.dcs = E
<1>1. /\ stored'.saved = TRUE /\ stored'.working = working
      /\ stored'.dcs = dcs /\ DOMAIN stored'.dcs = E
  BY DEF AuthFile
<1>2. working \in DCs
  BY DEF TypeOK
<1> QED
  BY <1>1, <1>2 DEF FileType

\* A step of a DCAuth keeps the types.
LEMMA HandshakeTypes ==
  ASSUME TypeOK, Maps, mDcs' \in [DOMAIN mDcs -> DcStates],
         auths' \in [DOMAIN auths -> {"connecting", "connected", "closing"}],
         UNCHANGED <<stored, fatal>> \/ FatalError, drops' \in Nat,
         UNCHANGED <<working, configVars, apiVars, transferVars, readies, needed, loggedIn,
                     failed, authorized, transferDrops, restarts, logOuts>>
  PROVE  TypeOK' /\ Maps'
<1>1. stored'.saved \in BOOLEAN
  BY FatalFile DEF TypeOK
<1>2. stored'.working \in DCs \cup {NoDc} /\ DOMAIN stored'.dcs \subseteq DCs
  BY FatalFile DEF TypeOK
<1>3. stored'.dcs \in [DOMAIN stored'.dcs -> DcStates]
  <2>1. CASE UNCHANGED stored
    BY <2>1 DEF Maps
  <2>2. CASE FatalError
    BY <2>2, FatalFile
  <2> QED
    BY <2>1, <2>2
<1>4. fatal' \in BOOLEAN
  BY FatalFile DEF TypeOK
<1>5. DOMAIN mDcs' = DOMAIN mDcs /\ DOMAIN auths' = DOMAIN auths
  OBVIOUS
<1>6. /\ \A d \in DOMAIN mDcs' : mDcs'[d] \in DcStates
      /\ \A d \in DOMAIN auths' : auths'[d] \in {"connecting", "connected", "closing"}
      /\ \A d \in DOMAIN stored'.dcs : stored'.dcs[d] \in DcStates
  BY <1>3
<1>7. Maps'
  BY <1>3, <1>5 DEF Maps
<1>8. TypeOK'
  BY <1>1, <1>2, <1>4, <1>5, <1>6 DEF TypeOK, configVars, apiVars, transferVars
<1> QED
  BY <1>7, <1>8

\* The connection of a DCAuth keeps the invariant.
LEMMA Connected ==
  ASSUME IInv, NEW d \in DOMAIN auths, AuthConnected(d)
  PROVE  IInv'
<1> USE DEF IInv
<1>1. d \in DOMAIN mDcs /\ mDcs \in [DOMAIN mDcs -> DcStates]
  BY DEF TypeOK, Maps
<1>2. auths' \in [DOMAIN auths -> {"connecting", "connected", "closing"}]
  BY DEF Maps, AuthConnected
<1>3. mDcs' \in [DOMAIN mDcs -> DcStates]
  <2>1. CASE mDcs[d] = InitState
    BY <1>1, <2>1 DEF AuthConnected, DcStates, ReqPQSent
  <2>2. CASE mDcs[d] # InitState
    BY <2>2, ResetType DEF AuthConnected
  <2> QED
    BY <2>1, <2>2
<1>5. TypeOK' /\ Maps'
  <2>1. UNCHANGED <<stored, fatal>> \/ FatalError
    BY DEF AuthConnected
  <2>2. UNCHANGED <<working, configVars, apiVars, transferVars, readies, needed, loggedIn,
                     failed, authorized, transferDrops, restarts, logOuts>> /\ drops' \in Nat
    BY DEF AuthConnected, boundVars, TypeOK
  <2> QED
    BY <1>2, <1>3, <2>1, <2>2, HandshakeTypes
<1>6. FileInv'
  BY DEF AuthConnected, FatalError, AuthFile, Reset, TypeOK, FileInv, FileRestartable, ReqPQSent,
     ReqDHSent, ClientDHSent, configVars, apiVars
<1>7. HandshakeInv'
  BY DEF AuthConnected, FatalError, Reset, TypeOK, HandshakeInv, InitState, ReqPQSent, ReqDHSent,
     ClientDHSent, AuthKeyCreated, configVars, apiVars
<1>8. SlotInv'
  BY DEF AuthConnected, FatalError, SlotInv, ReqPQSent, ReqDHSent, ClientDHSent, configVars, apiVars
<1>9. PhaseInv'
  BY DEF AuthConnected, FatalError, PhaseInv, NoTransfer, HandshakeOfWorking, WaitingForConfig,
     Configured, IsReady, ReqPQSent, ReqDHSent, ClientDHSent, configVars, apiVars, transferVars
<1>10. TransferInv'
  BY DEF AuthConnected, FatalError, TransferInv, Begun, Released, ReqPQSent, ReqDHSent,
     ClientDHSent, configVars, apiVars, transferVars
<1>11. TargetInv'
  BY DEF AuthConnected, FatalError, TargetInv, NoTransfer, Begun, Released, InitState, ReqPQSent,
     ReqDHSent, ClientDHSent, AuthKeyCreated, UserSignedIn, configVars, apiVars, transferVars,
     boundVars
<1>12. SignedInIsTrue'
  BY DEF AuthConnected, FatalError, AuthFile, Reset, SignedInIsTrue, InitState, ReqPQSent,
     ReqDHSent, ClientDHSent, UserSignedIn, configVars, apiVars
<1>13. TransferIsRight'
  BY DEF AuthConnected, FatalError, TransferIsRight, InitState, ReqPQSent, ReqDHSent, ClientDHSent,
     UserSignedIn, configVars, apiVars, transferVars, boundVars
<1> QED
  BY <1>5, <1>6, <1>7, <1>8, <1>9, <1>10, <1>11, <1>12, <1>13

\* A good answer in the handshake keeps the invariant: the key is there when
\* the DCAuth closes.
LEMMA Answered ==
  ASSUME IInv, NEW d \in DOMAIN auths, AuthAnswer(d)
  PROVE  IInv'
<1> USE DEF IInv
<1>1. d \in DOMAIN mDcs /\ mDcs \in [DOMAIN mDcs -> DcStates]
  BY DEF TypeOK, Maps
<1>2. auths' \in [DOMAIN auths -> {"connecting", "connected", "closing"}]
  BY DEF Maps, AuthAnswer
<1>3. mDcs' \in [DOMAIN mDcs -> DcStates]
  <2>1. CASE mDcs[d] = InitState
    BY <2>1, ResetType DEF AuthAnswer
  <2>2. CASE mDcs[d] # InitState
    <3>1. mDcs[d] + 1 \in DcStates
      BY <1>1 DEF AuthAnswer, HandshakeInv, DcStates, AuthKeyCreated
    <3> QED
      BY <1>1, <2>2, <3>1 DEF AuthAnswer
  <2> QED
    BY <2>1, <2>2
<1>5. TypeOK' /\ Maps'
  <2>1. UNCHANGED <<stored, fatal>> \/ FatalError
    BY DEF AuthAnswer
  <2>2. UNCHANGED <<working, configVars, apiVars, transferVars, readies, needed, loggedIn,
                     failed, authorized, transferDrops, restarts, logOuts>> /\ drops' \in Nat
    BY DEF AuthAnswer, boundVars, TypeOK
  <2> QED
    BY <1>2, <1>3, <2>1, <2>2, HandshakeTypes
<1>6. FileInv'
  BY DEF AuthAnswer, FatalError, AuthFile, Reset, TypeOK, FileInv, FileRestartable, ReqPQSent,
     ReqDHSent, ClientDHSent, configVars, apiVars
<1>7. HandshakeInv'
  <2>1. CASE mDcs[d] = InitState
    <3>1. mDcs' \in [DOMAIN mDcs -> {InitState}] /\ fatal' = TRUE /\ UNCHANGED auths
      BY <1>1, <1>5, <2>1, FatalFile, ResetType DEF AuthAnswer
    <3> QED
      BY <3>1 DEF HandshakeInv, TypeOK, InitState, AuthKeyCreated
  <2>2. CASE mDcs[d] # InitState
    <3>1. mDcs[d] \in 1..3 /\ mDcs'[d] = mDcs[d] + 1
      BY <1>1, <2>2 DEF AuthAnswer, HandshakeInv, DcStates, InitState, AuthKeyCreated
    <3>2. /\ \A x \in DOMAIN mDcs \ {d} : mDcs'[x] = mDcs[x]
          /\ \A x \in DOMAIN auths \ {d} : auths'[x] = auths[x]
          /\ auths'[d] = IF mDcs[d] = ClientDHSent THEN "closing" ELSE "connected"
          /\ UNCHANGED fatal /\ DOMAIN auths' = DOMAIN auths
      BY <1>1, <2>2 DEF AuthAnswer
    <3> QED
      BY <1>1, <3>1, <3>2 DEF HandshakeInv, TypeOK, AuthKeyCreated, ClientDHSent
  <2> QED
    BY <2>1, <2>2
<1>8. SlotInv'
  BY DEF AuthAnswer, FatalError, SlotInv, ReqPQSent, ReqDHSent, ClientDHSent, configVars, apiVars
<1>9. PhaseInv'
  BY DEF AuthAnswer, FatalError, PhaseInv, NoTransfer, HandshakeOfWorking, WaitingForConfig,
     Configured, IsReady, ReqPQSent, ReqDHSent, ClientDHSent, configVars, apiVars, transferVars
<1>10. TransferInv'
  BY DEF AuthAnswer, FatalError, TransferInv, Begun, Released, ReqPQSent, ReqDHSent, ClientDHSent,
     configVars, apiVars, transferVars
<1>11. TargetInv'
  BY DEF AuthAnswer, FatalError, TypeOK, PhaseInv, IsReady, TargetInv, NoTransfer, Begun, ReqPQSent,
     ReqDHSent, ClientDHSent, configVars, apiVars, transferVars
<1>12. SignedInIsTrue'
  BY DEF AuthAnswer, FatalError, AuthFile, Reset, Maps, HandshakeInv, SignedInIsTrue, ReqPQSent,
     ReqDHSent, ClientDHSent, AuthKeyCreated, UserSignedIn, DcStates, configVars, apiVars
<1>13. TransferIsRight'
  BY DEF AuthAnswer, FatalError, TypeOK, PhaseInv, IsReady, TransferIsRight, ReqPQSent, ReqDHSent,
     ClientDHSent, configVars, apiVars, transferVars
<1> QED
  BY <1>5, <1>6, <1>7, <1>8, <1>9, <1>10, <1>11, <1>12, <1>13

\* A bad answer in the handshake, which is fatal, keeps the invariant.
LEMMA AnsweredBadly ==
  ASSUME IInv, NEW d \in DOMAIN auths, AuthBadAnswer(d)
  PROVE  IInv'
<1> USE DEF IInv
<1>1. d \in DOMAIN mDcs /\ mDcs \in [DOMAIN mDcs -> DcStates]
  BY DEF TypeOK, Maps
<1>2. auths' \in [DOMAIN auths -> {"connecting", "connected", "closing"}]
  BY DEF Maps, AuthBadAnswer
<1>3. mDcs' \in [DOMAIN mDcs -> DcStates]
  <2>1. mDcs[d] + 1 \in DcStates
    BY <1>1 DEF AuthBadAnswer, HandshakeInv, DcStates, AuthKeyCreated
  <2> QED
    BY <2>1, ResetType DEF AuthBadAnswer
<1>5. TypeOK' /\ Maps'
  <2>1. UNCHANGED <<stored, fatal>> \/ FatalError
    BY DEF AuthBadAnswer
  <2>2. UNCHANGED <<working, configVars, apiVars, transferVars, readies, needed, loggedIn,
                     failed, authorized, transferDrops, restarts, logOuts>> /\ drops' \in Nat
    BY DEF AuthBadAnswer, TypeOK
  <2> QED
    BY <1>2, <1>3, <2>1, <2>2, HandshakeTypes
<1>6. FileInv'
  BY DEF AuthBadAnswer, FatalError, AuthFile, Reset, TypeOK, FileInv, FileRestartable, ReqPQSent,
     ReqDHSent, ClientDHSent, configVars, apiVars
<1>7. HandshakeInv'
  BY DEF AuthBadAnswer, FatalError, Reset, TypeOK, HandshakeInv, InitState, ReqPQSent, ReqDHSent,
     ClientDHSent, AuthKeyCreated, DcStates, configVars, apiVars
<1>8. SlotInv'
  BY DEF AuthBadAnswer, FatalError, SlotInv, ReqPQSent, ReqDHSent, ClientDHSent, configVars, apiVars
<1>9. PhaseInv'
  BY DEF AuthBadAnswer, FatalError, PhaseInv, NoTransfer, WaitingForConfig, Configured, ReqPQSent,
     ReqDHSent, ClientDHSent, configVars, apiVars, transferVars
<1>10. TransferInv'
  BY DEF AuthBadAnswer, FatalError, TransferInv, Begun, Released, ReqPQSent, ReqDHSent,
     ClientDHSent, configVars, apiVars, transferVars
<1>11. TargetInv'
  BY DEF AuthBadAnswer, FatalError, TargetInv, ReqPQSent, ReqDHSent, ClientDHSent, configVars,
     apiVars
<1>12. SignedInIsTrue'
  BY DEF AuthBadAnswer, FatalError, AuthFile, Reset, Maps, HandshakeInv, SignedInIsTrue, InitState,
     ReqPQSent, ReqDHSent, ClientDHSent, AuthKeyCreated, UserSignedIn, DcStates, configVars, apiVars
<1>13. TransferIsRight'
  BY DEF AuthBadAnswer, FatalError, TransferIsRight, ReqPQSent, ReqDHSent, ClientDHSent, configVars,
     apiVars, transferVars
<1> QED
  BY <1>5, <1>6, <1>7, <1>8, <1>9, <1>10, <1>11, <1>12, <1>13

\* The loss of a DCAuth's connection keeps the invariant.
LEMMA Lost ==
  ASSUME IInv, NEW d \in DOMAIN auths, AuthError(d)
  PROVE  IInv'
<1> USE DCsAssumption DEF IInv, AuthError,
        configVars, apiVars, transferVars, signalVars, boundVars,
        InitState, ReqPQSent, ReqDHSent, ClientDHSent, AuthKeyCreated, UserSignedIn, DcStates
<1>1. TypeOK'
  BY DEF TypeOK, Sockets
<1>2. Maps'
  BY DEF Maps
<1>3. FileInv'
  BY DEF FileInv, FileRestartable
<1>4. HandshakeInv'
  BY DEF HandshakeInv
<1>5. SlotInv'
  BY DEF SlotInv
<1>6. PhaseInv'
  BY DEF PhaseInv, NoTransfer, HandshakeOfWorking, WaitingForConfig, Configured, IsReady
<1>7. TransferInv'
  BY DEF TransferInv, Begun, Released
<1>8. TargetInv'
  BY DEF TargetInv, NoTransfer, Begun, Released
<1>9. SignedInIsTrue'
  BY DEF SignedInIsTrue
<1>10. TransferIsRight'
  BY DEF TransferIsRight
<1> QED
  BY <1>1, <1>2, <1>3, <1>4, <1>5, <1>6, <1>7, <1>8, <1>9, <1>10

\* The connection of the main session, which asks for the configuration,
\* keeps the invariant.
LEMMA MainConnected ==
  ASSUME IInv, ApiConnected
  PROVE  IInv'
<1> USE DCsAssumption DEF IInv, ApiConnected,
        configVars, apiVars, transferVars, signalVars, boundVars,
        InitState, ReqPQSent, ReqDHSent, ClientDHSent, AuthKeyCreated, UserSignedIn, DcStates
<1>1. TypeOK'
  BY DEF TypeOK, Sockets
<1>2. Maps'
  BY DEF Maps
<1>3. FileInv'
  BY DEF FileInv, FileRestartable
<1>4. HandshakeInv'
  BY DEF HandshakeInv
<1>5. SlotInv'
  BY DEF SlotInv
<1>6. PhaseInv'
  BY DEF PhaseInv, NoTransfer, WaitingForConfig, Configured, IsReady
<1>7. TransferInv'
  BY DEF TransferInv, Begun, Released
<1>8. TargetInv'
  BY DEF TargetInv, NoTransfer, Begun, Released
<1>9. SignedInIsTrue'
  BY DEF SignedInIsTrue
<1>10. TransferIsRight'
  BY DEF TransferIsRight
<1> QED
  BY <1>1, <1>2, <1>3, <1>4, <1>5, <1>6, <1>7, <1>8, <1>9, <1>10

\* The loss of the main connection keeps the invariant, also when the program
\* starts offline with what the file held.
LEMMA MainLost ==
  ASSUME IInv, ApiError
  PROVE  IInv'
<1> USE DCsAssumption DEF IInv, ApiError, OfflineStart,
        configVars, apiVars, transferVars, signalVars, boundVars,
        InitState, ReqPQSent, ReqDHSent, ClientDHSent, AuthKeyCreated, UserSignedIn, DcStates
<1>c. \/ UNCHANGED <<errorSlot, readySlot, readies, needed, loggedIn, failed>>
      \/ /\ errorSlot /\ ~errorSlot' /\ ~readySlot' /\ UNCHANGED <<readies, needed, loggedIn>>
      \/ /\ errorSlot /\ ~errorSlot' /\ ~readySlot' /\ readies' = readies + 1
         /\ \A d \in DOMAIN mDcs : ~(mDcs[d] < AuthKeyCreated)
         /\ loggedIn' => loggedIn \/ \A d \in DOMAIN mDcs : mDcs[d] = UserSignedIn
  OBVIOUS
<1>d. /\ UNCHANGED <<stored, working, mDcs, auths, pendingDcs, configReceived, transfer,
                     transferSessions, pendingTransfers, main, importing, fatal, authorized,
                     transferDrops, restarts, logOuts>>
      /\ ~fatal /\ api # "none" /\ api' # "none" /\ configAsked' = FALSE /\ exporting' = NoDc
  OBVIOUS
<1>1. TypeOK'
  <2>1. FileType'
    BY TypeParts DEF FileType
  <2>2. DcType'
    BY TypeParts DEF DcType
  <2>3. ApiType'
    BY TypeParts DEF ApiType
  <2>4. TransferType'
    BY TypeParts DEF TransferType, Sockets
  <2>5. SignalType'
    <3>1. readies' \in Nat /\ UNCHANGED fatal
      BY TypeParts DEF SignalType
    <3>2. needed' \in BOOLEAN
      BY TypeParts DEF SignalType
    <3>3. loggedIn' \in BOOLEAN
      BY TypeParts DEF SignalType
    <3>4. failed' \in BOOLEAN
      BY TypeParts DEF SignalType
    <3> QED
      BY <3>1, <3>2, <3>3, <3>4, TypeParts DEF SignalType
  <2>6. ServerType'
    BY TypeParts DEF ServerType
  <2> QED
    BY <2>1, <2>2, <2>3, <2>4, <2>5, <2>6 DEF TypeOK, FileType, ApiType, SignalType, ServerType
<1>2. Maps'
  BY DEF Maps
<1>3. FileInv'
  BY DEF FileInv, FileRestartable
<1>4. HandshakeInv'
  BY DEF HandshakeInv
<1>5. SlotInv'
  BY DEF SlotInv
<1>6. PhaseInv'
  <2>1. CASE UNCHANGED <<readies, needed, loggedIn>>
    BY <1>d, <2>1 DEF PhaseInv, NoTransfer, WaitingForConfig, Configured, IsReady
  <2>2. CASE /\ readies' = readies + 1 /\ errorSlot
             /\ \A d \in DOMAIN mDcs : ~(mDcs[d] < AuthKeyCreated)
    <3>1. readies = 0 /\ ~configReceived /\ DOMAIN auths = {} /\ readies' > 0
      BY <1>d, <2>2 DEF SlotInv, PhaseInv, WaitingForConfig
    <3>2. \A d \in DOMAIN mDcs : mDcs[d] \in {AuthKeyCreated, UserSignedIn}
      BY <2>2 DEF TypeOK
    <3> QED
      BY <1>d, <3>1, <3>2 DEF PhaseInv, IsReady
  <2> QED
    BY <1>c, <2>1, <2>2
<1>7. TransferInv'
  BY DEF TransferInv, Begun, Released
<1>8. TargetInv'
  <2>1. CASE UNCHANGED <<readies, needed, loggedIn>>
    BY <1>d, <2>1 DEF TargetInv, NoTransfer, Begun, Released
  <2>2. CASE readies' = readies + 1 /\ errorSlot
    <3>1. NoTransfer
      BY <2>2 DEF SlotInv, PhaseInv
    <3>2. NoTransfer' /\ Begun' = {}
      BY <1>d, <3>1 DEF NoTransfer, Begun
    <3> QED
      BY <3>2 DEF TargetInv
  <2> QED
    BY <1>c, <2>1, <2>2
<1>9. SignedInIsTrue'
  BY DEF SignedInIsTrue
<1>10. TransferIsRight'
  BY DEF TransferIsRight
<1> QED
  BY <1>1, <1>2, <1>3, <1>4, <1>5, <1>6, <1>7, <1>8, <1>9, <1>10

\* An offline start is the first dcProviderReady, and every DC has its key.
LEMMA MainReady ==
  ASSUME IInv, ApiError, readies' > readies
  PROVE  readies = 0 /\ \A x \in DOMAIN mDcs' : mDcs'[x] >= AuthKeyCreated
<1>1. readies' # readies
  BY DEF IInv, TypeOK
<1>2. errorSlot /\ OfflineStart
  BY <1>1 DEF ApiError
<1>3. readies = 0 /\ UNCHANGED mDcs
  BY <1>2 DEF IInv, SlotInv, ApiError
<1>4. ~\E d \in DOMAIN mDcs : mDcs[d] < AuthKeyCreated
  BY <1>1, <1>2 DEF OfflineStart
<1> QED
  BY <1>3, <1>4 DEF IInv, TypeOK, DcStates, AuthKeyCreated

\* The move to the user's own data center keeps the invariant.
LEMMA Migrates ==
  ASSUME IInv, Migrate
  PROVE  IInv'
<1> USE DCsAssumption DEF IInv, Migrate,
        configVars, apiVars, transferVars, signalVars, boundVars,
        InitState, ReqPQSent, ReqDHSent, ClientDHSent, AuthKeyCreated, UserSignedIn, DcStates
<1>1. TypeOK'
  BY DEF TypeOK, Sockets
<1>2. Maps'
  BY DEF Maps
<1>3. FileInv'
  BY DEF FileInv, FileRestartable
<1>4. HandshakeInv'
  BY DEF HandshakeInv
<1>5. SlotInv'
  BY DEF SlotInv
<1>6. PhaseInv'
  BY DEF PhaseInv, WaitingForConfig, Configured, IsReady
<1>7. TransferInv'
  BY DEF TransferInv, Begun, Released
<1>8. TargetInv'
  BY DEF TargetInv, NoTransfer, Begun, Released
<1>9. SignedInIsTrue'
  BY DEF SignedInIsTrue
<1>10. TransferIsRight'
  BY DEF TransferIsRight
<1> QED
  BY <1>1, <1>2, <1>3, <1>4, <1>5, <1>6, <1>7, <1>8, <1>9, <1>10

\* A sign-in keeps the invariant: it begins a transfer to each DC that has a
\* key and no user.
LEMMA SignsIn ==
  ASSUME IInv, SignIn
  PROVE  IInv'
<1> USE DCsAssumption DEF IInv, SignIn, AuthFile, TransferAuth, TransferTargets,
        configVars, apiVars, transferVars, signalVars, boundVars,
        InitState, ReqPQSent, ReqDHSent, ClientDHSent, AuthKeyCreated, UserSignedIn, DcStates
<1>a. PICK T \in SUBSET (DOMAIN mDcs) :
        /\ T = TransferTargets([mDcs EXCEPT ![working] = UserSignedIn])
        /\ transfer' = [d \in DCs |-> IF d \in T THEN "connecting" ELSE transfer[d]]
        /\ pendingTransfers' = pendingTransfers + Cardinality(T)
        /\ loggedIn' = (loggedIn \/ T = {})
        /\ UNCHANGED <<transferSessions, main, exporting, importing>>
  OBVIOUS
<1>b. T \in SUBSET DCs /\ Cardinality(T) \in Nat
  BY DcSets DEF TypeOK
<1>1. TypeOK'
  <2>1. FileType'
    <3>1. [mDcs EXCEPT ![working] = UserSignedIn] \in [DOMAIN mDcs -> DcStates]
      BY DEF TypeOK, Maps
    <3> QED
      BY <3>1, Filed DEF TypeOK
  <2>2. DcType'
    BY TypeParts DEF DcType
  <2>3. ApiType'
    BY TypeParts DEF ApiType
  <2>4. TransferType'
    BY TypeParts DEF TransferType, Sockets
  <2>5. SignalType'
    BY TypeParts DEF SignalType
  <2>6. ServerType'
    BY TypeParts DEF ServerType
  <2> QED
    BY <2>1, <2>2, <2>3, <2>4, <2>5, <2>6 DEF TypeOK, FileType, ApiType, TransferType, ServerType
<1>2. Maps'
  BY DEF TypeOK, Maps
<1>3. FileInv'
  BY DEF TypeOK, FileInv, FileRestartable, PhaseInv, IsReady
<1>4. HandshakeInv'
  BY DEF TypeOK, PhaseInv, IsReady, HandshakeInv
<1>5. SlotInv'
  BY DEF SlotInv
<1>6. PhaseInv'
  BY DEF PhaseInv, WaitingForConfig, Configured, IsReady
<1>7. TransferInv'
  <2>1. CASE T = {}
    <3>1. transfer' = [x \in DCs |-> transfer[x]] /\ transfer' = transfer
      BY <1>a, <2>1 DEF TypeOK
    <3>3. pendingTransfers' = pendingTransfers
      <4>1. Cardinality(T) = 0
        BY <2>1, FS_EmptySet
      <4>2. pendingTransfers \in Int
        BY DEF TypeOK
      <4> QED
        BY <1>a, <4>1, <4>2
    <3>2. Begun' = Begun /\ Released' = Released
      BY <3>1 DEF Begun, Released
    <3> QED
      BY <1>a, <3>2, <3>3, <3>1 DEF TransferInv
  <2>2. CASE T # {}
    <3>1. NoTransfer
      BY <1>a, <2>2 DEF TargetInv
    <3>2. Begun' = T /\ Released' = {}
      BY <1>a, <1>b, <3>1 DEF NoTransfer, Begun, Released
    <3> QED
      BY <1>a, <1>b, <3>1, <3>2, FS_EmptySet DEF TransferInv, NoTransfer
  <2> QED
    BY <2>1, <2>2
<1>8. TargetInv'
  BY DEF TypeOK, PhaseInv, IsReady, TargetInv, Begun, Released
<1>9. SignedInIsTrue'
  BY DEF SignedInIsTrue
<1>10. TransferIsRight'
  BY DEF TypeOK, PhaseInv, IsReady, TransferIsRight
<1> QED
  BY <1>1, <1>2, <1>3, <1>4, <1>5, <1>6, <1>7, <1>8, <1>9, <1>10

\* A log-out keeps the invariant.
LEMMA LogsOut ==
  ASSUME IInv, UserLogOut
  PROVE  IInv'
<1> USE DCsAssumption DEF IInv, UserLogOut, AuthFile, Reset,
        configVars, apiVars, transferVars, signalVars, boundVars,
        InitState, ReqPQSent, ReqDHSent, ClientDHSent, AuthKeyCreated, UserSignedIn, DcStates
<1>1. TypeOK'
  <2>1. FileType'
    BY ResetType, Filed DEF TypeOK
  <2>2. DcType'
    BY TypeParts DEF DcType
  <2>3. ApiType'
    BY TypeParts DEF ApiType
  <2>4. TransferType'
    BY TypeParts DEF TransferType, Sockets
  <2>5. SignalType'
    BY TypeParts DEF SignalType
  <2>6. ServerType'
    BY TypeParts DEF ServerType
  <2> QED
    BY <2>1, <2>2, <2>3, <2>4, <2>5, <2>6 DEF TypeOK, FileType, ApiType, ServerType
<1>2. Maps'
  BY DEF Maps
<1>3. FileInv'
  BY DEF TypeOK, FileInv, FileRestartable
<1>4. HandshakeInv'
  BY DEF TypeOK, PhaseInv, IsReady, HandshakeInv
<1>5. SlotInv'
  BY DEF SlotInv
<1>6. PhaseInv'
  BY DEF TypeOK, PhaseInv, WaitingForConfig, Configured, IsReady
<1>7. TransferInv'
  BY DEF TransferInv, Begun, Released
<1>8. TargetInv'
  BY DEF TypeOK, TargetInv
<1>9. SignedInIsTrue'
  BY DEF SignedInIsTrue
<1>10. TransferIsRight'
  BY DEF TransferIsRight
<1> QED
  BY <1>1, <1>2, <1>3, <1>4, <1>5, <1>6, <1>7, <1>8, <1>9, <1>10

\* A transfer session that gets ready, for the first time or again, keeps the
\* invariant: it is appended and counted.
LEMMA Ready ==
  ASSUME IInv, NEW d \in DCs, TransferReady(d)
  PROVE  IInv'
<1> USE DCsAssumption DEF IInv, TransferReady, Export,
        configVars, apiVars, transferVars, signalVars, boundVars,
        InitState, ReqPQSent, ReqDHSent, ClientDHSent, AuthKeyCreated, UserSignedIn, DcStates
<1>1. TypeOK'
  BY DEF TypeOK, Sockets
<1>2. Maps'
  BY DEF Maps
<1>3. FileInv'
  BY DEF FileInv, FileRestartable
<1>4. HandshakeInv'
  BY DEF HandshakeInv
<1>5. SlotInv'
  BY DEF SlotInv
<1>6. PhaseInv'
  BY DEF PhaseInv, NoTransfer, HandshakeOfWorking, WaitingForConfig, Configured, IsReady
<1>7. TransferInv'
  <2>1. Begun' = Begun /\ Released' = Released
    BY DEF Begun, Released
  <2>2. Cardinality(Begun) \in Nat /\ Cardinality(Released) \in Nat
    BY DcSets DEF Begun, Released
  <2>3. Len(transferSessions') = Len(transferSessions) + 1 /\ Len(transferSessions) \in Nat
    OBVIOUS
  <2>4. /\ transferSessions' # <<>>
         /\ transferSessions # <<>> => Head(transferSessions') = Head(transferSessions)
    OBVIOUS
  <2>5. Head(transferSessions') \in DCs
    BY <2>4 DEF TypeOK
  <2>6. Len(transferSessions') + Cardinality(Released') + pendingTransfers' = Cardinality(Begun')
    BY <2>1, <2>2, <2>3 DEF TypeOK, TransferInv
  <2>7. pendingTransfers' = pendingTransfers - 1 /\ pendingTransfers \in Int /\ UNCHANGED importing
    BY DEF TypeOK
  <2>8. CASE pendingTransfers' = 0
    <3>1. importing = NoImport /\ (exporting' = NoDc \/ exporting' = Head(transferSessions'))
      BY <2>7, <2>8 DEF TransferInv
    <3> QED
      BY <2>4, <2>6, <2>7, <2>8, <3>1 DEF TransferInv
  <2>9. CASE pendingTransfers' # 0
    <3>1. UNCHANGED exporting
      BY <2>9
    <3>2. importing # NoImport => transfer'[importing.at] = "connected"
      BY DEF TransferInv
    <3>3. pendingTransfers <= 0 => pendingTransfers' <= 0
      BY <2>7
    <3>4. exporting' # NoDc =>
            /\ pendingTransfers' <= 0 /\ importing' = NoImport
            /\ transferSessions' # <<>> /\ Head(transferSessions') = exporting'
      BY <2>4, <2>7, <3>1, <3>3 DEF TransferInv
    <3>5. importing' # NoImport =>
            /\ pendingTransfers' <= 0
            /\ transferSessions' # <<>> /\ Head(transferSessions') = importing'.at
            /\ importing'.at \in DCs /\ transfer'[importing'.at] = "connected"
      BY <2>4, <2>7, <3>2, <3>3 DEF TransferInv
    <3> QED
      BY <2>6, <2>7, <3>4, <3>5 DEF TransferInv
  <2> QED
    BY <2>8, <2>9
<1>8. TargetInv'
  BY DEF TargetInv, NoTransfer, Begun, Released
<1>9. SignedInIsTrue'
  BY DEF SignedInIsTrue
<1>10. TransferIsRight'
  BY DEF TransferIsRight
<1> QED
  BY <1>1, <1>2, <1>3, <1>4, <1>5, <1>6, <1>7, <1>8, <1>9, <1>10

\* The loss of a transfer session's connection keeps the invariant.
LEMMA TransferLost ==
  ASSUME IInv, NEW d \in DCs, TransferError(d)
  PROVE  IInv'
<1> USE DCsAssumption DEF IInv, TransferError,
        configVars, apiVars, transferVars, signalVars, boundVars,
        InitState, ReqPQSent, ReqDHSent, ClientDHSent, AuthKeyCreated, UserSignedIn, DcStates
<1>1. TypeOK'
  <2>1. FileType'
    BY TypeParts DEF FileType
  <2>2. DcType'
    BY TypeParts DEF DcType
  <2>3. ApiType'
    BY TypeParts DEF ApiType
  <2>4. TransferType'
    <3>1. importing' \in [at : DCs \cup {NoDc}, bytesFor : DCs \cup {NoDc}]
      BY DEF TypeOK, NoImport
    <3> QED
      BY <3>1, TypeParts DEF TransferType, Sockets
  <2>5. SignalType'
    BY TypeParts DEF SignalType
  <2>6. ServerType'
    BY TypeParts DEF ServerType
  <2> QED
    BY <2>1, <2>2, <2>3, <2>4, <2>5, <2>6 DEF TypeOK, FileType, ApiType, TransferType, ServerType
<1>2. Maps'
  BY DEF Maps
<1>3. FileInv'
  BY DEF FileInv, FileRestartable
<1>4. HandshakeInv'
  BY DEF HandshakeInv
<1>5. SlotInv'
  BY DEF SlotInv
<1>6. PhaseInv'
  BY DEF PhaseInv, NoTransfer, HandshakeOfWorking, WaitingForConfig, Configured, IsReady
<1>7. TransferInv'
  BY DEF TypeOK, TransferInv, Begun, Released, NoImport
<1>8. TargetInv'
  BY DEF TargetInv, NoTransfer, Begun, Released
<1>9. SignedInIsTrue'
  BY DEF SignedInIsTrue
<1>10. TransferIsRight'
  BY DEF NoImport, TransferIsRight
<1> QED
  BY <1>1, <1>2, <1>3, <1>4, <1>5, <1>6, <1>7, <1>8, <1>9, <1>10

\* An exported authorization keeps the invariant: it is imported at the
\* session it was exported for.
LEMMA ExportedStep ==
  ASSUME IInv, OnAuthExported
  PROVE  IInv'
<1> USE DCsAssumption DEF IInv, OnAuthExported, Importer,
        configVars, apiVars, transferVars, signalVars, boundVars,
        InitState, ReqPQSent, ReqDHSent, ClientDHSent, AuthKeyCreated, UserSignedIn, DcStates
<1>1. TypeOK'
  <2>1. FileType'
    BY TypeParts DEF FileType
  <2>2. DcType'
    BY TypeParts DEF DcType
  <2>3. ApiType'
    BY TypeParts DEF ApiType
  <2>4. TransferType'
    <3>1. Head(transferSessions) = exporting /\ exporting \in DCs
      BY DEF TypeOK, TransferInv
    <3>2. importing' \in [at : DCs \cup {NoDc}, bytesFor : DCs \cup {NoDc}]
      BY <3>1 DEF NoImport
    <3> QED
      BY <3>1, <3>2, TypeParts DEF TransferType, Sockets
  <2>5. SignalType'
    BY TypeParts DEF SignalType
  <2>6. ServerType'
    BY TypeParts DEF ServerType
  <2> QED
    BY <2>1, <2>2, <2>3, <2>4, <2>5, <2>6 DEF TypeOK, FileType, ApiType, TransferType, ServerType
<1>2. Maps'
  BY DEF Maps
<1>3. FileInv'
  BY DEF FileInv, FileRestartable
<1>4. HandshakeInv'
  BY DEF HandshakeInv
<1>5. SlotInv'
  BY DEF SlotInv
<1>6. PhaseInv'
  BY DEF PhaseInv, NoTransfer, HandshakeOfWorking, WaitingForConfig, Configured, IsReady
<1>7. TransferInv'
  BY DEF TypeOK, TransferInv, Begun, Released
<1>8. TargetInv'
  BY DEF TargetInv, NoTransfer, Begun, Released
<1>9. SignedInIsTrue'
  BY DEF SignedInIsTrue
<1>10. TransferIsRight'
  BY DEF TransferIsRight, TransferInv
<1> QED
  BY <1>1, <1>2, <1>3, <1>4, <1>5, <1>6, <1>7, <1>8, <1>9, <1>10

\* An imported authorization keeps the invariant: its session is released,
\* and the next of the list takes its turn.
LEMMA ImportedStep ==
  ASSUME IInv, OnAuthImported
  PROVE  IInv'
<1> USE DCsAssumption DEF IInv, configVars, apiVars, boundVars,
        InitState, AuthKeyCreated, UserSignedIn
<1> DEFINE d    == importing.at
           rest == Tail(transferSessions)
           dcs  == [mDcs EXCEPT ![d] = UserSignedIn]
<1>a. /\ ~fatal /\ importing # NoImport
      /\ transferSessions # <<>> /\ Head(transferSessions) = d
      /\ d \in DCs /\ transfer[d] = "connected" /\ pendingTransfers <= 0
  BY DEF OnAuthImported, TransferInv
<1>b. /\ importing' = NoImport /\ authorized' = authorized \cup {d}
      /\ transferSessions' = rest /\ mDcs' = dcs
      /\ transfer' = [transfer EXCEPT ![d] = "released"] /\ main' = NoDc
      /\ UNCHANGED <<working, auths, configVars, apiVars, pendingTransfers, readies,
                     needed, failed, fatal, boundVars>>
      /\ IF rest = <<>>
         THEN stored' = AuthFile(dcs) /\ loggedIn' = TRUE /\ UNCHANGED exporting
         ELSE Export(Head(rest)) /\ UNCHANGED <<stored, loggedIn>>
  BY <1>a DEF OnAuthImported, Imported
<1>c. rest \in Seq(DCs) /\ Len(transferSessions) = Len(rest) + 1 /\ Len(rest) \in Nat
  BY <1>a DEF TypeOK
<1> HIDE DEF rest
<1>d. readies > 0 /\ IsReady
  BY <1>a DEF PhaseInv, NoTransfer, TypeOK
<1>e. dcs \in [DOMAIN mDcs -> DcStates]
  <2>1. UserSignedIn \in DcStates
    BY DEF DcStates
  <2> QED
    BY <2>1 DEF Maps
<1>f. /\ Begun' = Begun /\ Released' = Released \cup {d} /\ d \notin Released /\ d \in Begun
      /\ Begun \in SUBSET DCs /\ Released \in SUBSET DCs /\ Released \subseteq Begun
  BY <1>a, <1>b DEF Begun, Released, TypeOK
<1>g. /\ Cardinality(Released') = Cardinality(Released) + 1
      /\ Cardinality(Begun) \in Nat /\ Cardinality(Released) \in Nat
  BY <1>f, DcSets, FS_AddElement
<1>h. rest = <<>> => Released' = Begun
  <2>1. SUFFICES ASSUME rest = <<>> PROVE Released' = Begun
    OBVIOUS
  <2>2. 1 + Cardinality(Released) + pendingTransfers = Cardinality(Begun)
    <3>1. Len(<<>>) = 0
      OBVIOUS
    <3>2. Len(transferSessions) = 1
      BY <1>c, <2>1, <3>1
    <3>3. pendingTransfers \in Int
      BY DEF TypeOK
    <3> QED
      BY <1>g, <3>2, <3>3 DEF TransferInv
  <2>3. Cardinality(Released') >= Cardinality(Begun)
    BY <1>a, <1>g, <2>2 DEF TypeOK
  <2>4. Released' \subseteq Begun /\ IsFiniteSet(Begun)
    BY <1>f, DcSets
  <2> QED
    BY <2>3, <2>4, FS_Subset, FS_CardinalityType
<1>1. TypeOK'
  <2>1. FileType'
    <3>1. CASE rest = <<>>
      BY <1>b, <1>e, <3>1, Filed DEF TypeOK
    <3>2. CASE rest # <<>>
      BY <1>b, <3>2, TypeParts DEF FileType
    <3> QED
      BY <3>1, <3>2
  <2>2. DcType'
    BY <1>b, <1>e, TypeParts DEF DcType
  <2>3. ApiType'
    BY <1>b, TypeParts DEF ApiType
  <2>4. TransferType'
    <3>1. exporting' \in DCs \cup {NoDc}
      BY <1>b, <1>c DEF Export, TypeOK
    <3>2. importing' \in [at : DCs \cup {NoDc}, bytesFor : DCs \cup {NoDc}]
      BY <1>b DEF NoImport
    <3>3. transfer' \in [DCs -> Sockets]
      BY <1>b DEF TypeOK, Sockets
    <3> QED
      BY <1>b, <1>c, <3>1, <3>2, <3>3, TypeParts DEF TransferType
  <2>5. SignalType'
    BY <1>b, TypeParts DEF SignalType
  <2>6. ServerType'
    BY <1>a, <1>b, TypeParts DEF ServerType
  <2> QED
    BY <2>1, <2>2, <2>3, <2>4, <2>5, <2>6
       DEF TypeOK, FileType, DcType, ApiType, TransferType, SignalType, ServerType
<1>2. Maps'
  <2>1. stored'.dcs \in [DOMAIN stored'.dcs -> DcStates]
    BY <1>b, <1>e DEF Maps, AuthFile
  <2> QED
    BY <1>b, <1>e, <2>1 DEF Maps
<1>3. FileInv'
  <2>1. CASE rest = <<>>
    <3>1. /\ stored'.saved = TRUE /\ stored'.working = working
          /\ stored'.dcs = dcs /\ DOMAIN dcs = DOMAIN mDcs
      BY <1>b, <2>1 DEF AuthFile
    <3>2. \A x \in DOMAIN mDcs : dcs[x] \in {InitState, AuthKeyCreated, UserSignedIn}
      BY <1>d DEF IsReady
    <3> QED
      BY <3>1, <3>2 DEF FileInv, FileRestartable, TypeOK
  <2>2. CASE rest # <<>>
    BY <1>b, <2>2 DEF FileInv, FileRestartable
  <2> QED
    BY <2>1, <2>2
<1>4. HandshakeInv'
  BY <1>b, <1>d DEF HandshakeInv, IsReady
<1>5. SlotInv'
  BY <1>b DEF SlotInv
<1>6. PhaseInv'
  <2>1. IsReady'
    BY <1>b, <1>d, <1>e DEF IsReady
  <2>2. readies' > 0 /\ api' # "none" /\ readies \in Nat
    BY <1>a, <1>b, <1>d DEF PhaseInv, HandshakeOfWorking, TypeOK
  <2> QED
    BY <2>1, <2>2, <1>b DEF PhaseInv
<1>7. TransferInv'
  <2>1. Len(transferSessions') + Cardinality(Released') + pendingTransfers' = Cardinality(Begun')
    BY <1>b, <1>c, <1>f, <1>g DEF TransferInv
  <2>2. importing' = NoImport /\ importing'.at = importing'.bytesFor /\ pendingTransfers' <= 0
    BY <1>a, <1>b DEF NoImport
  <2>3. exporting = NoDc
    BY <1>a DEF TransferInv
  <2>4. exporting' # NoDc => transferSessions' # <<>> /\ Head(transferSessions') = exporting'
    BY <1>b, <2>3 DEF Export
  <2> QED
    BY <2>1, <2>2, <2>4 DEF TransferInv
<1>8. TargetInv'
  <2>1. Begun' # {} /\ UNCHANGED <<needed, fatal, logOuts>>
    BY <1>b, <1>f
  <2>2. \A x \in DOMAIN mDcs : mDcs'[x] \in {mDcs[x], UserSignedIn}
    BY <1>b
  <2>3. needed /\ ~fatal => \A x \in DOMAIN mDcs : mDcs[x] # AuthKeyCreated
    BY <1>a DEF TargetInv, NoTransfer
  <2>4. DOMAIN mDcs' = DOMAIN mDcs /\ (d \in DOMAIN mDcs => mDcs'[d] = UserSignedIn)
    BY <1>b
  <2>5. needed' /\ ~fatal' => \A x \in DOMAIN mDcs' : mDcs'[x] # AuthKeyCreated
    BY <2>1, <2>2, <2>3, <2>4
  <2>6. ~fatal' /\ logOuts' = 0 =>
          \A x \in DOMAIN mDcs' : x \notin Begun' \/ x \in Released' => mDcs'[x] = UserSignedIn
    BY <1>f, <2>1, <2>2, <2>4 DEF TargetInv
  <2> QED
    BY <2>5, <2>6 DEF TargetInv
<1>9. SignedInIsTrue'
  <2>1. \A x \in DOMAIN mDcs' : mDcs'[x] = UserSignedIn => x \in authorized'
    BY <1>b DEF SignedInIsTrue
  <2>2. CASE rest = <<>>
    <3>1. stored'.dcs = mDcs'
      BY <1>b, <2>2 DEF AuthFile
    <3> QED
      BY <2>1, <3>1 DEF SignedInIsTrue
  <2>3. CASE rest # <<>>
    BY <1>b, <2>1, <2>3 DEF SignedInIsTrue
  <2> QED
    BY <2>2, <2>3
<1>10. TransferIsRight'
  <2>1. importing'.at = importing'.bytesFor
    BY <1>b DEF NoImport
  <2>2. CASE rest = <<>>
    <3>1. \A x \in DOMAIN mDcs' : x \in Begun' => x \in Released'
      BY <1>f, <1>h, <2>2
    <3> QED
      BY <1>8, <1>f, <2>1, <3>1 DEF TargetInv, TransferIsRight
  <2>3. CASE rest # <<>>
    BY <1>b, <2>1, <2>3 DEF TransferIsRight
  <2> QED
    BY <2>2, <2>3
<1> QED
  BY <1>1, <1>2, <1>3, <1>4, <1>5, <1>6, <1>7, <1>8, <1>9, <1>10

\* processDcReady at the last pending DC keeps the invariant, once every DC
\* has its key.
LEMMA GetsReady ==
  ASSUME IInv, ~fatal, readies = 0, ProviderReady(mDcs'),
         mDcs' \in [DOMAIN mDcs' -> DcStates], DOMAIN mDcs' \subseteq DCs, working \in DOMAIN mDcs',
         \A x \in DOMAIN mDcs' : mDcs'[x] >= AuthKeyCreated,
         \A x \in DOMAIN mDcs' : mDcs'[x] = UserSignedIn => x \in authorized,
         UNCHANGED <<working, fatal, authorized, boundVars>>
  PROVE  /\ FileType' /\ TransferType' /\ SignalType' /\ FileInv' /\ TransferInv' /\ TargetInv'
         /\ SignedInIsTrue' /\ TransferIsRight' /\ readies' = 1
         /\ stored'.dcs \in [DOMAIN stored'.dcs -> DcStates]
<1> USE DCsAssumption DEF IInv, AuthKeyCreated, UserSignedIn
<1> DEFINE T == TransferTargets(mDcs')
<1>1. /\ NoTransfer /\ ~needed /\ ~loggedIn /\ readies' = 1
      /\ stored' = AuthFile(mDcs') /\ UNCHANGED failed
      /\ needed' = (needed \/ mDcs'[working] = AuthKeyCreated)
  BY DEF PhaseInv, ProviderReady
<1>2. /\ FileType' /\ stored'.saved = TRUE /\ stored'.working = working
      /\ stored'.dcs = mDcs' /\ DOMAIN stored'.dcs = DOMAIN mDcs'
  BY <1>1, Filed
<1>3. \A x \in DOMAIN mDcs' : mDcs'[x] \in {AuthKeyCreated, UserSignedIn}
  BY DEF DcStates
<1>4. FileInv'
  BY <1>2, <1>3 DEF FileInv, FileRestartable
<1>5. SignedInIsTrue'
  BY <1>2 DEF SignedInIsTrue
<1>6. T \in SUBSET DCs /\ Cardinality(T) \in Nat /\ (Cardinality(T) = 0 <=> T = {})
  BY DcSets DEF TransferTargets
<1>7. CASE mDcs'[working] = UserSignedIn
  <2>1. /\ transfer' = [d \in DCs |-> IF d \in T THEN "connecting" ELSE transfer[d]]
        /\ pendingTransfers' = pendingTransfers + Cardinality(T)
        /\ loggedIn' = (loggedIn \/ T = {})
        /\ UNCHANGED <<transferSessions, main, exporting, importing>>
    BY <1>7 DEF ProviderReady, TransferAuth
  <2>2. \A x \in DOMAIN mDcs' : x \notin T => mDcs'[x] = UserSignedIn
    BY <1>3, <1>7 DEF TransferTargets
  <2>3. Begun' = T /\ Released' = {}
    BY <1>1, <1>6, <2>1 DEF NoTransfer, Begun, Released
  <2>4. ~needed'
    <3>1. mDcs'[working] # AuthKeyCreated
      BY <1>7
    <3> QED
      BY <1>1, <3>1, Zenon
  <2>5. TransferType'
    <3>1. transfer' \in [DCs -> Sockets] /\ pendingTransfers' \in Int
      BY <1>6, <2>1, TypeParts DEF TransferType, Sockets
    <3> QED
      BY <2>1, <3>1, TypeParts DEF TransferType
  <2>6. SignalType'
    BY <1>1, <2>1, <2>4, TypeParts DEF SignalType
  <2>7. TransferInv'
    BY <1>1, <1>6, <2>1, <2>3, FS_EmptySet DEF TransferInv, NoTransfer
  <2>8. TargetInv'
    BY <2>2, <2>3, <2>4 DEF TargetInv
  <2>9. TransferIsRight'
    BY <1>1, <2>1, <2>2 DEF TransferIsRight
  <2> QED
    BY <1>1, <1>2, <1>4, <1>5, <2>5, <2>6, <2>7, <2>8, <2>9
<1>8. CASE mDcs'[working] # UserSignedIn
  <2>1. UNCHANGED <<transferVars, loggedIn>>
    BY <1>8 DEF ProviderReady
  <2>2. NoTransfer' /\ Begun' = {} /\ Released' = {} /\ ~loggedIn'
    BY <1>1, <2>1 DEF transferVars, NoTransfer, Begun, Released
  <2>3. TransferType'
    BY <2>1, TypeParts DEF TransferType, transferVars
  <2>4. SignalType'
    BY <1>1, <2>1, TypeParts DEF SignalType
  <2>5. TransferInv'
    BY <2>2, FS_EmptySet DEF TransferInv, NoTransfer, NoImport
  <2>6. TargetInv'
    BY <2>2 DEF TargetInv
  <2>7. TransferIsRight'
    BY <2>2 DEF TransferIsRight, NoTransfer, NoImport
  <2> QED
    BY <1>1, <1>2, <1>4, <1>5, <2>3, <2>4, <2>5, <2>6, <2>7
<1> QED
  BY <1>7, <1>8

\* The end of a handshake keeps the invariant, and reports readiness only for
\* the first time and with all keys.
LEMMA Disconnected ==
  ASSUME IInv, NEW d \in DOMAIN auths, AuthDisconnected(d)
  PROVE  /\ IInv'
         /\ readies' > readies =>
              readies = 0 /\ \A x \in DOMAIN mDcs' : mDcs'[x] >= AuthKeyCreated
<1> USE DCsAssumption DEF IInv, AuthKeyCreated, UserSignedIn, boundVars
<1>a. /\ ~fatal /\ auths[d] = "closing" /\ auths' = MapRemove(auths, d) /\ ProcessDcReady(d)
      /\ UNCHANGED <<working, mDcs, configReceived, configAsked, fatal, authorized, boundVars>>
  BY DEF AuthDisconnected
<1>b. d \in DOMAIN mDcs /\ mDcs[d] = AuthKeyCreated /\ d \in DCs
  BY <1>a DEF HandshakeInv, TypeOK
<1>c. /\ DOMAIN auths' = DOMAIN auths \ {d} /\ \A x \in DOMAIN auths' : auths'[x] = auths[x]
      /\ auths' \in [DOMAIN auths' -> {"connecting", "connected", "closing"}]
  BY <1>a DEF MapRemove, Maps
<1>d. HandshakeInv'
  BY <1>a, <1>c DEF HandshakeInv
<1>e. readies \in Nat /\ readies = 0
  BY <1>a DEF TypeOK, PhaseInv, IsReady
<1>f. NoTransfer /\ ~needed /\ ~loggedIn
  BY <1>e DEF PhaseInv
<1>g. ServerType' /\ (pendingDcs' \in Int => DcType')
  BY <1>a, <1>c, TypeParts DEF ServerType, DcType
<1>1. CASE api = "none"
  <2>1. /\ d = working /\ DOMAIN auths = {working} /\ ~configReceived /\ pendingDcs = 0
    BY <1>a, <1>1 DEF PhaseInv, HandshakeOfWorking
  <2>2. /\ api' = "connecting" /\ errorSlot' = TRUE /\ readySlot' = TRUE
        /\ UNCHANGED <<pendingDcs, stored, readies, needed, transferVars, loggedIn, failed>>
    BY <1>a, <1>1, <2>1 DEF ProcessDcReady, NotReady
  <2>3. TypeOK'
    <3>1. ApiType'
      BY <1>a, <2>2, TypeParts DEF ApiType
    <3>2. FileType' /\ TransferType' /\ SignalType'
      BY <1>a, <2>2, TypeParts DEF FileType, TransferType, SignalType, transferVars
    <3>3. pendingDcs' \in Int
      BY <2>2, TypeParts DEF DcType
    <3> QED
      BY <1>g, <3>1, <3>2, <3>3
         DEF TypeOK, FileType, DcType, ApiType, TransferType, SignalType, ServerType
  <2>4. Maps' /\ FileInv'
    BY <1>a, <1>c, <2>2 DEF Maps, FileInv, FileRestartable
  <2>5. SlotInv'
    BY <1>1, <1>a, <1>e, <2>1, <2>2 DEF SlotInv
  <2>6. PhaseInv'
    <3>1. WaitingForConfig'
      BY <1>a, <1>b, <1>c, <2>1, <2>2 DEF WaitingForConfig
    <3>2. NoTransfer' /\ ~needed' /\ ~loggedIn'
      BY <1>f, <2>2 DEF NoTransfer, transferVars
    <3> QED
      BY <1>a, <1>e, <2>1, <2>2, <3>1, <3>2 DEF PhaseInv
  <2>7. TransferInv' /\ TargetInv'
    BY <1>a, <1>f, <2>2 DEF transferVars, TransferInv, TargetInv, Begun, Released
  <2>8. SignedInIsTrue' /\ TransferIsRight'
    BY <1>a, <2>2 DEF transferVars, SignedInIsTrue, TransferIsRight
  <2> QED
    BY <1>d, <2>2, <1>e, <2>3, <2>4, <2>5, <2>6, <2>7, <2>8
<1>2. CASE api # "none"
  <2>1. configReceived /\ Configured
    BY <1>a, <1>2, <1>e DEF PhaseInv, WaitingForConfig
  <2>2. /\ pendingDcs' = pendingDcs - 1 /\ UNCHANGED <<api, errorSlot, readySlot>>
        /\ IF pendingDcs' = 0 THEN ProviderReady(mDcs) ELSE NotReady
    BY <1>a, <1>2 DEF ProcessDcReady
  <2>3. pendingDcs' = Cardinality(DOMAIN auths') /\ pendingDcs' \in Nat
    <3>1. DOMAIN auths \in SUBSET DCs /\ DOMAIN auths' \in SUBSET DCs
      BY <1>c DEF TypeOK
    <3>2. IsFiniteSet(DOMAIN auths) /\ Cardinality(DOMAIN auths') \in Nat
      BY <3>1, DcSets
    <3>3. Cardinality(DOMAIN auths') = Cardinality(DOMAIN auths) - 1
      BY <1>c, <3>2, FS_RemoveElement
    <3> QED
      BY <2>1, <2>2, <3>2, <3>3 DEF Configured
  <2>4. Configured'
    BY <1>a, <1>b, <1>c, <2>1, <2>3 DEF Configured
  <2>5. ApiType' /\ DcType'
    BY <1>a, <1>g, <2>2, <2>3, TypeParts DEF ApiType
  <2>6. SlotInv'
    BY <1>a, <2>1, <2>2 DEF SlotInv
  <2>7. CASE pendingDcs' # 0
    <3>1. UNCHANGED <<stored, readies, needed, transferVars, loggedIn, failed>>
      BY <2>2, <2>7 DEF NotReady
    <3>2. TypeOK'
      <4>1. FileType' /\ TransferType' /\ SignalType'
        BY <1>a, <3>1, TypeParts DEF FileType, TransferType, SignalType, transferVars
      <4> QED
        BY <1>g, <2>5, <4>1
           DEF TypeOK, FileType, DcType, ApiType, TransferType, SignalType, ServerType
    <3>3. Maps' /\ FileInv'
      BY <1>a, <1>c, <3>1 DEF Maps, FileInv, FileRestartable
    <3>4. PhaseInv'
      <4>1. NoTransfer' /\ ~needed' /\ ~loggedIn'
        BY <1>f, <3>1 DEF NoTransfer, transferVars
      <4> QED
        BY <1>a, <1>2, <1>e, <2>1, <2>2, <2>4, <3>1, <4>1 DEF PhaseInv
    <3>5. TransferInv' /\ TargetInv'
      BY <1>a, <1>f, <3>1 DEF transferVars, TransferInv, TargetInv, Begun, Released
    <3>6. SignedInIsTrue' /\ TransferIsRight'
      BY <1>a, <3>1 DEF transferVars, SignedInIsTrue, TransferIsRight
    <3> QED
      BY <1>d, <1>e, <2>6, <3>1, <3>2, <3>3, <3>4, <3>5, <3>6
  <2>8. CASE pendingDcs' = 0
    <3>1. DOMAIN auths' = {}
      BY <1>c, <2>1, <2>3, <2>8, DcSets DEF Configured, TypeOK
    <3>2. \A x \in DOMAIN mDcs' : mDcs'[x] >= AuthKeyCreated
      BY <2>4, <3>1 DEF Configured
    <3>3. ProviderReady(mDcs')
      BY <1>a, <2>2, <2>8
    <3>4. /\ mDcs' \in [DOMAIN mDcs' -> DcStates] /\ DOMAIN mDcs' \subseteq DCs
          /\ working \in DOMAIN mDcs'
          /\ \A x \in DOMAIN mDcs' : mDcs'[x] = UserSignedIn => x \in authorized
      BY <1>a DEF Maps, TypeOK, SignedInIsTrue
    <3>5. /\ FileType' /\ TransferType' /\ SignalType' /\ FileInv' /\ TransferInv' /\ TargetInv'
          /\ SignedInIsTrue' /\ TransferIsRight' /\ readies' = 1
          /\ stored'.dcs \in [DOMAIN stored'.dcs -> DcStates]
      BY <1>a, <1>e, <3>2, <3>3, <3>4, GetsReady
    <3>6. TypeOK'
      BY <1>g, <2>5, <3>5
         DEF TypeOK, FileType, DcType, ApiType, TransferType, SignalType, ServerType
    <3>7. Maps'
      BY <1>c, <3>4, <3>5 DEF Maps
    <3>8. PhaseInv'
      <4>1. IsReady'
        BY <3>1, <3>2, <3>4 DEF IsReady, DcStates
      <4> QED
        BY <1>2, <2>2, <3>5, <4>1 DEF PhaseInv
    <3> QED
      BY <1>d, <1>e, <2>6, <3>2, <3>5, <3>6, <3>7, <3>8
  <2> QED
    BY <2>7, <2>8
<1> QED
  BY <1>1, <1>2

\* The first and every later configuration keeps the invariant, and reports
\* readiness only for the first time and with all keys.
LEMMA Configures ==
  ASSUME IInv, ConfigReceived
  PROVE  /\ IInv'
         /\ readies' > readies =>
              readies = 0 /\ \A x \in DOMAIN mDcs' : mDcs'[x] >= AuthKeyCreated
<1> USE DCsAssumption DEF IInv, AuthKeyCreated, UserSignedIn, boundVars
<1>a. /\ ~fatal /\ configAsked /\ configAsked' = FALSE /\ readySlot' = FALSE
      /\ UNCHANGED <<working, api, errorSlot, fatal, authorized, boundVars>>
  BY DEF ConfigReceived
<1>b. ~errorSlot /\ api # "none" /\ ~configReceived /\ readies = 0
  BY <1>a DEF SlotInv
<1>c. /\ DOMAIN auths = {} /\ mDcs[working] >= AuthKeyCreated /\ working \in DCs
      /\ NoTransfer /\ ~needed /\ ~loggedIn
  BY <1>a, <1>b DEF PhaseInv, WaitingForConfig, TypeOK
<1>d. PICK moved \in SUBSET DCs :
        LET isNew(d) == d \notin DOMAIN mDcs \/ (d \in moved /\ mDcs[d] < AuthKeyCreated)
            dcs      == [d \in DCs \cup DOMAIN mDcs |->
                          IF d \in DCs /\ isNew(d) THEN InitState ELSE mDcs[d]]
            keyless  == {d \in DCs : dcs[d] < AuthKeyCreated}
            ready    == DCs \ (keyless \cup {working})
        IN /\ configReceived' = TRUE
           /\ mDcs' = dcs
           /\ auths' = [d \in DOMAIN auths \cup keyless |->
                          IF d \in keyless THEN "connecting" ELSE auths[d]]
           /\ pendingDcs' = StillPending(dcs)
           /\ IF ready # {} /\ pendingDcs' = 0 THEN ProviderReady(dcs) ELSE NotReady
  BY <1>b DEF ConfigReceived
<1> DEFINE keyless == {d \in DCs : mDcs'[d] < AuthKeyCreated}
           ready   == DCs \ (keyless \cup {working})
<1>e. /\ DOMAIN mDcs' = DCs
      /\ \A x \in DCs : mDcs'[x] = InitState \/ (x \in DOMAIN mDcs /\ mDcs'[x] = mDcs[x])
      /\ mDcs'[working] = mDcs[working]
  <2>1. working \in DOMAIN mDcs /\ DOMAIN mDcs \subseteq DCs /\ DCs \cup DOMAIN mDcs = DCs
    BY DEF TypeOK
  <2>2. DOMAIN mDcs' = DCs
    BY <1>d, <2>1
  <2>3. \A x \in DCs :
         mDcs'[x] = IF x \notin DOMAIN mDcs \/ (x \in moved /\ mDcs[x] < AuthKeyCreated)
                    THEN InitState ELSE mDcs[x]
    BY <1>d
  <2>4. ~(mDcs[working] < AuthKeyCreated)
    BY <1>c DEF TypeOK, DcStates
  <2>5. mDcs'[working] = mDcs[working]
    BY <1>c, <2>1, <2>3, <2>4
  <2>6. ASSUME NEW x \in DCs
        PROVE  mDcs'[x] = InitState \/ (x \in DOMAIN mDcs /\ mDcs'[x] = mDcs[x])
    <3>1. CASE x \notin DOMAIN mDcs \/ (x \in moved /\ mDcs[x] < AuthKeyCreated)
      <4>1. mDcs'[x] = IF x \notin DOMAIN mDcs \/ (x \in moved /\ mDcs[x] < AuthKeyCreated)
                       THEN InitState ELSE mDcs[x]
        BY <2>3
      <4>2. mDcs'[x] = InitState
        BY <3>1, <4>1, Zenon
      <4> QED
        BY <4>2
    <3>2. CASE ~(x \notin DOMAIN mDcs \/ (x \in moved /\ mDcs[x] < AuthKeyCreated))
      BY <2>3, <3>2
    <3> QED
      BY <3>1, <3>2
  <2> QED
    BY <2>2, <2>5, <2>6
<1>f. /\ configReceived' = TRUE /\ pendingDcs' = StillPending(mDcs')
      /\ DOMAIN auths' = keyless /\ \A x \in keyless : auths'[x] = "connecting"
      /\ auths' \in [DOMAIN auths' -> {"connecting", "connected", "closing"}]
      /\ IF ready # {} /\ pendingDcs' = 0 THEN ProviderReady(mDcs') ELSE NotReady
  BY <1>c, <1>d
<1>g. mDcs' \in [DOMAIN mDcs' -> DcStates] /\ DOMAIN mDcs' \subseteq DCs /\ working \in DOMAIN mDcs'
  <2>1. \A x \in DCs : mDcs'[x] \in DcStates
    BY <1>e DEF TypeOK, DcStates, InitState
  <2> QED
    BY <1>c, <1>d, <1>e, <2>1
<1>h. pendingDcs' = Cardinality(keyless) /\ pendingDcs' \in Nat /\ working \notin keyless
  <2>1. working \notin keyless
    BY <1>c, <1>e, <1>g DEF DcStates
  <2>2. {d \in DCs \ {working} : mDcs'[d] >= AuthKeyCreated} = (DCs \ {working}) \ keyless
    BY <1>e, <1>g DEF DcStates
  <2>3. (Cardinality(DCs) - 1) - Cardinality((DCs \ {working}) \ keyless) = Cardinality(keyless)
    BY <1>c, <2>1, Remaining
  <2>4. Cardinality(keyless) \in Nat
    BY DcSets
  <2> QED
    BY <1>f, <2>1, <2>2, <2>3, <2>4 DEF StillPending
<1> HIDE DEF keyless
<1>i. Configured'
  <2>1. \A x \in DCs \ keyless : mDcs'[x] >= AuthKeyCreated
    BY <1>e, <1>g DEF keyless, DcStates
  <2> QED
    BY <1>e, <1>f, <1>h, <2>1 DEF Configured
<1>j. HandshakeInv'
  BY <1>f DEF HandshakeInv, keyless
<1>k. SlotInv'
  BY <1>a, <1>b DEF SlotInv
<1>l. \A x \in DOMAIN mDcs' : mDcs'[x] = UserSignedIn => x \in authorized
  BY <1>e DEF SignedInIsTrue, InitState
<1>m. DcType' /\ ApiType' /\ ServerType'
  <2>1. DcType'
    <3>1. keyless \subseteq DOMAIN mDcs'
      BY <1>e DEF keyless
    <3>2. \A x \in DOMAIN mDcs' : mDcs'[x] \in DcStates
      BY <1>g
    <3>3. \A x \in DOMAIN auths' : auths'[x] \in {"connecting", "connected", "closing"}
      BY <1>f
    <3> QED
      BY <1>a, <1>c, <1>f, <1>g, <1>h, <3>1, <3>2, <3>3 DEF DcType
  <2>2. ApiType' /\ ServerType'
    BY <1>a, TypeParts DEF ApiType, ServerType
  <2> QED
    BY <2>1, <2>2
<1>1. CASE ready # {} /\ pendingDcs' = 0
  <2>1. ProviderReady(mDcs')
    BY <1>f, <1>1
  <2>2. keyless = {} /\ DOMAIN auths' = {}
    BY <1>f, <1>h, <1>1, DcSets DEF keyless
  <2>3. \A x \in DOMAIN mDcs' : mDcs'[x] >= AuthKeyCreated
    BY <1>i, <2>2 DEF Configured
  <2>4. /\ FileType' /\ TransferType' /\ SignalType' /\ FileInv' /\ TransferInv' /\ TargetInv'
        /\ SignedInIsTrue' /\ TransferIsRight' /\ readies' = 1
        /\ stored'.dcs \in [DOMAIN stored'.dcs -> DcStates]
    BY <1>a, <1>b, <1>g, <1>l, <2>1, <2>3, GetsReady
  <2>5. TypeOK'
    BY <1>m, <2>4 DEF TypeOK, FileType, DcType, ApiType, TransferType, SignalType, ServerType
  <2>6. Maps'
    BY <1>f, <1>g, <2>4 DEF Maps
  <2>7. PhaseInv'
    <3>1. IsReady'
      BY <1>g, <2>2, <2>3 DEF IsReady, DcStates
    <3> QED
      BY <1>a, <1>b, <2>4, <3>1 DEF PhaseInv
  <2> QED
    BY <1>b, <1>j, <1>k, <2>3, <2>4, <2>5, <2>6, <2>7
<1>2. CASE ~(ready # {} /\ pendingDcs' = 0)
  <2>1. UNCHANGED <<stored, readies, needed, transferVars, loggedIn, failed>>
    BY <1>f, <1>2 DEF NotReady
  <2>2. TypeOK'
    <3>1. FileType' /\ TransferType' /\ SignalType'
      BY <1>a, <2>1, TypeParts DEF FileType, TransferType, SignalType, transferVars
    <3> QED
      BY <1>m, <3>1 DEF TypeOK, FileType, DcType, ApiType, TransferType, SignalType, ServerType
  <2>3. Maps' /\ FileInv'
    BY <1>f, <1>g, <2>1 DEF Maps, FileInv, FileRestartable
  <2>4. NoTransfer' /\ ~needed' /\ ~loggedIn' /\ readies' = 0
    BY <1>b, <1>c, <2>1 DEF NoTransfer, transferVars
  <2>5. PhaseInv'
    BY <1>a, <1>b, <1>f, <1>i, <2>4 DEF PhaseInv
  <2>6. TransferInv'
    BY <2>1 DEF transferVars, TransferInv, Begun, Released
  <2>7. TargetInv' /\ TransferIsRight'
    BY <2>4 DEF TargetInv, TransferIsRight, NoTransfer, NoImport, Begun
  <2>8. SignedInIsTrue'
    BY <1>a, <1>l, <2>1 DEF SignedInIsTrue
  <2> QED
    BY <1>b, <1>j, <1>k, <2>2, <2>3, <2>4, <2>5, <2>6, <2>7, <2>8
<1> QED
  BY <1>1, <1>2

\* A start of the provider, in a new process or once more, keeps the
\* invariant: what the file held is what it starts from.
LEMMA Initializes ==
  ASSUME IInv, Initialize, UNCHANGED <<stored, authorized>>,
         drops' \in Nat, transferDrops' \in Nat, restarts' \in Nat, logOuts' \in Nat
  PROVE  IInv' /\ readies' = 0
<1> USE DCsAssumption DEF IInv
<1> DEFINE w == StartWorking(stored)
           dcs == StartDcs(stored)
<1>1. /\ w \in DOMAIN dcs /\ DOMAIN dcs \subseteq DCs /\ w \in DCs
      /\ dcs \in [DOMAIN dcs -> DcStates]
      /\ \A x \in DOMAIN dcs : dcs[x] \in {InitState, AuthKeyCreated, UserSignedIn}
      /\ \A x \in DOMAIN dcs : dcs[x] = UserSignedIn => x \in authorized
  <2>1. CASE stored.saved
    BY <2>1 DEF StartWorking, StartDcs, FileInv, FileRestartable, TypeOK, Maps, SignedInIsTrue
  <2>2. CASE ~stored.saved
    <3>1. w = DefaultDc /\ dcs = [x \in {DefaultDc} |-> InitState]
      BY <2>2 DEF StartWorking, StartDcs, FileInv, MapInsert
    <3> QED
      BY <3>1 DEF InitState, UserSignedIn, DcStates
  <2> QED
    BY <2>1, <2>2
<1>2. /\ working' = w /\ mDcs' = dcs /\ auths' = StartAuths(stored)
      /\ api' = IF StartHasKey(stored) THEN "connecting" ELSE "none"
      /\ errorSlot' = StartHasKey(stored) /\ readySlot' = StartHasKey(stored)
      /\ configAsked' = FALSE /\ pendingDcs' = 0 /\ configReceived' = FALSE
      /\ NoTransfer' /\ main' = NoDc /\ readies' = 0
      /\ needed' = FALSE /\ loggedIn' = FALSE /\ failed' = FALSE /\ fatal' = FALSE
  BY DEF Initialize, NoTransfer
<1>3. StartHasKey(stored) <=> dcs[w] >= AuthKeyCreated
  BY DEF StartHasKey
<1>4. /\ DOMAIN auths' = IF StartHasKey(stored) THEN {} ELSE {w}
      /\ \A x \in DOMAIN auths' : auths'[x] = "connecting"
      /\ auths' \in [DOMAIN auths' -> {"connecting", "connected", "closing"}]
  BY <1>2 DEF StartAuths, EmptyMap, MapInsert
<1>5. StartHasKey(stored) \in BOOLEAN
  BY DEF StartHasKey
<1> HIDE DEF w, dcs
<1>6. TypeOK'
  <2>1. FileType' /\ ServerType'
    BY TypeParts DEF FileType, ServerType
  <2>2. DcType'
    <3>1. \A x \in DOMAIN mDcs' : mDcs'[x] \in DcStates
      BY <1>1, <1>2
    <3>2. /\ DOMAIN auths' \subseteq DOMAIN mDcs'
          /\ \A x \in DOMAIN auths' : auths'[x] \in {"connecting", "connected", "closing"}
      BY <1>1, <1>2, <1>4
    <3>3. working' \in DCs /\ working' \in DOMAIN mDcs' /\ DOMAIN mDcs' \subseteq DCs
      BY <1>1, <1>2
    <3>4. pendingDcs' \in Int
      BY <1>2
    <3>5. configReceived' \in BOOLEAN
      BY <1>2
    <3> QED
      BY <3>1, <3>2, <3>3, <3>4, <3>5 DEF DcType
  <2>3. ApiType' /\ SignalType'
    BY <1>2, <1>5 DEF ApiType, SignalType
  <2>4. TransferType'
    BY <1>2 DEF TransferType, NoTransfer, NoImport, Sockets
  <2> QED
    BY <2>1, <2>2, <2>3, <2>4
       DEF TypeOK, FileType, DcType, ApiType, TransferType, SignalType, ServerType
<1>7. Maps' /\ FileInv'
  BY <1>1, <1>2, <1>4 DEF Maps, FileInv, FileRestartable
<1>8. HandshakeInv'
  BY <1>1, <1>2, <1>3, <1>4 DEF HandshakeInv, InitState, AuthKeyCreated, UserSignedIn
<1>9. SlotInv'
  BY <1>2 DEF SlotInv
<1>10. PhaseInv'
  BY <1>2, <1>3, <1>4 DEF PhaseInv, HandshakeOfWorking, WaitingForConfig
<1>11. TransferInv' /\ TargetInv' /\ TransferIsRight'
  <2>1. Begun' = {} /\ Released' = {}
    BY <1>2 DEF NoTransfer, Begun, Released
  <2> QED
    BY <1>2, <2>1, FS_EmptySet DEF NoTransfer, NoImport, TransferInv, TargetInv, TransferIsRight
<1>12. SignedInIsTrue'
  BY <1>1, <1>2 DEF SignedInIsTrue
<1> QED
  BY <1>2, <1>6, <1>7, <1>8, <1>9, <1>10, <1>11, <1>12

\* The initial states satisfy the invariant.
LEMMA Initial == Init => IInv
<1> SUFFICES ASSUME Init PROVE IInv
  OBVIOUS
<1> USE DCsAssumption DEF Init, InitState, EmptyMap, MapInsert
<1>1. /\ mDcs = [x \in {DefaultDc} |-> 0] /\ auths = [x \in {DefaultDc} |-> "connecting"]
      /\ DOMAIN stored.dcs = {} /\ NoTransfer
  BY DEF NoTransfer
<1>2. TypeOK
  <2>1. FileType /\ ServerType
    BY <1>1 DEF FileType, ServerType
  <2>2. DcType
    <3>1. DOMAIN mDcs = {DefaultDc} /\ mDcs[DefaultDc] = 0
      BY <1>1
    <3>2. DOMAIN auths = {DefaultDc} /\ auths[DefaultDc] = "connecting"
      BY <1>1
    <3> HIDE DEF Init
    <3>3. working = DefaultDc /\ pendingDcs = 0 /\ configReceived = FALSE
      BY DEF Init
    <3>4. pendingDcs \in Int /\ 0 \in DcStates
      BY <3>3 DEF DcStates
    <3>5. configReceived \in BOOLEAN
      BY <3>3
    <3> QED
      BY <3>1, <3>2, <3>3, <3>4, <3>5 DEF DcType
  <2>3. ApiType /\ SignalType
    BY DEF ApiType, SignalType
  <2>4. TransferType
    BY <1>1 DEF TransferType, Sockets, NoImport
  <2> QED
    BY <2>1, <2>2, <2>3, <2>4, TypeParts
<1>3. Maps
  BY <1>1 DEF Maps, DcStates
<1>4. FileInv /\ HandshakeInv /\ SlotInv
  BY <1>1 DEF FileInv, FileRestartable, HandshakeInv, SlotInv, AuthKeyCreated
<1>5. PhaseInv
  BY <1>1 DEF PhaseInv, HandshakeOfWorking
<1>6. TransferInv /\ TargetInv /\ TransferIsRight
  <2>1. Begun = {} /\ Released = {}
    BY <1>1 DEF Begun, Released
  <2> QED
    BY <1>1, <2>1, FS_EmptySet DEF TransferInv, TargetInv, TransferIsRight, NoImport
<1>7. SignedInIsTrue
  BY <1>1 DEF SignedInIsTrue, UserSignedIn
<1> QED
  BY <1>2, <1>3, <1>4, <1>5, <1>6, <1>7 DEF IInv

\* So does a step that changes nothing.
LEMMA Stuttering == IInv /\ UNCHANGED vars => IInv'
<1> SUFFICES ASSUME IInv, UNCHANGED vars PROVE IInv'
  OBVIOUS
<1> USE DEF IInv, vars
<1>1. TypeOK' /\ Maps' /\ FileInv' /\ HandshakeInv' /\ SlotInv'
  BY DEF TypeOK, Maps, FileInv, FileRestartable, HandshakeInv, SlotInv
<1>2. PhaseInv'
  BY DEF PhaseInv, NoTransfer, HandshakeOfWorking, WaitingForConfig, Configured, IsReady
<1>3. TransferInv' /\ TargetInv'
  BY DEF TransferInv, TargetInv, NoTransfer, Begun, Released
<1>4. SignedInIsTrue' /\ TransferIsRight'
  BY DEF SignedInIsTrue, TransferIsRight
<1> QED
  BY <1>1, <1>2, <1>3, <1>4

\* What a step does to the number of dcProviderReady.
GetsReadyOnce ==
  readies' > readies => readies = 0 /\ \A x \in DOMAIN mDcs' : mDcs'[x] >= AuthKeyCreated

\* Every step keeps the invariant, and reports readiness only for the first
\* time and with all keys.
LEMMA NextStep == IInv /\ Next => IInv' /\ GetsReadyOnce
<1> SUFFICES ASSUME IInv, Next PROVE IInv' /\ GetsReadyOnce
  OBVIOUS
<1>1. readies \in Nat /\ (UNCHANGED readies => GetsReadyOnce)
  BY DEF IInv, TypeOK, GetsReadyOnce
<1>2. CASE Restart
  <2>1. IInv' /\ readies' = 0
    BY <1>2, Initializes DEF Restart, IInv, TypeOK
  <2> QED
    BY <1>1, <2>1 DEF GetsReadyOnce
<1>3. CASE TryInit
  <2>1. IInv' /\ readies' = 0
    BY <1>3, Initializes DEF TryInit, IInv, TypeOK, boundVars
  <2> QED
    BY <1>1, <2>1 DEF GetsReadyOnce
<1>4. CASE \E d \in DOMAIN auths : DCAuth(d)
  <2>1. PICK d \in DOMAIN auths : DCAuth(d)
    BY <1>4
  <2>2. CASE AuthConnected(d)
    BY <1>1, <2>2, Connected DEF AuthConnected
  <2>3. CASE AuthAnswer(d)
    BY <1>1, <2>3, Answered DEF AuthAnswer
  <2>4. CASE AuthBadAnswer(d)
    BY <1>1, <2>4, AnsweredBadly DEF AuthBadAnswer
  <2>5. CASE AuthDisconnected(d)
    BY <2>5, Disconnected DEF GetsReadyOnce
  <2>6. CASE AuthError(d)
    BY <1>1, <2>6, Lost DEF AuthError, signalVars
  <2> QED
    BY <2>1, <2>2, <2>3, <2>4, <2>5, <2>6 DEF DCAuth
<1>5. CASE ApiConnected
  BY <1>1, <1>5, MainConnected DEF ApiConnected, signalVars
<1>6. CASE ApiError
  BY <1>6, MainLost, MainReady DEF GetsReadyOnce
<1>7. CASE ConfigReceived
  BY <1>7, Configures DEF GetsReadyOnce
<1>8. CASE Migrate
  BY <1>1, <1>8, Migrates DEF Migrate, signalVars
<1>9. CASE SignIn
  BY <1>1, <1>9, SignsIn DEF SignIn
<1>10. CASE UserLogOut
  BY <1>1, <1>10, LogsOut DEF UserLogOut
<1>11. CASE \E d \in DCs : TransferReady(d) \/ TransferError(d)
  <2>1. PICK d \in DCs : TransferReady(d) \/ TransferError(d)
    BY <1>11
  <2>2. CASE TransferReady(d)
    BY <1>1, <2>2, Ready DEF TransferReady, signalVars
  <2>3. CASE TransferError(d)
    BY <1>1, <2>3, TransferLost DEF TransferError, signalVars
  <2> QED
    BY <2>1, <2>2, <2>3
<1>12. CASE OnAuthExported
  BY <1>1, <1>12, ExportedStep DEF OnAuthExported, signalVars
<1>13. CASE OnAuthImported
  BY <1>1, <1>13, ImportedStep DEF OnAuthImported
<1> QED
  BY <1>2, <1>3, <1>4, <1>5, <1>6, <1>7, <1>8, <1>9, <1>10, <1>11, <1>12, <1>13 DEF Next

\* The invariant holds in every reachable state.
THEOREM Inductive == Spec => []IInv
<1>1. IInv /\ [Next]_vars => IInv'
  BY NextStep, Stuttering
<1> QED
  BY <1>1, Initial, PTL DEF Spec

\* Every variable of the provider, its handshakes, its transfer and its file
\* keeps its type, for any number of data centers.
THEOREM TypeCorrect == Spec => []TypeOK
<1>1. IInv => TypeOK
  BY DEF IInv
<1> QED
  BY <1>1, Inductive, PTL

\* The auth file never holds a DC in the middle of its handshake, which
\* processConnected would take for a fatal error after the next start.
THEOREM FileCorrect == Spec => []FileRestartable
<1>1. IInv => FileRestartable
  BY DEF IInv, FileInv
<1> QED
  BY <1>1, Inductive, PTL

\* A DC that counts as signed in, in memory or in the file, is one whose
\* server knows the user's authorization (onAuthImported, writeAuthFile).
THEOREM SignedInCorrect == Spec => []SignedInIsTrue
<1>1. IInv => SignedInIsTrue
  BY DEF IInv
<1> QED
  BY <1>1, Inductive, PTL

\* An authorization is imported by the DC it was exported for, and
\* authTransferCompleted is emitted only when the user is signed in at every
\* DC, unless the user logged out.
THEOREM TransferCorrect == Spec => []TransferIsRight
<1>1. IInv => TransferIsRight
  BY DEF IInv
<1> QED
  BY <1>1, Inductive, PTL

\* dcProviderReady is emitted at most once in a run of the process, and by
\* then every known DC has its key (DcProvider::processDcReady, onApiError).
THEOREM ReadyOnce == Spec => ReadyOnceWithKeys
<1>1. IInv /\ [Next]_vars =>
        [readies' > readies =>
           readies = 0 /\ \A d \in DOMAIN mDcs' : mDcs'[d] >= AuthKeyCreated]_vars
  BY NextStep DEF GetsReadyOnce
<1> QED
  BY <1>1, Inductive, PTL DEF Spec, ReadyOnceWithKeys

=============================================================================

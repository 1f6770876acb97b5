------------------------- MODULE NotificationsProofs -------------------------
(***************************************************************************)
(* Proofs about Notifications, for any number of dialogs and messages.     *)
(***************************************************************************)
EXTENDS Notifications, FiniteSetTheorems, TLAPS

-----------------------------------------------------------------------------
(* The inductive invariant.                                                *)

Types ==
  /\ dialogOf \in Seq(Dialogs)
  /\ timers \in Nat /\ sooner \in Nat
  /\ garbages \subseteq deleted /\ deleted \subseteq Arrived /\ freed \subseteq Arrived
  /\ notifications \subseteq Dialogs /\ topmessages \in [Dialogs -> Nat]

\* While garbage is the message of the entry, its timers come before the
\* garbage checker.
FreedAfterTimers ==
  /\ due \in garbages => timers <= sooner
  /\ due \in freed \ cleaned => timers = 0
  /\ FaultNeedsCleanUp

\* A message that left the cache was deleted or freed, so no answer brings the
\* object back; that of a notification is watched for as long as it is there.
ShownIsWatched ==
  /\ Arrived \subseteq messages \cup deleted \cup freed
  /\ \A d \in shown : topmessages[d] \in messages \ freed => topmessages[d] \in watched

\* A timer runs whose message is one of the dialog.
DueFor(d) == timers > 0 /\ due # NoMessage /\ dialogOf[due] = d

\* The notification of a message that was read is due to be closed, unless
\* another reading took the entry or the closing was given up.
ClosingIsDue ==
  \A d \in Dialogs : ReadUp(d) => DueFor(d) \/ d \in overlooked \/ fault

IInv == Types /\ TypeOK /\ FreedAfterTimers /\ ShownIsWatched /\ ClosingIsDue

-----------------------------------------------------------------------------
(* Messages that arrive and messages that are read.                        *)

\* A message that arrives is the next of the list.
LEMMA OneMore ==
  ASSUME NEW d \in Dialogs, dialogOf \in Seq(Dialogs), dialogOf' = Append(dialogOf, d)
  PROVE  /\ dialogOf' \in Seq(Dialogs)
         /\ Len(dialogOf) + 1 \in Nat \ {NoMessage}
         /\ Len(dialogOf) + 1 \notin Arrived
         /\ Arrived' = Arrived \cup {Len(dialogOf) + 1}
         /\ \A m \in Arrived : dialogOf'[m] = dialogOf[m]
         /\ dialogOf'[Len(dialogOf) + 1] = d
BY DEF Arrived, NoMessage

LEMMA ArrivedType ==
  ASSUME dialogOf \in Seq(Dialogs)
  PROVE  /\ Arrived \subseteq Nat \ {NoMessage}
         /\ \A m \in Arrived : dialogOf[m] \in Dialogs
         /\ \A S \in SUBSET Arrived : Cardinality(S) \in Nat /\ (S # {} => Cardinality(S) > 0)
<1>1. Arrived = 1..Len(dialogOf) /\ Len(dialogOf) \in Nat
  BY DEF Arrived
<1>2. IsFiniteSet(Arrived)
  BY <1>1, FS_Interval
<1>3. ASSUME NEW S \in SUBSET Arrived
      PROVE  Cardinality(S) \in Nat /\ (S # {} => Cardinality(S) > 0)
  <2>1. IsFiniteSet(S)
    BY <1>2, FS_Subset
  <2> QED
    BY <2>1, FS_CardinalityType, FS_EmptySet
<1> QED
  BY <1>1, <1>3 DEF NoMessage

\* Reading watched messages makes the oldest of them due; the dialogs of the
\* others, and of the entry that was there, are overlooked.
LEMMA ReadingIsDue ==
  ASSUME Types, TypeOK, NEW S \in SUBSET watched, MessagesRead(S), UNCHANGED dialogOf
  PROVE  /\ due' \in Arrived \cup {NoMessage} /\ overlooked' \subseteq Dialogs
         /\ timers' \in Nat /\ timers <= timers'
         /\ due' \in S \/ UNCHANGED <<due, timers>>
         /\ \A d \in Dialogs :
              \/ DueFor(d)' \/ d \in overlooked'
              \/ /\ d \notin overlooked /\ ~DueFor(d)
                 /\ \A m \in S : dialogOf[m] # d
<1>1. S \subseteq Arrived
  BY DEF TypeOK
<1>2. CASE S = {}
  BY <1>2 DEF MessagesRead, Types, TypeOK, DueFor
<1>3. CASE S # {}
  <2>1. Cardinality(S) \in Nat /\ Cardinality(S) > 0
    BY <1>1, <1>3, ArrivedType DEF Types
  <2>2. PICK oldest \in S :
          /\ due' = oldest /\ timers' = timers + Cardinality(S)
          /\ overlooked' = (overlooked \cup {dialogOf[m] : m \in (S \cup {due}) \ {NoMessage}})
                             \ {dialogOf[oldest]}
    BY <1>3 DEF MessagesRead
  <2>3. oldest # NoMessage /\ \A m \in (S \cup {due}) \ {NoMessage} : dialogOf[m] \in Dialogs
    BY <1>1, ArrivedType DEF Types, TypeOK
  <2>4. timers' \in Nat /\ timers' > 0 /\ timers <= timers'
    BY <2>1, <2>2 DEF Types
  <2>5. DueFor(dialogOf[oldest])'
    BY <2>2, <2>3, <2>4 DEF DueFor
  <2>6. \A m \in S : m # NoMessage
    BY <1>1, ArrivedType DEF Types
  <2>7. ASSUME NEW d \in Dialogs, d # dialogOf[oldest], d \notin overlooked'
        PROVE  d \notin overlooked /\ ~DueFor(d) /\ \A m \in S : dialogOf[m] # d
    BY <2>2, <2>6, <2>7 DEF DueFor
  <2> QED
    BY <1>1, <2>2, <2>3, <2>4, <2>5, <2>7 DEF TypeOK
<1> QED
  BY <1>2, <1>3

-----------------------------------------------------------------------------
(* Every action preserves the invariant.                                   *)

\* The closing takes the entry with the watched message, or the dialog is
\* overlooked.
LEMMA DelayedClose ==
  ASSUME IInv, ~fault, DelayedCloseNotification
  PROVE  IInv'
<1> USE DEF IInv, DelayedCloseNotification, CloseNotification,
        cacheVars, garbageVars, closeVars, phoneVars, uiVars, serverVars
<1>1. Types'
  BY DEF Types, Arrived
<1>2. TypeOK'
  BY DEF Types, TypeOK, Of, Arrived
<1>3. FreedAfterTimers'
  BY ArrivedType DEF Types, FreedAfterTimers, FaultNeedsCleanUp
<1>4. ShownIsWatched'
  BY DEF TypeOK, ShownIsWatched, Of, Arrived
<1>5. ClosingIsDue'
  BY DEF ClosingIsDue, DueFor, ReadUp
<1> QED
  BY <1>1, <1>2, <1>3, <1>4, <1>5

\* A message that arrives is new everywhere, unread, and watched when it is
\* notified.
LEMMA Incoming ==
  ASSUME IInv, ~fault, NEW d \in Dialogs, NEW quiet \in BOOLEAN, IncomingMessage(d, quiet)
  PROVE  IInv'
<1> USE DEF IInv, IncomingMessage, Notify, MayRead,
        cacheVars, garbageVars, closeVars, phoneVars, uiVars, serverVars
<1>1. Types'
  BY ArrivedType DEF Types, Arrived
<1>2. TypeOK'
  BY ArrivedType DEF Types, TypeOK, Of, Arrived
<1>3. FreedAfterTimers'
  BY DEF FreedAfterTimers, FaultNeedsCleanUp
<1>4. ShownIsWatched'
  BY DEF Types, TypeOK, ShownIsWatched, Of, Arrived
<1>5. ClosingIsDue'
  BY DEF Types, TypeOK, ClosingIsDue, DueFor, ReadUp, Of, Arrived
<1> QED
  BY <1>1, <1>2, <1>3, <1>4, <1>5

\* All timers that run come before the garbage checker that is started.
LEMMA DeleteStep ==
  ASSUME IInv, ~fault, NEW m \in messages, DeleteMessage(m)
  PROVE  IInv'
<1> USE DEF IInv, DeleteMessage, StartGarbageChecker,
        cacheVars, garbageVars, closeVars, phoneVars, uiVars, serverVars
<1>1. Types'
  BY DEF Types, TypeOK, Arrived
<1>2. TypeOK'
  BY DEF Types, TypeOK, Of, Arrived
<1>3. FreedAfterTimers'
  BY DEF Types, FreedAfterTimers, FaultNeedsCleanUp
<1>4. ShownIsWatched'
  BY DEF ShownIsWatched, Arrived
<1>5. ClosingIsDue'
  BY DEF ClosingIsDue, DueFor, ReadUp
<1> QED
  BY <1>1, <1>2, <1>3, <1>4, <1>5

\* No timer runs when the garbage that has the message of the entry is freed.
LEMMA FreeStep ==
  ASSUME IInv, ~fault, FreeGarbages
  PROVE  IInv'
<1> USE DEF IInv, FreeGarbages,
        cacheVars, garbageVars, closeVars, phoneVars, uiVars, serverVars
<1>1. Types'
  BY DEF Types, Arrived
<1>2. TypeOK'
  BY DEF TypeOK, Of, Arrived
<1>3. FreedAfterTimers'
  BY DEF Types, FreedAfterTimers, FaultNeedsCleanUp
<1>4. ShownIsWatched'
  BY DEF ShownIsWatched, Arrived
<1>5. ClosingIsDue'
  BY DEF ClosingIsDue, DueFor, ReadUp
<1> QED
  BY <1>1, <1>2, <1>3, <1>4, <1>5

\* What the clean-up frees is neither watched nor read up.
LEMMA CleanUpStep ==
  ASSUME IInv, ~fault, CleanUp
  PROVE  IInv'
<1> USE DEF IInv, CleanUp,
        cacheVars, garbageVars, closeVars, phoneVars, uiVars, serverVars
<1>1. Types'
  BY DEF Types, TypeOK, Arrived
<1>2. TypeOK'
  BY DEF TypeOK, Of, Arrived
<1>3. FreedAfterTimers'
  BY DEF FreedAfterTimers, FaultNeedsCleanUp
<1>4. ShownIsWatched'
  BY DEF ShownIsWatched, Arrived
<1>5. ClosingIsDue'
  BY DEF ClosingIsDue, DueFor, ReadUp
<1> QED
  BY <1>1, <1>2, <1>3, <1>4, <1>5

\* Opening a dialog closes its notification.
LEMMA OpenStep ==
  ASSUME IInv, ~fault, NEW d \in Dialogs, OpenDialog(d)
  PROVE  IInv'
<1> USE DEF IInv, OpenDialog, CloseNotification, MayRead,
        cacheVars, garbageVars, closeVars, phoneVars, uiVars, serverVars
<1>1. Types' /\ TypeOK'
  BY DEF Types, TypeOK, Of, Arrived
<1>2. FreedAfterTimers' /\ ShownIsWatched' /\ ClosingIsDue'
  BY DEF FreedAfterTimers, FaultNeedsCleanUp, ShownIsWatched, ClosingIsDue, DueFor, ReadUp,
     Arrived
<1> QED
  BY <1>1, <1>2

\* Leaving a dialog and switching the application change no notification.
LEMMA LeaveStep ==
  ASSUME IInv, ~fault, LeaveDialog
  PROVE  IInv'
<1> USE DEF IInv, LeaveDialog,
        cacheVars, garbageVars, closeVars, phoneVars, uiVars, serverVars
<1>1. Types' /\ TypeOK'
  BY DEF Types, TypeOK, Of, Arrived
<1>2. FreedAfterTimers' /\ ShownIsWatched' /\ ClosingIsDue'
  BY DEF FreedAfterTimers, FaultNeedsCleanUp, ShownIsWatched, ClosingIsDue, DueFor, ReadUp,
     Arrived
<1> QED
  BY <1>1, <1>2

LEMMA SwitchStep ==
  ASSUME IInv, ~fault, SwitchApplication
  PROVE  IInv'
<1> USE DEF IInv, SwitchApplication, MayRead,
        cacheVars, garbageVars, closeVars, phoneVars, uiVars, serverVars
<1>1. Types' /\ TypeOK'
  BY DEF Types, TypeOK, Of, Arrived
<1>2. FreedAfterTimers' /\ ShownIsWatched' /\ ClosingIsDue'
  BY DEF FreedAfterTimers, FaultNeedsCleanUp, ShownIsWatched, ClosingIsDue, DueFor, ReadUp,
     Arrived
<1> QED
  BY <1>1, <1>2

\* A notification that was closed on the phone is shown no more.
LEMMA DismissStep ==
  ASSUME IInv, ~fault, NEW d \in Dialogs, Dismiss(d)
  PROVE  IInv'
<1> USE DEF IInv, Dismiss,
        cacheVars, garbageVars, closeVars, phoneVars, uiVars, serverVars
<1>1. Types' /\ TypeOK'
  BY DEF Types, TypeOK, Of, Arrived
<1>2. FreedAfterTimers' /\ ShownIsWatched' /\ ClosingIsDue'
  BY DEF FreedAfterTimers, FaultNeedsCleanUp, ShownIsWatched, ClosingIsDue, DueFor, ReadUp,
     Arrived
<1> QED
  BY <1>1, <1>2

LEMMA ClosedStep ==
  ASSUME IInv, ~fault, NEW d \in Dialogs, OnNotificationClosed(d)
  PROVE  IInv'
<1> USE DEF IInv, OnNotificationClosed,
        cacheVars, garbageVars, closeVars, phoneVars, uiVars, serverVars
<1>1. Types' /\ TypeOK'
  BY DEF Types, TypeOK, Of, Arrived, NoMessage
<1>2. FreedAfterTimers' /\ ShownIsWatched' /\ ClosingIsDue'
  BY DEF FreedAfterTimers, FaultNeedsCleanUp, ShownIsWatched, ClosingIsDue, DueFor, ReadUp,
     Arrived
<1> QED
  BY <1>1, <1>2

\* Messages that become read were watched if a notification shows them.
LEMMA ReadElsewhereStep ==
  ASSUME IInv, ~fault, NEW d \in Dialogs, NEW n \in Of(d), ReadElsewhere(d, n)
  PROVE  IInv'
<1> DEFINE S == {m \in Of(d) : m <= n}
           F == (S \cap unread) \cap watched
<1>1. /\ readThere' = readThere \cup S /\ unread' = unread \ S
      /\ F \in SUBSET watched /\ MessagesRead(F)
      /\ UNCHANGED <<messages, topMessage, garbageVars, watched, phoneVars, uiVars, dialogOf, deleted, fault>>
  BY DEF ReadElsewhere
<1>2. Types /\ TypeOK /\ UNCHANGED dialogOf /\ S \subseteq Arrived
  BY <1>1 DEF IInv, Of
<1> HIDE DEF S, F
<1>3. /\ due' \in Arrived \cup {NoMessage} /\ overlooked' \subseteq Dialogs
      /\ timers' \in Nat /\ timers <= timers'
      /\ due' \in F \/ UNCHANGED <<due, timers>>
      /\ \A e \in Dialogs :
           \/ DueFor(e)' \/ e \in overlooked'
           \/ e \notin overlooked /\ ~DueFor(e) /\ \A m \in F : dialogOf[m] # e
  BY <1>1, <1>2, ReadingIsDue
<1>4. Types' /\ TypeOK'
  BY <1>1, <1>2, <1>3 DEF Types, TypeOK, Of, Arrived, garbageVars, phoneVars, uiVars
<1>5. FreedAfterTimers'
  BY <1>1, <1>2, <1>3 DEF IInv, FreedAfterTimers, FaultNeedsCleanUp, Types, TypeOK, garbageVars
<1>6. ShownIsWatched'
  BY <1>1 DEF IInv, ShownIsWatched, Arrived, garbageVars, phoneVars
<1>7. ASSUME NEW e \in Dialogs, ReadUp(e)', ~DueFor(e)', e \notin overlooked'
      PROVE  fault'
  <2>1. e \notin overlooked /\ ~DueFor(e) /\ \A m \in F : dialogOf[m] # e
    BY <1>3, <1>7
  <2>2. topmessages[e] \in watched /\ dialogOf[topmessages[e]] = e
    BY <1>1, <1>2, <1>7 DEF IInv, ShownIsWatched, TypeOK, ReadUp, Of, garbageVars, phoneVars
  <2>3. ReadUp(e)
    BY <1>1, <1>7, <2>1, <2>2 DEF ReadUp, garbageVars, phoneVars, F
  <2> QED
    BY <1>1, <2>1, <2>3 DEF IInv, ClosingIsDue
<1> QED
  BY <1>4, <1>5, <1>6, <1>7 DEF IInv, ClosingIsDue

\* The same for an answer with messages the server has: it brings no watched
\* message back, and one that it finds read is handled as one read elsewhere.
LEMMA Inserting ==
  ASSUME IInv, ~fault, NEW S \in SUBSET (Arrived \ deleted), InsertMessages(S),
         UNCHANGED <<garbageVars, watched, phoneVars, uiVars, serverVars, fault>>
  PROVE  IInv'
<1> DEFINE F == S \cap watched \cap readThere
<1>1. /\ messages' = messages \cup S /\ unread' = (unread \ S) \cup (S \ readThere)
      /\ F \in SUBSET watched /\ MessagesRead(F)
      /\ Types /\ TypeOK /\ UNCHANGED dialogOf
  BY DEF IInv, InsertMessages, serverVars
<1> HIDE DEF F
<1>2. /\ due' \in Arrived \cup {NoMessage} /\ overlooked' \subseteq Dialogs
      /\ timers' \in Nat /\ timers <= timers'
      /\ due' \in F \/ UNCHANGED <<due, timers>>
      /\ \A e \in Dialogs :
           \/ DueFor(e)' \/ e \in overlooked'
           \/ e \notin overlooked /\ ~DueFor(e) /\ \A m \in F : dialogOf[m] # e
  BY <1>1, ReadingIsDue
<1>3. Types' /\ TypeOK'
  BY <1>1, <1>2 DEF Types, TypeOK, Of, Arrived, garbageVars, phoneVars, uiVars, serverVars
<1>4. FreedAfterTimers'
  BY <1>1, <1>2 DEF IInv, FreedAfterTimers, FaultNeedsCleanUp, Types, TypeOK, garbageVars
<1>5. \A e \in shown : topmessages[e] \in messages' \ freed => topmessages[e] \in messages
  BY <1>1 DEF IInv, ShownIsWatched, TypeOK, Of
<1>6. ShownIsWatched'
  BY <1>1, <1>5 DEF IInv, ShownIsWatched, Arrived, garbageVars, phoneVars, serverVars
<1>7. ASSUME NEW e \in Dialogs, ReadUp(e)', ~DueFor(e)', e \notin overlooked'
      PROVE  fault'
  <2>1. e \notin overlooked /\ ~DueFor(e) /\ \A m \in F : dialogOf[m] # e
    BY <1>2, <1>7
  <2>2. e \in shown /\ topmessages[e] \in watched /\ dialogOf[topmessages[e]] = e
    BY <1>1, <1>5, <1>7 DEF IInv, ShownIsWatched, TypeOK, ReadUp, Of, garbageVars, phoneVars
  <2>3. ReadUp(e)
    BY <1>1, <1>5, <1>7, <2>1, <2>2 DEF ReadUp, garbageVars, phoneVars, F
  <2> QED
    BY <2>1, <2>3 DEF IInv, ClosingIsDue
<1> QED
  BY <1>3, <1>4, <1>6, <1>7 DEF IInv, ClosingIsDue

LEMMA Initially == Init => IInv
<1> SUFFICES ASSUME Init PROVE IInv
  OBVIOUS
<1>1. Arrived = {}
  BY DEF Init, Arrived
<1>2. Types /\ TypeOK
  BY <1>1 DEF Init, Types, TypeOK, NoMessage
<1>3. FreedAfterTimers /\ ShownIsWatched /\ ClosingIsDue
  BY <1>1 DEF Init, FreedAfterTimers, FaultNeedsCleanUp, ShownIsWatched, ClosingIsDue, ReadUp
<1> QED
  BY <1>2, <1>3 DEF IInv

\* One step for each action of Next.
LEMMA Inductive == IInv /\ [Next]_vars => IInv'
<1> SUFFICES ASSUME IInv, [Next]_vars PROVE IInv'
  OBVIOUS
<1>1. CASE UNCHANGED vars
  BY <1>1 DEF IInv, vars, Types, TypeOK, FreedAfterTimers, FaultNeedsCleanUp, ShownIsWatched,
     ClosingIsDue, DueFor, ReadUp, Arrived, Of,
     cacheVars, garbageVars, closeVars, phoneVars, uiVars, serverVars
<1>2. CASE Next
  <2>1. ~fault
    BY <1>2 DEF Next
  <2>2. CASE RefreshDialogs
    <3>1. {m \in Arrived : IsTopThere(m)} \in SUBSET (Arrived \ deleted)
      BY DEF IsTopThere
    <3> QED
      BY <2>1, <2>2, <3>1, Inserting DEF RefreshDialogs
  <2>3. CASE RefreshHistory
    BY <2>1, <2>3, Inserting DEF RefreshHistory, Of
  <2> QED
    BY <1>2, <2>1, <2>2, <2>3, DelayedClose, Incoming, ReadElsewhereStep, DeleteStep, FreeStep,
       CleanUpStep, OpenStep, LeaveStep, SwitchStep, DismissStep, ClosedStep DEF Next
<1> QED
  BY <1>1, <1>2

-----------------------------------------------------------------------------
(* The theorems.                                                           *)

\* The types, and that what is watched, shown and closing is there.
THEOREM TypeCorrect == Spec => []TypeOK
<1>1. IInv => TypeOK
  BY DEF IInv
<1> QED
  BY Initially, Inductive, <1>1, PTL DEF Spec

\* A closing uses a freed message only when the clean-up freed it: one that was
\* deleted is there as long as timers run, however many started before and
\* after.
THEOREM FreedByCleanUp == Spec => []FaultNeedsCleanUp
<1>1. IInv => FaultNeedsCleanUp
  BY DEF IInv, FreedAfterTimers
<1> QED
  BY Initially, Inductive, <1>1, PTL DEF Spec

\* The safety part of ReadIsClosed: whichever way a message was found to be
\* read, the closing of the notification that shows it is due.
THEOREM ReadIsDue == Spec => []ClosingIsDue
<1>1. IInv => ClosingIsDue
  BY DEF IInv
<1> QED
  BY Initially, Inductive, <1>1, PTL DEF Spec
=============================================================================

---------------------------- MODULE Notifications ----------------------------
(***************************************************************************)
(* SailorGram's notifications (harbour-sailorgram/src/sailorgram.cpp): one   *)
(* for each dialog with new messages, closed when its dialog is opened, when *)
(* the user dismisses it, or two seconds after a message was read on another *)
(* client.                                                                 *)
(*                                                                         *)
(* A message read elsewhere starts a timer and is kept in a map under the    *)
(* timer's identifier, which QTimer has only while it runs: it is asked for   *)
(* before the start and after the timeout, and is -1 both times.  So the map *)
(* has one entry, due, that every reading overwrites.                        *)
(* The message objects belong to TelegramQml, which frees deleted ones after *)
(* three seconds and those of dialogs that were left in a clean-up.          *)
(***************************************************************************)
EXTENDS Integers, Sequences, FiniteSets

CONSTANTS
  Dialogs,
  NoDialog,      \* no dialog is in the foreground
  MaxMessages,   \* bound: messages that arrive
  MaxEvents      \* bound: everything else that comes from outside

ASSUME NoDialogAssumption == NoDialog \notin Dialogs
ASSUME NotificationBounds == MaxMessages \in Nat /\ MaxEvents \in Nat

VARIABLES
  dialogOf,      \* the dialogs of the messages that arrived, in their order
  messages,      \* TelegramQml: messages that are cached,
  unread,        \* those that are unread,
  topMessage,    \* the last one of each dialog,
  garbages,      \* messages to be freed,
  sooner,        \* how many closes are due before that,
  freed,         \* messages that were freed; a new object under the same
                 \* identifier is not watched, so no entry leads to it
  cleaned,       \* by the clean-up,
  cleanUpTimer,  \* which is to come
  deleted, readThere, \* the server: messages deleted and read
  watched,       \* messages whose unreadChanged is connected
  due, timers,   \* _deletednotifications and the running timers
  notifications, \* dialogs in _notifications
  topmessages,   \* _topmessages
  shown,         \* their notifications on the phone
  orphans,       \* notifications on the phone that have no object any more
  closing,       \* NotificationClosed signals under way, for the object's identifier
  foreground, active, \* _foregrounddialog, the state of the application
  fault,         \* a freed message was used
  overlooked,    \* dialogs whose due closing was overwritten or given up
  events

cacheVars  == <<messages, unread, topMessage>>
garbageVars == <<garbages, sooner, freed, cleaned, cleanUpTimer>>
closeVars  == <<watched, due, timers, overlooked>>
phoneVars  == <<notifications, topmessages, shown, orphans, closing>>
uiVars     == <<foreground, active>>
serverVars == <<dialogOf, deleted, readThere>>
vars == <<cacheVars, garbageVars, closeVars, phoneVars, uiVars, serverVars, fault, events>>

NoMessage == 0
Arrived   == DOMAIN dialogOf
Of(d)     == {m \in Arrived : dialogOf[m] = d}

Event == events < MaxEvents /\ events' = events + 1

-----------------------------------------------------------------------------
(* Closing.                                                                *)

\* Mutant: the object goes, its notification stays on the phone.
CloseNotificationShown(d) ==
  /\ notifications' = notifications \ {d}
  /\ closing' = closing \ {d}
  /\ UNCHANGED <<shown, topmessages, orphans>>

\* closeNotification and Notification::close.
CloseNotification(d) ==
  /\ notifications' = notifications \ {d}
  /\ shown' = shown \ {d} /\ closing' = closing \ {d}
  /\ UNCHANGED <<topmessages, orphans>>

\* Mutant: no timer is started while another closing is due.
MessagesReadOnce(S) ==
  /\ UNCHANGED overlooked
  /\ IF S = {} \/ due # NoMessage THEN UNCHANGED <<due, timers>>
     ELSE due' \in S /\ timers' = timers + 1

\* onMessageUnreadedChanged for each of S, from the newest to the oldest: the
\* list of a dialog and the answers of the server are in that order.
MessagesRead(S) ==
  IF S = {} THEN UNCHANGED <<due, timers, overlooked>>
  ELSE \E oldest \in S :
         /\ \A m \in S : oldest <= m
         /\ due' = oldest /\ timers' = timers + Cardinality(S)
         /\ overlooked' = (overlooked \cup {dialogOf[m] : m \in (S \cup {due}) \ {NoMessage}})
                            \ {dialogOf[oldest]}

\* The timer, delayedCloseNotification.
DelayedCloseNotification ==
  /\ timers > 0 /\ timers' = timers - 1
  /\ sooner' = IF sooner = 0 THEN 0 ELSE sooner - 1
  /\ UNCHANGED <<cacheVars, garbages, freed, cleaned, cleanUpTimer, uiVars, serverVars, events>>
  /\ \/ /\ due = NoMessage
        /\ UNCHANGED <<watched, due, overlooked, phoneVars, fault>>
     \/ /\ due \in freed /\ fault' = TRUE
        /\ UNCHANGED <<watched, due, overlooked, phoneVars>>
     \/ /\ due \in Arrived \ (freed \cup messages)    \* its dialog is nullDialog
        /\ overlooked' = overlooked \cup {dialogOf[due]}
        /\ UNCHANGED <<watched, due, phoneVars, fault>>
     \/ /\ due \in messages \ freed
        /\ CloseNotification(dialogOf[due])
        /\ watched' = watched \ {due} /\ due' = NoMessage
        /\ overlooked' = overlooked \ {dialogOf[due]}
        /\ UNCHANGED fault

-----------------------------------------------------------------------------
(* Messages.                                                               *)

\* notify: publish replaces the notification that is there.  When the phone
\* has closed that one already, it may show it again or not.
Notify(d, m) ==
  /\ watched' = watched \cup {m}
  /\ topmessages' = [topmessages EXCEPT ![d] = m]
  /\ notifications' = notifications \cup {d}
  /\ shown' \in {shown \cup {d}} \cup (IF d \in closing THEN {shown} ELSE {})
  /\ overlooked' = overlooked \ {d}
  /\ UNCHANGED <<due, timers, orphans, closing>>

\* MessageView.qml marks messages of the dialog in the foreground as read,
\* unless there is no connection.
MayRead(S) == readThere' \in {readThere, readThere \cup S}

\* A message comes; quiet ones are muted, own or service messages.
IncomingMessage(d, quiet) ==
  LET m == Len(dialogOf) + 1
      seen == foreground = d /\ active
  IN
  /\ m <= MaxMessages
  /\ dialogOf' = Append(dialogOf, d)
  /\ messages' = messages \cup {m} /\ unread' = unread \cup {m}
  /\ topMessage' = [topMessage EXCEPT ![d] = m]
  /\ IF seen THEN MayRead(Of(d) \cup {m}) ELSE UNCHANGED readThere
  /\ IF quiet \/ seen THEN UNCHANGED <<closeVars, phoneVars>> ELSE Notify(d, m)
  /\ UNCHANGED <<garbageVars, uiVars, deleted, fault, events>>

\* updateReadHistoryInbox up to the message n.
ReadElsewhere(d, n) ==
  LET S == {m \in Of(d) : m <= n}
      changed == S \cap unread
  IN
  /\ Event
  /\ n \in Of(d) /\ readThere' = readThere \cup S
  /\ unread' = unread \ S
  /\ MessagesRead(changed \cap watched)
  /\ UNCHANGED <<messages, topMessage, garbageVars, watched, phoneVars, uiVars, dialogOf, deleted, fault>>

\* insertMessage for each message of an answer: the assignment emits
\* unreadChanged whether or not it changes.
InsertMessages(S) ==
  /\ messages' = messages \cup S
  /\ unread' = (unread \ S) \cup (S \ readThere)
  /\ MessagesRead(S \cap watched \cap readThere)

\* The last message of a dialog at the server, if it has one.
IsTopThere(m) ==
  m \in Arrived \ deleted /\ \A n \in Of(dialogOf[m]) \ deleted : n <= m

\* messagesGetDialogs_slt.
RefreshDialogs ==
  /\ Event
  /\ InsertMessages({m \in Arrived : IsTopThere(m)})
  /\ topMessage' \in [Dialogs -> Arrived \cup {NoMessage}]
  /\ \A d \in Dialogs :
       IF Of(d) \subseteq deleted THEN topMessage'[d] = NoMessage
       ELSE topMessage'[d] \in Of(d) /\ IsTopThere(topMessage'[d])
  /\ UNCHANGED <<garbageVars, watched, phoneVars, uiVars, serverVars, fault>>

\* messagesGetHistory_slt, for the page of the dialog.
RefreshHistory ==
  /\ Event
  /\ foreground # NoDialog /\ InsertMessages(Of(foreground) \ deleted)
  /\ UNCHANGED <<topMessage, garbageVars, watched, phoneVars, uiVars, serverVars, fault>>

\* Mutant: the timer is not started again while it runs.
GarbageCheckerOnce == IF garbages = {} THEN timers ELSE sooner

\* startGarbageChecker: three seconds from now, after the closes that are due
\* in two.
StartGarbageChecker == timers

\* A message is deleted, here (deleteMessages) or there (updateDeleteMessages).
DeleteMessage(m) ==
  /\ Event
  /\ m \in messages /\ messages' = messages \ {m}
  /\ unread' = unread \ {m} /\ watched' = watched \ {m}
  /\ garbages' = garbages \cup {m} /\ sooner' = StartGarbageChecker
  /\ deleted' = deleted \cup {m}
  /\ UNCHANGED <<topMessage, freed, cleaned, cleanUpTimer, due, timers, overlooked, phoneVars,
                 uiVars, dialogOf, readThere, fault>>

\* timerEvent, garbage_checker_timer.
FreeGarbages ==
  /\ garbages # {} /\ sooner = 0
  /\ freed' = freed \cup garbages /\ garbages' = {}
  /\ UNCHANGED <<cacheVars, sooner, cleaned, cleanUpTimer, closeVars, phoneVars, uiVars,
                 serverVars, fault, events>>

\* cleanUpMessages_prv; downloads and searches would lock some more.
CleanUp ==
  LET locked == {topMessage[d] : d \in Dialogs}
                  \cup (IF foreground = NoDialog THEN {} ELSE Of(foreground))
      gone == messages \ locked
  IN
  /\ cleanUpTimer /\ cleanUpTimer' = FALSE
  /\ messages' = messages \ gone /\ unread' = unread \ gone /\ watched' = watched \ gone
  /\ freed' = freed \cup gone /\ cleaned' = cleaned \cup gone
  /\ UNCHANGED <<topMessage, garbages, sooner, due, timers, overlooked, phoneVars, uiVars,
                 serverVars, fault, events>>

-----------------------------------------------------------------------------
(* The user and the phone.                                                 *)

\* DialogPage.qml becomes active, also when the notification was tapped while
\* the application was in the background.
OpenDialog(d) ==
  /\ Event
  /\ foreground' = d
  /\ MayRead(Of(d)) /\ cleanUpTimer' = TRUE
  /\ CloseNotification(d) /\ overlooked' = overlooked \ {d}
  /\ UNCHANGED <<cacheVars, garbages, sooner, freed, cleaned, watched, due, timers, active,
                 dialogOf, deleted, fault>>

\* DialogsPage.qml becomes active.
LeaveDialog ==
  /\ foreground # NoDialog /\ foreground' = NoDialog
  /\ UNCHANGED <<cacheVars, garbageVars, closeVars, phoneVars, active, serverVars, fault, events>>

\* The application goes to the background, or comes back: MessageView.qml marks
\* the messages as read, their notification stays.
SwitchApplication ==
  /\ Event
  /\ active' = ~active
  /\ IF ~active /\ foreground # NoDialog THEN MayRead(Of(foreground)) ELSE UNCHANGED readThere
  /\ UNCHANGED <<cacheVars, garbageVars, closeVars, phoneVars, foreground, dialogOf, deleted, fault>>

\* The user dismisses a notification, or it expires.
Dismiss(d) ==
  /\ Event
  /\ \/ d \in shown /\ shown' = shown \ {d} /\ closing' = closing \cup {d} /\ UNCHANGED orphans
     \/ d \in orphans /\ orphans' = orphans \ {d} /\ UNCHANGED <<shown, closing>>
  /\ UNCHANGED <<cacheVars, garbageVars, closeVars, notifications, topmessages, uiVars,
                 serverVars, fault>>

\* checkNotificationClosed and onNotificationClosed.  One that was shown again
\* loses its object.
OnNotificationClosed(d) ==
  /\ d \in closing /\ closing' = closing \ {d}
  /\ notifications' = notifications \ {d}
  /\ topmessages' = [topmessages EXCEPT ![d] = NoMessage]
  /\ shown' = shown \ {d} /\ orphans' = orphans \cup ({d} \cap shown)
  /\ UNCHANGED <<cacheVars, garbageVars, closeVars, uiVars, serverVars, fault, events>>

-----------------------------------------------------------------------------
Init ==
  /\ dialogOf = <<>> /\ deleted = {} /\ readThere = {}
  /\ messages = {} /\ unread = {} /\ topMessage = [d \in Dialogs |-> NoMessage]
  /\ garbages = {} /\ sooner = 0 /\ freed = {} /\ cleaned = {} /\ cleanUpTimer = TRUE
  /\ watched = {} /\ due = NoMessage /\ timers = 0 /\ overlooked = {}
  /\ notifications = {} /\ topmessages = [d \in Dialogs |-> NoMessage]
  /\ shown = {} /\ orphans = {} /\ closing = {}
  /\ foreground = NoDialog /\ active = TRUE
  /\ fault = FALSE /\ events = 0

Next ==
  /\ ~fault
  /\ \/ DelayedCloseNotification
     \/ \E d \in Dialogs : \E quiet \in BOOLEAN : IncomingMessage(d, quiet)
     \/ \E d \in Dialogs : \E n \in Of(d) : ReadElsewhere(d, n)
     \/ RefreshDialogs
     \/ RefreshHistory
     \/ \E m \in messages : DeleteMessage(m)
     \/ FreeGarbages
     \/ CleanUp
     \/ \E d \in Dialogs : OpenDialog(d)
     \/ LeaveDialog
     \/ SwitchApplication
     \/ \E d \in Dialogs : Dismiss(d)
     \/ \E d \in Dialogs : OnNotificationClosed(d)

Spec == Init /\ [][Next]_vars

\* The event loop delivers its timers.
FairSpec == Spec /\ WF_vars(~fault /\ DelayedCloseNotification)

-----------------------------------------------------------------------------
(* Properties.                                                             *)

TypeOK ==
  /\ messages \subseteq Arrived \ garbages /\ unread \subseteq messages
  /\ watched \subseteq messages \ freed
  /\ sooner \in 0..timers
  /\ due \in Arrived \cup {NoMessage} /\ readThere \subseteq Arrived
  /\ shown \subseteq notifications /\ closing \subseteq notifications
  /\ \A d \in notifications : topmessages[d] \in Of(d)
  /\ orphans \subseteq Dialogs /\ overlooked \subseteq Dialogs
  /\ foreground \in Dialogs \cup {NoDialog} /\ active \in BOOLEAN

\* The handler of the timer uses a message two seconds after it was read.  A
\* message that was deleted meanwhile is there still, as three seconds pass
\* before it is freed, also when the map still has an entry an earlier timer
\* gave up; only the clean-up, which frees at once, may have freed it.
FaultNeedsCleanUp == fault => due \in cleaned

\* The notification of d is on the phone and the message it shows was read.
ReadUp(d) ==
  /\ d \in shown
  /\ topmessages[d] \in messages \ (unread \cup freed)

\* harbour-sailorgram.changes:14, "Notifications will be deleted if a message is
\* readed from another client": the notification of a message that was read
\* goes, unless the reading of another dialog overwrote the entry before the
\* timer came, or the message of the entry was deleted.
ReadIsClosed ==
  \A d \in Dialogs : ReadUp(d) ~> ~ReadUp(d) \/ d \in overlooked \/ fault
=============================================================================

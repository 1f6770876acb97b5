--------------------------- MODULE SecretChannel ---------------------------
(***************************************************************************)
(* An accepted secret chat between two clients that both run this code:    *)
(* sending (libqtelegram-aseman-edition/telegram.cpp), the numbers of the   *)
(* messages (secret/secretchat.cpp) and what the receiver does with a       *)
(* message whose number is not the expected one (secret/decrypter.cpp).     *)
(*                                                                         *)
(* A message carries the sender's count of messages received and sent, as  *)
(* parameters whose last bit tells the side.  The counts are saved in the   *)
(* handler that changes them; what it wrote to the socket leaves later, so  *)
(* a kill loses messages whose numbers are used.  Between the clients a     *)
(* message may be lost (a query the server rejects, a query that was still  *)
(* pending, an update to a client that does not run), overtaken or brought  *)
(* twice.  Encryption is taken as right: the key is that of SecretChats.    *)
(***************************************************************************)
EXTENDS Integers, Sequences

CONSTANTS
  Clients,          \* the two sides
  Creator,          \* the one that created the chat: mAdminId
  MaxTexts,         \* bound: texts each user sends
  MaxMessages,      \* bound: messages of a client; it ends a storm of requests
  MaxDisturbances   \* bound: messages lost, overtaken or repeated, and kills

ASSUME ClientsAssumption ==
  /\ Creator \in Clients
  /\ \E c \in Clients : c # Creator /\ Clients = {c, Creator}
ASSUME BoundsAssumption ==
  MaxTexts \in Nat /\ MaxMessages \in Nat /\ MaxDisturbances \in Nat

VARIABLES
  inSeqNo, outSeqNo,  \* the counts in memory
  saved,              \* client -> the counts in its file
  wire,               \* client -> messages it sent that are under way
  texts,              \* client -> texts its user sent
  shown,              \* client -> texts handed to TelegramQml to be shown
  resends,            \* client -> requests to send again that it made
  lost,               \* client -> a message of it was lost or overtaken
  disturbances

vars == <<inSeqNo, outSeqNo, saved, wire, texts, shown, resends, lost, disturbances>>

Peer(c) == CHOOSE d \in Clients : d # c

-----------------------------------------------------------------------------
(* Numbers.                                                                *)

SideBit(isAdmin) == IF isAdmin THEN 1 ELSE 0

\* getInSeqNoParam and getOutSeqNoParam.
InSeqNoParam(c)  == 2 * inSeqNo[c] + SideBit(c # Creator)
OutSeqNoParam(c) == 2 * outSeqNo[c] + SideBit(c = Creator)

NoRange == [start |-> -1, end |-> -1]

\* What Encrypter writes; a text by its number among the texts, other
\* messages have 0; a request has the range it asks for.
Message(c, text, range) ==
  [in |-> InSeqNoParam(c), out |-> OutSeqNoParam(c), text |-> text, range |-> range]

-----------------------------------------------------------------------------
(* Sending.                                                                *)

\* Mutant: the file is written before the number is increased.
SavedAfterSendingEarly(c) == [in |-> inSeqNo[c], out |-> outSeqNo[c]]

\* What the file has after a message was sent.
SavedAfterSending(c) == [in |-> inSeqNo[c], out |-> outSeqNo[c] + 1]

\* Encrypt with the present numbers, query, increase, save.
EncryptAndSend(c, w, text, range) ==
  /\ wire' = [w EXCEPT ![c] = Append(@, Message(c, text, range))]
  /\ outSeqNo' = [outSeqNo EXCEPT ![c] = @ + 1]
  /\ saved' = [saved EXCEPT ![c] = SavedAfterSending(c)]

\* messagesSendEncrypted, messagesSetEncryptedTTL and the end of the upload of
\* an encrypted file.
Send(c) ==
  /\ texts[c] < MaxTexts
  /\ texts' = [texts EXCEPT ![c] = @ + 1]
  /\ EncryptAndSend(c, wire, texts[c] + 1, NoRange)
  /\ UNCHANGED <<inSeqNo, shown, resends, lost, disturbances>>

\* onSequenceNumberGap: the request is a message of the chat itself, and
\* starts at the own number of messages sent.
OnSequenceNumberGap(c, w, m) ==
  /\ IF outSeqNo[c] < MaxMessages
     THEN /\ EncryptAndSend(c, w, 0, [start |-> OutSeqNoParam(c), end |-> m.out])
          /\ resends' = [resends EXCEPT ![c] = @ + 1]
     ELSE wire' = w /\ UNCHANGED <<outSeqNo, saved, resends>>
  /\ UNCHANGED <<inSeqNo, shown>>

-----------------------------------------------------------------------------
(* Receiving: decryptEncryptedData, toSecretChatMessage and the update.     *)

\* The last bits show the other side's role.
FromPeer(c, m) ==
  m.out % 2 = 1 - SideBit(c = Creator) /\ m.in % 2 = SideBit(c = Creator)

\* Mutants: any later number is taken; a repeated one is a gap; the bound
\* of the other direction is off by one.
IsExpectedOrLower(c, m) == m.out \div 2 <= inSeqNo[c]
IsGapOrLower(c, m) == m.out \div 2 # inSeqNo[c]
IsPossibleStrict(c, m) == m.in \div 2 < outSeqNo[c]

IsExpected(c, m) == m.out \div 2 = inSeqNo[c]
IsGap(c, m) == m.out \div 2 > inSeqNo[c]
IsPossible(c, m) == m.in \div 2 <= outSeqNo[c]

\* Mutant: messages without a text are shown too.
ShownWithAll(c, m) == [shown EXCEPT ![c] = Append(@, m.text)]

ShownWith(c, m) == IF m.text > 0 THEN [shown EXCEPT ![c] = Append(@, m.text)] ELSE shown

\* The message is processed: the requests of the peer are not acted upon.
Process(c, w, m) ==
  LET n == m.out \div 2 + 1
  IN  /\ inSeqNo' = [inSeqNo EXCEPT ![c] = n]
      /\ saved' = [saved EXCEPT ![c] = [in |-> n, out |-> outSeqNo[c]]]
      /\ shown' = ShownWith(c, m)
      /\ wire' = w
      /\ UNCHANGED <<outSeqNo, resends>>

\* With w left under way.  A message that is not processed is not kept.
Decrypt(c, w, m) ==
  \/ /\ FromPeer(c, m) /\ IsExpected(c, m) /\ IsPossible(c, m)
     /\ Process(c, w, m)
  \/ /\ IsGap(c, m)
     /\ OnSequenceNumberGap(c, w, m)
  \/ /\ ~IsGap(c, m)
     /\ ~(FromPeer(c, m) /\ IsExpected(c, m) /\ IsPossible(c, m))
     /\ wire' = w
     /\ UNCHANGED <<inSeqNo, outSeqNo, saved, shown, resends>>

Receive(c) ==
  LET q == wire[Peer(c)]
  IN
  /\ q # <<>>
  /\ \/ /\ Decrypt(c, [wire EXCEPT ![Peer(c)] = Tail(q)], Head(q))
        /\ UNCHANGED disturbances
     \/ /\ disturbances < MaxDisturbances
        /\ Decrypt(c, wire, Head(q))
        /\ disturbances' = disturbances + 1
  /\ UNCHANGED <<texts, lost>>

-----------------------------------------------------------------------------
(* The way between the clients, and kills.                                 *)

Disturb ==
  /\ disturbances < MaxDisturbances
  /\ disturbances' = disturbances + 1
  /\ UNCHANGED <<texts, shown, resends>>

Lose(c) ==
  /\ Disturb
  /\ wire[c] # <<>>
  /\ wire' = [wire EXCEPT ![c] = Tail(@)]
  /\ lost' = [lost EXCEPT ![c] = TRUE]
  /\ UNCHANGED <<inSeqNo, outSeqNo, saved>>

Overtake(c) ==
  /\ Disturb
  /\ Len(wire[c]) > 1
  /\ wire' = [wire EXCEPT ![c] = <<@[2], @[1]>> \o SubSeq(@, 3, Len(@))]
  /\ lost' = [lost EXCEPT ![c] = TRUE]
  /\ UNCHANGED <<inSeqNo, outSeqNo, saved>>

\* Killed and started again: the last messages sent were not written, and the
\* first ones that came meanwhile are before the state the client asks for.
Kill(c) ==
  LET d == Peer(c)
  IN
  /\ Disturb
  /\ inSeqNo' = [inSeqNo EXCEPT ![c] = saved[c].in]
  /\ outSeqNo' = [outSeqNo EXCEPT ![c] = saved[c].out]
  /\ \E written \in 0..Len(wire[c]), missed \in 0..Len(wire[d]) :
       /\ wire' = [wire EXCEPT ![c] = SubSeq(@, 1, written),
                               ![d] = SubSeq(@, missed + 1, Len(@))]
       /\ lost' = [lost EXCEPT ![c] = @ \/ written < Len(wire[c]),
                               ![d] = @ \/ missed > 0]
  /\ UNCHANGED saved

-----------------------------------------------------------------------------
\* Each side tells its layer in the handler that accepted the chat.
NotifyLayer(c) ==
  [in |-> SideBit(c # Creator), out |-> SideBit(c = Creator), text |-> 0, range |-> NoRange]

Init ==
  /\ inSeqNo = [c \in Clients |-> 0]
  /\ outSeqNo = [c \in Clients |-> 1]
  /\ saved = [c \in Clients |-> [in |-> 0, out |-> 1]]
  /\ wire = [c \in Clients |-> <<NotifyLayer(c)>>]
  /\ texts = [c \in Clients |-> 0] /\ shown = [c \in Clients |-> <<>>]
  /\ resends = [c \in Clients |-> 0] /\ lost = [c \in Clients |-> FALSE]
  /\ disturbances = 0

Next ==
  \E c \in Clients : Send(c) \/ Receive(c) \/ Lose(c) \/ Overtake(c) \/ Kill(c)

Spec == Init /\ [][Next]_vars

\* The event loop delivers the updates that come; users need not send.
FairSpec == Spec /\ \A c \in Clients : WF_vars(Receive(c))

-----------------------------------------------------------------------------
(* Properties.                                                             *)

Messages ==
  [in : Nat, out : Nat, text : 0..MaxTexts, range : [start : Nat \cup {-1}, end : Nat \cup {-1}]]

TypeOK ==
  /\ inSeqNo \in [Clients -> Nat] /\ outSeqNo \in [Clients -> Nat]
  /\ saved \in [Clients -> [in : Nat, out : Nat]]
  /\ wire \in [Clients -> Seq(Messages)]
  /\ texts \in [Clients -> 0..MaxTexts] /\ shown \in [Clients -> Seq(1..MaxTexts)]
  /\ resends \in [Clients -> Nat] /\ lost \in [Clients -> BOOLEAN]
  /\ disturbances \in 0..MaxDisturbances

\* The chat implements the abstract channel over kills, losses, overtaking and
\* repeats: no text is shown twice, out of order or before it was sent.
Channel == INSTANCE OnceChannel WITH sent <- texts

ChannelSpec == Channel!Spec

\* The check of decrypter.cpp:132 never refuses a message of an honest peer: the
\* count of received messages it carries is not above what was sent, whatever
\* was lost and whichever side was killed in between.
NoneRefused ==
  \A c \in Clients : \A i \in DOMAIN wire[c] :
    FromPeer(Peer(c), wire[c][i]) /\ wire[c][i].in \div 2 <= outSeqNo[Peer(c)]

\* Only a message that was lost or overtaken is ever asked for again, not one
\* that is repeated or is sent after a restart; so a chat with losses in one
\* direction has as many requests as messages, and no storm of them.
ResendsNeedLoss == \A c \in Clients : resends[c] > 0 => lost[Peer(c)]

\* Every text of a client is shown to the other user unless a message of this
\* client was lost or overtaken: requests, losses and restarts in the other
\* direction do not keep it back.
TextsAreShown ==
  \A c \in Clients : \A n \in 1..MaxTexts :
    texts[c] >= n ~> lost[c] \/ \E i \in DOMAIN shown[Peer(c)] : shown[Peer(c)][i] = n
=============================================================================

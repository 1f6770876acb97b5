---------------------------- MODULE OnceChannel ----------------------------
(***************************************************************************)
(* What the two users of a secret chat may rely on, in each direction: a   *)
(* text is shown to the other at most once, only after it was sent, and in *)
(* the order of sending.  Texts may be lost.                               *)
(***************************************************************************)
EXTENDS Naturals, Sequences

CONSTANT Clients

VARIABLES
  sent,     \* client -> number of texts it sent
  shown     \* client -> the texts of the other side it was shown, by number

vars == <<sent, shown>>

Init == sent = [c \in Clients |-> 0] /\ shown = [c \in Clients |-> <<>>]

Send(c) == sent' = [sent EXCEPT ![c] = @ + 1] /\ UNCHANGED shown

\* The other side d of c sees a text that is later than all it saw.
Show(c, d) ==
  /\ \E n \in 1..sent[c] :
       /\ \A i \in 1..Len(shown[d]) : shown[d][i] < n
       /\ shown' = [shown EXCEPT ![d] = Append(@, n)]
  /\ UNCHANGED sent

Next ==
  \/ \E c \in Clients : Send(c)
  \/ \E c \in Clients : \E d \in Clients \ {c} : Show(c, d)

Spec == Init /\ [][Next]_vars
=============================================================================

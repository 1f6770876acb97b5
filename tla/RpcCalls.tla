------------------------------ MODULE RpcCalls ------------------------------
(***************************************************************************)
(* What a Session promises the callers of sendQuery, with identifiers,     *)
(* sequence numbers, packets, timers and connections left out: each call   *)
(* has at most one outcome; it is answered, with a result or an error,     *)
(* only after the server executed that very call; and a call that got no   *)
(* answer may be discarded, whether or not the server executed it.         *)
(***************************************************************************)
CONSTANT Calls

VARIABLES
  outcome,    \* of each call
  executed    \* the calls the server executed

vars == <<outcome, executed>>

Outcomes == {"none", "live", "answered", "failed", "discarded"}

TypeOK ==
  /\ outcome \in [Calls -> Outcomes]
  /\ executed \subseteq Calls

Init ==
  /\ outcome = [c \in Calls |-> "none"]
  /\ executed = {}

Issue(c) ==
  /\ outcome[c] = "none"
  /\ outcome' = [outcome EXCEPT ![c] = "live"]
  /\ UNCHANGED executed

Execute(c) ==
  /\ outcome[c] # "none"
  /\ executed' = executed \cup {c}
  /\ UNCHANGED outcome

Settle(c) ==
  /\ outcome[c] = "live" /\ c \in executed
  /\ \E o \in {"answered", "failed"} : outcome' = [outcome EXCEPT ![c] = o]
  /\ UNCHANGED executed

Discard(c) ==
  /\ outcome[c] = "live"
  /\ outcome' = [outcome EXCEPT ![c] = "discarded"]
  /\ UNCHANGED executed

Next == \E c \in Calls : Issue(c) \/ Execute(c) \/ Settle(c) \/ Discard(c)

Spec == Init /\ [][Next]_vars
=============================================================================

---------------------------- MODULE CustomerReply ----------------------------
(***************************************************************************)
(* What the reply pipeline promises about each customer message, without   *)
(* locks, processes, timers or retries: at most one answer is ever sent    *)
(* towards the customer, the recorded verdict never contradicts what the   *)
(* customer can have received, and nothing is sent after the verdict.      *)
(* BotReply implements it.                                                 *)
(***************************************************************************)
EXTENDS Naturals

CONSTANT Messages

VARIABLES
  open,      \* the conversation has not been deleted
  verdict,   \* what the system records about the reply to a message
  attempts,  \* answers handed to the platform
  received   \* messages whose answer reached the customer

vars == <<open, verdict, attempts, received>>

Verdicts == {"none", "working", "delivered", "failed"}

Init ==
  /\ open = TRUE
  /\ verdict = [m \in Messages |-> "none"]
  /\ attempts = [m \in Messages |-> 0]
  /\ received = {}

\* A verdict is reached at most once while the conversation exists.
Accept(m) ==
  /\ verdict[m] = "none"
  /\ verdict' = [verdict EXCEPT ![m] = "working"]
  /\ UNCHANGED <<open, attempts, received>>

\* The single attempt, before the verdict; a deletion may overtake it.
Attempt(m) ==
  /\ attempts[m] = 0
  /\ verdict[m] = "working" \/ ~open
  /\ attempts' = [attempts EXCEPT ![m] = 1]
  /\ UNCHANGED <<open, verdict, received>>

Receive(m) ==
  /\ attempts[m] = 1
  /\ received' = received \cup {m}
  /\ UNCHANGED <<open, verdict, attempts>>

ReportDelivered(m) ==
  /\ verdict[m] = "working"
  /\ m \in received
  /\ verdict' = [verdict EXCEPT ![m] = "delivered"]
  /\ UNCHANGED <<open, attempts, received>>

\* Says nothing about the customer: the answer may have arrived, or may yet.
ReportFailed(m) ==
  /\ verdict[m] = "working"
  /\ verdict' = [verdict EXCEPT ![m] = "failed"]
  /\ UNCHANGED <<open, attempts, received>>

Delete ==
  /\ open
  /\ open' = FALSE
  /\ verdict' = [m \in Messages |-> "none"]
  /\ UNCHANGED <<attempts, received>>

Next ==
  \/ \E m \in Messages : \/ Accept(m) \/ Attempt(m) \/ Receive(m)
                         \/ ReportDelivered(m) \/ ReportFailed(m)
  \/ Delete

Spec == Init /\ [][Next]_vars
=============================================================================

--------------------------- MODULE TaskExecution ---------------------------
(***************************************************************************)
(* What the task graph relies on when it hands a launch to an actor: the   *)
(* command runs only after it was permitted, it may be interrupted and     *)
(* begun again, and a receipt, once there, is final: the command has ended *)
(* by itself and is not begun again.  TaskRunner implements it.            *)
(***************************************************************************)
CONSTANTS Outcome, NoReceipt

VARIABLES
  permitted,   \* the activation has been delivered to this actor
  executing,   \* the command has begun and its end is not settled yet
  receipt      \* the outcome in the actor's durable volume

vars == <<permitted, executing, receipt>>

Init == ~ permitted /\ ~ executing /\ receipt = NoReceipt

Permit ==
  /\ permitted' = TRUE
  /\ UNCHANGED <<executing, receipt>>

Begin ==
  /\ permitted /\ ~ executing /\ receipt = NoReceipt
  /\ executing' = TRUE
  /\ UNCHANGED <<permitted, receipt>>

\* A suspension, a crash, a signal: no evidence is left.
Interrupt ==
  /\ executing
  /\ executing' = FALSE
  /\ UNCHANGED <<permitted, receipt>>

Complete(o) ==
  /\ executing /\ receipt = NoReceipt
  /\ receipt' = o
  /\ executing' = FALSE
  /\ UNCHANGED permitted

\* A crashed actor is replaced by a new one.
Replace ==
  /\ ~ executing
  /\ permitted' = FALSE /\ receipt' = NoReceipt
  /\ UNCHANGED executing

Next == Permit \/ Begin \/ Interrupt \/ (\E o \in Outcome : Complete(o)) \/ Replace

Spec == Init /\ [][Next]_vars
=============================================================================

------------------------------ MODULE TaskLifecycle ------------------------------
(***************************************************************************)
(* What the scheduler promises of each task, without its queue, workers,   *)
(* cancellation or shutdown: a task is admitted or rejected once, is sent  *)
(* to the executor at most once and only after it was admitted, reports    *)
(* "done" only if it was sent, and keeps the first terminal state it gets. *)
(* The Scheduler module implements it.                                     *)
(***************************************************************************)
EXTENDS TaskState, Naturals

CONSTANT Tasks

VARIABLES
  state,      \* Task.State
  attempts    \* requests sent to the executor for the task

vars == <<state, attempts>>

Init ==
  /\ state = [t \in Tasks |-> "none"]
  /\ attempts = [t \in Tasks |-> 0]

Admit(t) ==
  /\ state[t] = "none"
  /\ state' = [state EXCEPT ![t] = "queued"]
  /\ UNCHANGED attempts

Reject(t) ==
  /\ state[t] = "none"
  /\ state' = [state EXCEPT ![t] = "rejected"]
  /\ UNCHANGED attempts

Advance(t) ==
  /\ \/ state[t] = "queued" /\ state' = [state EXCEPT ![t] = "assigned"]
     \/ state[t] = "assigned" /\ state' = [state EXCEPT ![t] = "running"]
  /\ UNCHANGED attempts

(* A request that is being prepared when the task is cancelled may still   *)
(* be sent.                                                                *)
Send(t) ==
  /\ state[t] \in {"running", "cancelled"}
  /\ attempts[t] = 0
  /\ attempts' = [attempts EXCEPT ![t] = 1]
  /\ UNCHANGED state

Succeed(t) ==
  /\ state[t] = "running" /\ attempts[t] = 1
  /\ state' = [state EXCEPT ![t] = "done"]
  /\ UNCHANGED attempts

Fail(t) ==
  /\ state[t] \in {"queued", "running"}
  /\ state' = [state EXCEPT ![t] = "failed"]
  /\ UNCHANGED attempts

Cancel(t) ==
  /\ state[t] \in {"queued", "assigned", "running"}
  /\ state' = [state EXCEPT ![t] = "cancelled"]
  /\ UNCHANGED attempts

Next ==
  \E t \in Tasks :
    Admit(t) \/ Reject(t) \/ Advance(t) \/ Send(t) \/ Succeed(t) \/ Fail(t) \/ Cancel(t)

Spec == Init /\ [][Next]_vars

==================================================================================

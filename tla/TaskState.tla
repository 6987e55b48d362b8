-------------------------------- MODULE TaskState --------------------------------
(***************************************************************************)
(* The states of a scheduler task and the transition relation of           *)
(* Task.SetState (internal/scheduler/task.go).  "none" is a task that no   *)
(* Submit call has created yet.                                            *)
(***************************************************************************)

Terminal == {"done", "failed", "cancelled", "rejected"}

States == {"none", "queued", "assigned", "running"} \cup Terminal

(* SetState succeeds exactly on these pairs; it returns an error and       *)
(* changes nothing on the others.                                          *)
CanSet(s, next) ==
  \/ s = "queued"   /\ next \in {"assigned", "cancelled", "failed", "rejected"}
  \/ s = "assigned" /\ next \in {"running", "cancelled"}
  \/ s = "running"  /\ next \in {"done", "failed", "cancelled"}

==================================================================================

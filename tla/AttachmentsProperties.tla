-------------------------- MODULE AttachmentsProperties --------------------------
(***************************************************************************)
(* What the orchestrator promises of attached bridges.                     *)
(***************************************************************************)
EXTENDS Attachments, OrchestratorProperties

AttachTypeOK ==
  /\ attach \in [Attachings -> {"idle", "enter", "sync", "watch", "done"}]
  /\ name \in [Attachings -> Profiles]
  /\ updated \in [Attachings -> Bridges \cup {NoInstance}]

EntryTypeOK ==
  /\ listed \subseteq Attachings /\ known \subseteq Attachings
  /\ condition \in [Attachings -> {"running", "stopping"}]
  /\ url \in [Attachings -> Origins \cup {NoOrigin}]

(* The types of the variables of attached instances.                       *)
AttachedTypeOK ==
  /\ AttachTypeOK /\ EntryTypeOK
  /\ watcher \in [Bridges -> {"none", "waiting", "probing", "removing", "forgetting", "ended"}]
  /\ probed \in [Attachings -> Origins \cup {NoOrigin}]
  /\ serving \subseteq Origins
  /\ detach \in [Detachers -> {"idle", "asking", "remove", "forget"}]
  /\ leaving \in [Detachers -> Attachings \cup {NoInstance}]

HealthChecked(b) == watcher[b] \in {"waiting", "probing", "removing"}

Entering(b) == attach[b] \in {"sync", "watch"}

Leaving(b) == \E d \in Detachers : leaving[d] = b /\ detach[d] \in {"asking", "remove"}

(* No bridge is in the table with nobody to find out that it is dead: its  *)
(* health check runs, or its AttachBridge call is about to start it, or a  *)
(* Stop, for which the check ended itself, will remove the entry, even if  *)
(* another AttachBridge call has made it running again.                    *)
BridgesWatched ==
  \A b \in listed \cap Bridges : HealthChecked(b) \/ Entering(b) \/ Leaving(b)

(* A bridge that does not answer where the table says it is leaves the     *)
(* table, or its entry comes to a URL that answers: also when updates,     *)
(* Stops and answers of an earlier URL come between probe and removal.     *)
DeadBridgeLeaves ==
  \A b \in Bridges :
    (b \in listed /\ url[b] \notin serving) ~> (b \notin listed \/ url[b] \in serving)

==================================================================================

---------------------------- MODULE InstanceLifecycle ----------------------------
(***************************************************************************)
(* What the orchestrator promises the listeners of its events about each   *)
(* managed instance, without ports, processes or the steps of its calls:   *)
(* the start is settled at most once, as "started" or as "error"; the end  *)
(* is announced at most once, as "stopped", and never precedes or undoes a *)
(* settled start; a failed Stop is not announced at all.  The Orchestrator *)
(* module implements it and the Autorestart module relies on it.           *)
(***************************************************************************)
EXTENDS Naturals

CONSTANT Instances

VARIABLES
  status,     \* Status of each instance, "absent" before its launch
  listed,     \* the ids in the orchestrator's table
  announced   \* the events emitted for each instance

lifecycleVars == <<status, listed, announced>>

LifecycleInit ==
  /\ status = [i \in Instances |-> "absent"]
  /\ listed = {}
  /\ announced = [i \in Instances |-> {}]

Become(i, s) == status' = [status EXCEPT ![i] = s]

Announce(i, e) == announced' = [announced EXCEPT ![i] = @ \cup {e}]

Launched(i) ==
  /\ status[i] = "absent"
  /\ Become(i, "starting")
  /\ listed' = listed \cup {i}
  /\ UNCHANGED announced

(* A Stop that failed may leave the instance in error before it settles.   *)
Unsettled(i) == status[i] \in {"starting", "error"} /\ announced[i] = {}

Ready(i) ==
  /\ Unsettled(i)
  /\ Become(i, "running") /\ Announce(i, "started")
  /\ UNCHANGED listed

Failed(i) ==
  /\ Unsettled(i)
  /\ Become(i, "error") /\ Announce(i, "error")
  /\ UNCHANGED listed

(* The process has exited of its own, or for a Stop.                       *)
Exited(i) ==
  /\ status[i] \in {"running", "stopping"}
  /\ Become(i, "stopped") /\ Announce(i, "stopped")
  /\ UNCHANGED listed

Present(i) == i \in listed /\ status[i] # "stopped"

StopAsked(i) ==
  /\ Present(i)
  /\ Become(i, "stopping")
  /\ UNCHANGED <<listed, announced>>

StopFailed(i) ==
  /\ Present(i)
  /\ Become(i, "error")
  /\ UNCHANGED <<listed, announced>>

Removed(i) ==
  /\ i \in listed
  /\ listed' = listed \ {i}
  /\ UNCHANGED <<status, announced>>

LifecycleStep(i) ==
  \/ Launched(i) \/ Ready(i) \/ Failed(i) \/ Exited(i)
  \/ StopAsked(i) \/ StopFailed(i) \/ Removed(i)

LifecycleNext == \E i \in Instances : LifecycleStep(i)

LifecycleSpec == LifecycleInit /\ [][LifecycleNext]_lifecycleVars

==================================================================================

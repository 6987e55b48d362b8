-------------------------- MODULE OrchestratorProperties --------------------------
(***************************************************************************)
(* What the orchestrator and its port allocator promise.                   *)
(***************************************************************************)
EXTENDS Orchestrator

Preparing == {"reserved", "checked", "equipped", "spawned", "failing"}
Statuses == {"starting", "running", "stopping", "stopped", "error"}

PortTypeOK ==
  /\ allocated \subseteq PortRange
  /\ nextCandidate \in PortStart .. PortEnd + 1

(* The types of all variables: in particular the search cursor stays       *)
(* within the range or just behind it (AllocatePort, ReleasePort).         *)
TypeOK ==
  /\ PortTypeOK
  /\ launch \in [Launches -> Preparing \cup {"idle", "done"}]
  /\ profile \in [Launches -> Profiles]
  /\ port \in [Launches -> Nat]
  /\ cdpPort \in [Launches -> PortRange \cup {NoPort}]
  /\ instances \subseteq Launches /\ registry \subseteq Launches
  /\ status \in [Launches -> Statuses]
  /\ process \in [Launches -> {"none", "spawned", "listening", "exited"}]
  /\ killed \subseteq Launches
  /\ monitor \in [Launches -> {"none", "probing", "healthy", "exited", "timeout",
                               "waiting", "done"}]
  /\ announced \in [Launches -> SUBSET {"started", "error", "stopped"}]
  /\ stop \in [Stoppers -> Waits \cup {"idle", "release", "unregister"}]
  /\ target \in [Stoppers -> Launches \cup {NoInstance}]

----------------------------------------------------------------------------------
(* Ports.                                                                  *)

(* The ports a launch call in progress, or the entry it made, answers for. *)
Holds(l) ==
  IF launch[l] \in Preparing \/ l \in instances
    THEN {port[l], cdpPort[l]} \cap PortRange ELSE {}

(* Every port handed out has an owner that will give it back, a launch in  *)
(* progress or an entry of the table: no error path of LaunchWithOptions   *)
(* and no markStopped loses one, and none is released while it has one.    *)
NoPortLost == allocated = UNION {Holds(l) : l \in Launches}

(* No two launches or instances, whatever the order of their reservations  *)
(* and releases, ever own the same port of the range, and an instance's    *)
(* two ports differ.                                                       *)
PortsExclusive ==
  /\ \A l, m \in Launches : l # m => Holds(l) \cap Holds(m) = {}
  /\ \A l \in Launches : Holds(l) # {} => port[l] # cdpPort[l]

(* AllocatePort reports an exhausted range only when no port of the range  *)
(* is both free and usable: from wherever earlier calls left the cursor,   *)
(* the attempts of one search visit the whole range.                       *)
ExhaustionIsReal ==
  (\E p \in Usable : p \notin allocated) => Hits(Usable) # {}

----------------------------------------------------------------------------------
(* Processes and entries.                                                  *)

(* No child process is forgotten: one that lives has an entry Stop and     *)
(* Shutdown can find, or its launch is about to make one, or it was sent   *)
(* SIGKILL.                                                                *)
NoOrphan ==
  \A l \in Launches : Active(l) =>
    l \in instances \/ launch[l] = "spawned" \/ l \in killed

(* Routing finds no instance the table no longer has, but for the moment   *)
(* between markStopped's two steps.  An instance sent SIGKILL is excepted: *)
(* its monitor may report it running after ForceShutdown, or after a Stop  *)
(* that gave up, and register it again.                                    *)
RegisteredIsTracked ==
  \A l \in registry : \/ l \in instances \/ l \in killed
                      \/ \E s \in Stoppers : stop[s] = "unregister" /\ target[s] = l

(* A Stop is not undone by the instance's own monitor, which may have seen *)
(* the child healthy just before: an instance being stopped next is        *)
(* stopped, or in error because its process would not end.                 *)
StoppingOnlyEnds ==
  [][\A l \in Launches :
       status[l] = "stopping" /\ status'[l] # "stopping"
         => status'[l] \in {"stopped", "error"}]_vars

(* docs/reference/instances.md: one profile has at most one active managed *)
(* instance.  LaunchWithOptions checks it in one critical section and      *)
(* inserts in another.                                                     *)
OneActivePerProfile ==
  \A l, m \in instances : Active(l) /\ Active(m) /\ profile[l] = profile[m] => l = m

(* Listeners (identity bindings, the tabs cache, the restart strategies)   *)
(* can rely on the lifecycle of each instance whatever launches, monitors, *)
(* Stop calls and ForceShutdown do at once: its start is settled once, its *)
(* end announced at most once, after which nothing changes it again.       *)
Lifecycle == INSTANCE InstanceLifecycle WITH
  Instances <- Launches,
  status <- [l \in Launches |-> IF monitor[l] = "none" THEN "absent" ELSE status[l]],
  listed <- instances,
  announced <- announced
ImplementsLifecycle == Lifecycle!LifecycleSpec

----------------------------------------------------------------------------------
(* Liveness.                                                               *)

(* A launched instance does not stay "starting": it becomes running or     *)
(* fails, or is removed, even if its child neither answers nor exits.      *)
StartingSettles ==
  \A l \in Launches :
    (l \in instances /\ status[l] = "starting")
      ~> (l \notin instances \/ status[l] # "starting")

(* Stop ends: the entry is removed, or shows the error.                    *)
StopResolves ==
  \A l \in Launches :
    (l \in instances /\ status[l] = "stopping")
      ~> (l \notin instances \/ status[l] = "error")

(* The exit of an instance announced as started is announced too, so that  *)
(* identity bindings to it are cleared and it can be restarted: unless it  *)
(* was sent SIGKILL, for a Stop that gave up leaves it in error, and then  *)
(* its exit goes unannounced.                                              *)
ExitAnnounced ==
  \A l \in Launches :
    ("started" \in announced[l] /\ process[l] = "exited")
      ~> ("stopped" \in announced[l] \/ l \in killed)

==================================================================================

------------------------------ MODULE Orchestrator ------------------------------
(***************************************************************************)
(* Managed instances (internal/orchestrator): launch calls, the monitor    *)
(* goroutine of each instance, Stop calls, ForceShutdown and the child     *)
(* processes themselves, interleaved at the granularity of the code's      *)
(* critical sections.                                                      *)
(*                                                                         *)
(* A launch call is named by the instance it makes: the id is a hash of    *)
(* the profile's name and the time, taken to be unique.  A Stop call is    *)
(* the process of a Stopper, which serves one call after another;          *)
(* StopProfile and Shutdown are Stop calls made for the active instances   *)
(* of a snapshot, so several Stoppers at once, and ForceShutdown skips     *)
(* the waiting.                                                            *)
(*                                                                         *)
(* Time is left out: a wait may end at any moment.  Child configuration,   *)
(* profile directories, URLs, log lines and error texts are left out too,  *)
(* and what the handlers of an event do with it.  Attachments adds the     *)
(* attached instances; tab routing is the matter of SessionRouting.        *)
(***************************************************************************)
EXTENDS PortAllocator

CONSTANTS
  Launches,        \* launch calls, each named by the instance it makes
  Stoppers,        \* processes that run Stop and ForceShutdown calls
  Profiles,        \* profile names
  Requests,        \* ports a caller may ask for; NoPort: any
  Foreign,         \* ports held by programs the orchestrator knows nothing of
  NoInstance

ASSUME OrchestratorAssumption ==
  /\ NoInstance \notin Launches
  /\ Profiles # {}
  /\ Requests \subseteq Nat /\ Foreign \subseteq Nat

VARIABLES
  launch,          \* what each launch call does next
  profile, port, cdpPort,   \* the fields of each instance; the ports, once
                   \* chosen, are the call's reservedPorts until it inserts
  instances,       \* o.instances: the ids in the table
  status,          \* Status of each instance
  process,         \* the child process of each instance
  killed,          \* the instances whose process was sent SIGKILL
  monitor,         \* what the monitor goroutine of each instance does next
  registry,        \* instanceMgr.Repo: the ids routing can find
  announced,       \* the events emitted for each instance
  stop, target     \* what each Stop call does next, and its instance

launchVars == <<launch, profile, port, cdpPort>>
tableVars == <<instances, status>>
processVars == <<process, killed>>
watchVars == <<monitor, registry, announced>>
stopVars == <<stop, target>>
vars == <<portVars, launchVars, tableVars, processVars, watchVars, stopVars>>

Init ==
  /\ PortInit
  /\ launch = [l \in Launches |-> "idle"]
  /\ profile \in {[l \in Launches |-> n] : n \in Profiles}
  /\ port = [l \in Launches |-> NoPort] /\ cdpPort = port
  /\ instances = {} /\ registry = {} /\ killed = {}
  /\ status = [l \in Launches |-> "starting"]
  /\ process = [l \in Launches |-> "none"]
  /\ monitor = [l \in Launches |-> "none"]
  /\ announced = [l \in Launches |-> {}]
  /\ stop = [s \in Stoppers |-> "idle"]
  /\ target = [s \in Stoppers |-> NoInstance]

(* instanceIsActive: the process is alive.                                 *)
Active(l) == process[l] \in {"spawned", "listening"}

(* The ports that cannot be opened now, by the program that holds them.    *)
Occupied ==
  Foreign \cup
  UNION {{port[l], cdpPort[l]} : l \in {i \in Launches : process[i] = "listening"}}

Usable == PortRange \ Occupied

Goto(l, label) == launch' = [launch EXCEPT ![l] = label]

----------------------------------------------------------------------------------
(* LaunchWithOptions.                                                      *)

(* The port: an allocated one, or the one asked for.                       *)
LaunchReserve(l, n, request) ==
  /\ launch[l] = "idle"
  /\ profile' = [profile EXCEPT ![l] = n]
  /\ \/ /\ request = NoPort
        /\ \E p \in PortRange : /\ AllocatePort(Usable, p)
                                /\ port' = [port EXCEPT ![l] = p]
        /\ Goto(l, "reserved")
     \/ /\ request # NoPort /\ ReservePort(request)
        /\ port' = [port EXCEPT ![l] = request]
        /\ Goto(l, "reserved")
     \/ /\ \/ request = NoPort /\ AllocateFails(Usable)
           \/ request # NoPort /\ ReserveFails(request)
        /\ Goto(l, "done")
        /\ UNCHANGED port
  /\ UNCHANGED <<cdpPort, tableVars, processVars, watchVars, stopVars>>

Conflicts(l) ==
  \/ \E i \in instances : Active(i) /\ (port[i] = port[l] \/ profile[i] = profile[l])
  \/ port[l] \in Occupied

(* The check against the table and the port's owner, under o.mu; an        *)
(* attached instance (module Attachments) may have the name.               *)
LaunchCheck(l) ==
  /\ launch[l] = "reserved"
  /\ \/ ~Conflicts(l) /\ Goto(l, "checked")
     \/ Goto(l, "failing")
  /\ UNCHANGED <<portVars, profile, port, cdpPort, tableVars, processVars, watchVars, stopVars>>

(* The port Chrome debugging uses.                                         *)
LaunchDebugPort(l) ==
  /\ launch[l] = "checked"
  /\ \/ /\ \E p \in PortRange : /\ AllocatePort(Usable, p)
                                /\ cdpPort' = [cdpPort EXCEPT ![l] = p]
        /\ Goto(l, "equipped")
     \/ /\ AllocateFails(Usable)
        /\ Goto(l, "failing")
        /\ UNCHANGED cdpPort
  /\ UNCHANGED <<profile, port, tableVars, processVars, watchVars, stopVars>>

(* Directories, the child's configuration and runner.Run, any of which may *)
(* fail.                                                                   *)
LaunchRun(l) ==
  /\ launch[l] = "equipped"
  /\ \/ /\ process' = [process EXCEPT ![l] = "spawned"]
        /\ Goto(l, "spawned")
     \/ /\ Goto(l, "failing")
        /\ UNCHANGED process
  /\ UNCHANGED <<portVars, profile, port, cdpPort, tableVars, killed, watchVars, stopVars>>

LaunchInsertSlip(l) ==
  /\ launch[l] = "spawned"
  /\ Goto(l, "done")
  /\ instances' = instances \cup {l}
  /\ status' = [status EXCEPT ![l] = "starting"]
  /\ monitor' = [monitor EXCEPT ![l] = "probing"]
  /\ ReleasePorts(port[l], cdpPort[l])
  /\ UNCHANGED <<profile, port, cdpPort, processVars, registry, announced, stopVars>>

(* The instance enters the table, its ports are the call's no longer, and  *)
(* the monitor starts.                                                     *)
LaunchInsert(l) ==
  /\ launch[l] = "spawned"
  /\ Goto(l, "done")
  /\ instances' = instances \cup {l}
  /\ status' = [status EXCEPT ![l] = "starting"]
  /\ monitor' = [monitor EXCEPT ![l] = "probing"]
  /\ UNCHANGED <<portVars, profile, port, cdpPort, processVars, registry, announced, stopVars>>

(* An error return: the deferred function gives reservedPorts back.        *)
LaunchAbort(l) ==
  /\ launch[l] = "failing"
  /\ Goto(l, "done")
  /\ ReleasePorts(port[l], cdpPort[l])
  /\ UNCHANGED <<profile, port, cdpPort, tableVars, processVars, watchVars, stopVars>>

----------------------------------------------------------------------------------
(* The child process: it opens its ports or fails to, and may end at any   *)
(* moment, of its own, by a shutdown request or by a signal.               *)

ProcessListen(l) ==
  /\ process[l] = "spawned"
  /\ process' = [process EXCEPT ![l] =
       IF {port[l], cdpPort[l]} \cap Occupied = {} THEN "listening" ELSE "exited"]
  /\ UNCHANGED <<portVars, launchVars, tableVars, killed, watchVars, stopVars>>

ProcessExit(l) ==
  /\ Active(l)
  /\ process' = [process EXCEPT ![l] = "exited"]
  /\ UNCHANGED <<portVars, launchVars, tableVars, killed, watchVars, stopVars>>

----------------------------------------------------------------------------------
(* The monitor of an instance.                                             *)

ObserveSlip(l) ==
  /\ monitor[l] = "probing"
  /\ \/ /\ process[l] = "exited"
        /\ monitor' = [monitor EXCEPT ![l] = "exited"]
     \/ /\ port[l] \in Occupied
        /\ monitor' = [monitor EXCEPT ![l] = "healthy"]
  /\ UNCHANGED <<portVars, launchVars, tableVars, processVars, registry, announced, stopVars>>

(* The start-up loop ends: the process has exited, a program at the port   *)
(* answered as a bridge that can open a tab does, the child itself or      *)
(* another, or the start-up time is over.                                  *)
Observe(l) ==
  /\ monitor[l] = "probing"
  /\ \/ /\ process[l] = "exited"
        /\ monitor' = [monitor EXCEPT ![l] = "exited"]
     \/ /\ port[l] \in Occupied
        /\ monitor' = [monitor EXCEPT ![l] = "healthy"]
     \/ monitor' = [monitor EXCEPT ![l] = "timeout"]
  /\ UNCHANGED <<portVars, launchVars, tableVars, processVars, registry, announced, stopVars>>

SettleSlip(l) ==
  /\ monitor[l] \in {"healthy", "exited", "timeout"}
  /\ monitor' = [monitor EXCEPT ![l] = "waiting"]
  /\ \/ /\ monitor[l] = "healthy"
        /\ status' = [status EXCEPT ![l] = "running"]
        /\ registry' = registry \cup {l}
        /\ announced' = [announced EXCEPT ![l] = @ \cup {"started"}]
     \/ /\ monitor[l] # "healthy"
        /\ status' = [status EXCEPT ![l] = "error"]
        /\ announced' = [announced EXCEPT ![l] = @ \cup {"error"}]
        /\ UNCHANGED registry
  /\ UNCHANGED <<portVars, launchVars, instances, processVars, stopVars>>

(* The outcome is recorded and announced, unless a Stop came first.        *)
Settle(l) ==
  /\ monitor[l] \in {"healthy", "exited", "timeout"}
  /\ monitor' = [monitor EXCEPT ![l] = "waiting"]
  /\ \/ /\ status[l] \in {"stopping", "stopped"}
        /\ UNCHANGED <<status, registry, announced>>
     \/ /\ status[l] \notin {"stopping", "stopped"}
        /\ monitor[l] = "healthy"
        /\ status' = [status EXCEPT ![l] = "running"]
        /\ registry' = registry \cup {l}
        /\ announced' = [announced EXCEPT ![l] = @ \cup {"started"}]
     \/ /\ status[l] \notin {"stopping", "stopped"}
        /\ monitor[l] # "healthy"
        /\ status' = [status EXCEPT ![l] = "error"]
        /\ announced' = [announced EXCEPT ![l] = @ \cup {"error"}]
        /\ UNCHANGED registry
  /\ UNCHANGED <<portVars, launchVars, instances, processVars, stopVars>>

ReapSlip(l) ==
  /\ monitor[l] = "waiting" /\ process[l] = "exited"
  /\ monitor' = [monitor EXCEPT ![l] = "done"]
  /\ IF status[l] = "running"
       THEN /\ status' = [status EXCEPT ![l] = "stopped"]
            /\ announced' = [announced EXCEPT ![l] = @ \cup {"stopped"}]
       ELSE UNCHANGED <<status, announced>>
  /\ UNCHANGED <<portVars, launchVars, instances, processVars, registry, stopVars>>

(* The process has exited: an instance that ran, or was being stopped, is  *)
(* announced as stopped.  It stays in the table.                           *)
Reap(l) ==
  /\ monitor[l] = "waiting" /\ process[l] = "exited"
  /\ monitor' = [monitor EXCEPT ![l] = "done"]
  /\ IF status[l] \in {"running", "stopping"}
       THEN /\ status' = [status EXCEPT ![l] = "stopped"]
            /\ announced' = [announced EXCEPT ![l] = @ \cup {"stopped"}]
       ELSE UNCHANGED <<status, announced>>
  /\ UNCHANGED <<portVars, launchVars, instances, processVars, registry, stopVars>>

----------------------------------------------------------------------------------
(* Stop.                                                                   *)

StopGoto(s, label) == stop' = [stop EXCEPT ![s] = label]

(* An instance already stopped is only removed.                            *)
StopBegin(s, l) ==
  /\ stop[s] = "idle" /\ l \in instances
  /\ target' = [target EXCEPT ![s] = l]
  /\ IF status[l] = "stopped" /\ ~Active(l)
       THEN StopGoto(s, "release") /\ UNCHANGED status
       ELSE StopGoto(s, "graceful") /\ status' = [status EXCEPT ![l] = "stopping"]
  /\ UNCHANGED <<portVars, launchVars, instances, processVars, watchVars>>

(* The waits after the shutdown request, after SIGTERM and after SIGKILL.  *)
Waits == {"graceful", "term", "kill"}

StopExitedSlip(s) ==
  /\ stop[s] \in Waits
  /\ StopGoto(s, "release")
  /\ UNCHANGED <<portVars, launchVars, tableVars, processVars, watchVars, target>>

StopExited(s) ==
  /\ stop[s] \in Waits /\ ~Active(target[s])
  /\ StopGoto(s, "release")
  /\ UNCHANGED <<portVars, launchVars, tableVars, processVars, watchVars, target>>

(* A wait is over and the process still lives: the next signal.            *)
StopEscalate(s) ==
  /\ stop[s] \in {"graceful", "term"} /\ Active(target[s])
  /\ \/ /\ stop[s] = "graceful"
        /\ StopGoto(s, "term")
        /\ UNCHANGED killed
     \/ /\ stop[s] = "term"
        /\ StopGoto(s, "kill")
        /\ killed' = killed \cup {target[s]}
  /\ UNCHANGED <<portVars, launchVars, tableVars, process, watchVars, target>>

(* Even SIGKILL did not end the process in time: setStopError.             *)
StopGiveUp(s) ==
  /\ stop[s] = "kill" /\ Active(target[s])
  /\ StopGoto(s, "idle")
  /\ status' = IF target[s] \in instances
                 THEN [status EXCEPT ![target[s]] = "error"] ELSE status
  /\ target' = [target EXCEPT ![s] = NoInstance]
  /\ UNCHANGED <<portVars, launchVars, instances, processVars, watchVars>>

MarkStoppedSlip(s) ==
  /\ stop[s] = "release"
  /\ IF target[s] \in instances
       THEN /\ ReleasePorts(port[target[s]], cdpPort[target[s]])
            /\ StopGoto(s, "unregister")
            /\ UNCHANGED <<instances, target>>
       ELSE /\ StopGoto(s, "idle")
            /\ target' = [target EXCEPT ![s] = NoInstance]
            /\ UNCHANGED <<portVars, instances>>
  /\ UNCHANGED <<launchVars, status, processVars, watchVars>>

(* markStopped: the ports are released and the entry deleted under o.mu;   *)
(* the registry follows outside it.                                        *)
MarkStopped(s) ==
  /\ stop[s] = "release"
  /\ IF target[s] \in instances
       THEN /\ ReleasePorts(port[target[s]], cdpPort[target[s]])
            /\ instances' = instances \ {target[s]}
            /\ StopGoto(s, "unregister")
            /\ UNCHANGED target
       ELSE /\ StopGoto(s, "idle")
            /\ target' = [target EXCEPT ![s] = NoInstance]
            /\ UNCHANGED <<portVars, instances>>
  /\ UNCHANGED <<launchVars, status, processVars, watchVars>>

Unregister(s) ==
  /\ stop[s] = "unregister"
  /\ registry' = registry \ {target[s]}
  /\ StopGoto(s, "idle")
  /\ target' = [target EXCEPT ![s] = NoInstance]
  /\ UNCHANGED <<portVars, launchVars, tableVars, processVars, monitor, announced>>

(* ForceShutdown kills an active instance and goes straight to markStopped.*)
ForceShutdown(s, l) ==
  /\ stop[s] = "idle" /\ l \in instances /\ Active(l)
  /\ target' = [target EXCEPT ![s] = l]
  /\ StopGoto(s, "release")
  /\ killed' = killed \cup {l}
  /\ UNCHANGED <<portVars, launchVars, tableVars, process, watchVars>>

----------------------------------------------------------------------------------
LaunchStep(l) ==
  \/ LaunchCheck(l)
  \/ LaunchDebugPort(l)
  \/ LaunchRun(l)
  \/ LaunchInsert(l)
  \/ LaunchAbort(l)

MonitorStep(l) == Observe(l) \/ Settle(l) \/ Reap(l)

StopStep(s) ==
  \/ StopExited(s)
  \/ StopEscalate(s)
  \/ StopGiveUp(s)
  \/ MarkStopped(s)
  \/ Unregister(s)

Next ==
  \/ \E l \in Launches :
       \/ \E n \in Profiles, r \in Requests : LaunchReserve(l, n, r)
       \/ LaunchStep(l)
       \/ ProcessListen(l)
       \/ ProcessExit(l)
       \/ MonitorStep(l)
  \/ \E s \in Stoppers :
       \/ \E l \in Launches : StopBegin(s, l) \/ ForceShutdown(s, l)
       \/ StopStep(s)

(* Calls in progress and monitors run on; nobody has to launch or to stop, *)
(* and no process has to open its ports or to end.                         *)
Fairness ==
  /\ \A l \in Launches : WF_vars(LaunchStep(l)) /\ WF_vars(MonitorStep(l))
  /\ \A s \in Stoppers : WF_vars(StopStep(s))

Spec == Init /\ [][Next]_vars /\ Fairness

==================================================================================

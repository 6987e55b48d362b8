------------------------------- MODULE Attachments -------------------------------
(***************************************************************************)
(* Attached instances beside the managed ones: Attach (a browser reached   *)
(* by its CDP URL) and AttachBridge (a bridge that runs elsewhere, entered *)
(* or updated in place), the health check of attached bridges, and their   *)
(* removal.  The table is the orchestrator's; its managed and its attached *)
(* entries are kept in variables of their own, and meet where both look    *)
(* for the holder of a name.                                               *)
(*                                                                         *)
(* A call is named by the instance it enters if it enters one, an id that  *)
(* is made of the time and taken to be unique.  Calls the attach policy,   *)
(* the transaction policy or the first probe refuses change nothing and    *)
(* are left out.  A Stop call is the process of a Detacher; StopProfile,   *)
(* Shutdown and ForceShutdown make several.                                *)
(***************************************************************************)
EXTENDS Orchestrator

CONSTANTS
  Bridges,      \* AttachBridge calls
  Browsers,     \* Attach calls
  Detachers,    \* processes that run Stop and ForceShutdown calls
  Origins,      \* the URLs bridges can be reached at
  Scenarios,    \* bound: the calls that are made in one behaviour
  NoOrigin

Attachings == Bridges \cup Browsers

ASSUME AttachmentsAssumption ==
  /\ Bridges \cap Browsers = {}
  /\ NoInstance \notin Attachings
  /\ Origins # {} /\ NoOrigin \notin Origins

VARIABLES
  scenario,        \* the member of Scenarios
  attach,          \* what each call does next
  name,            \* ProfileName of each attached instance
  updated,         \* the bridge an AttachBridge call has updated in place
  listed,          \* their ids in o.instances
  condition,       \* Status
  url,             \* URL of each attached bridge
  known,           \* their ids in instanceMgr.Repo
  watcher, probed, \* what monitorAttachedBridge does next, and the URL it probes
  serving,         \* the origins whose bridge answers
  detach, leaving  \* what each Stop call does next, and its instance

attachVars == <<attach, name, updated>>
entryVars == <<listed, condition, url, known>>
watcherVars == <<watcher, probed>>
detachVars == <<detach, leaving>>
attachedVars == <<scenario, attachVars, entryVars, watcherVars, serving, detachVars>>
allVars == <<vars, attachedVars>>

AttachedInit ==
  /\ Init
  /\ scenario \in Scenarios
  /\ attach = [a \in Attachings |-> "idle"]
  /\ name \in {[a \in Attachings |-> n] : n \in Profiles}
  /\ updated = [a \in Attachings |-> NoInstance]
  /\ listed = {} /\ known = {}
  /\ condition = [a \in Attachings |-> "running"]
  /\ url = [a \in Attachings |-> NoOrigin] /\ probed = url
  /\ watcher = [b \in Bridges |-> "none"]
  /\ serving = Origins
  /\ detach = [d \in Detachers |-> "idle"]
  /\ leaving = [d \in Detachers |-> NoInstance]

AttachGoto(a, label) == attach' = [attach EXCEPT ![a] = label]

----------------------------------------------------------------------------------
(* attachExternalInstance.                                                 *)

(* An attached instance has no process: its entry is active while it is    *)
(* there.                                                                  *)
Holders(n) == {b \in listed : name[b] = n}

NameFree(n) ==
  Holders(n) = {} /\ \A l \in instances : Active(l) => profile[l] # n

(* The name is free: the instance is entered in a later critical section.  *)
AttachNew(a, n, u) ==
  /\ attach[a] = "idle" /\ NameFree(n)
  /\ name' = [name EXCEPT ![a] = n]
  /\ url' = [url EXCEPT ![a] = u]
  /\ AttachGoto(a, "enter")
  /\ UNCHANGED <<scenario, updated, listed, condition, known, watcherVars, serving, detachVars>>

(* An AttachBridge call with the token of the bridge that has the name.    *)
AttachUpdate(a, n, u) ==
  /\ attach[a] = "idle" /\ a \in Bridges
  /\ \E b \in Holders(n) \cap Bridges :
       /\ url' = [url EXCEPT ![b] = u]
       /\ condition' = [condition EXCEPT ![b] = "running"]
       /\ updated' = [updated EXCEPT ![a] = b]
  /\ AttachGoto(a, "sync")
  /\ UNCHANGED <<scenario, name, listed, known, watcherVars, serving, detachVars>>

(* Any other holder of the name, or another token, is an error.            *)
AttachRefused(a, n) ==
  /\ attach[a] = "idle" /\ ~NameFree(n)
  /\ AttachGoto(a, "done")
  /\ UNCHANGED <<scenario, name, updated, entryVars, watcherVars, serving, detachVars>>

AttachEnter(a) ==
  /\ attach[a] = "enter"
  /\ listed' = listed \cup {a}
  /\ condition' = [condition EXCEPT ![a] = "running"]
  /\ AttachGoto(a, "sync")
  /\ UNCHANGED <<scenario, name, updated, url, known, watcherVars, serving, detachVars>>

(* syncInstanceToManager, after the lock was released; after it the event  *)
(* instance.attached is emitted.                                           *)
AttachSync(a) ==
  /\ attach[a] = "sync"
  /\ known' = known \cup {IF updated[a] = NoInstance THEN a ELSE updated[a]}
  /\ AttachGoto(a, IF updated[a] = NoInstance /\ a \in Bridges THEN "watch" ELSE "done")
  /\ UNCHANGED <<scenario, name, updated, listed, condition, url, watcherVars, serving, detachVars>>

(* AttachBridge starts the health check of a new bridge, if it is still    *)
(* there.                                                                  *)
AttachWatch(a) ==
  /\ attach[a] = "watch"
  /\ watcher' = [watcher EXCEPT ![a] = IF a \in listed THEN "waiting" ELSE "none"]
  /\ AttachGoto(a, "done")
  /\ UNCHANGED <<scenario, name, updated, entryVars, probed, serving, detachVars>>

----------------------------------------------------------------------------------
(* checkAttachedBridgeHealth, at every tick.                               *)

Watch(b, label) == watcher' = [watcher EXCEPT ![b] = label]

(* It gives up a bridge that is gone or that a Stop is about to remove; of *)
(* others it reads the URL and asks without the lock.                      *)
ProbeBegin(b) ==
  /\ watcher[b] = "waiting"
  /\ \/ /\ b \in listed /\ condition[b] = "running"
        /\ Watch(b, "probing")
        /\ probed' = [probed EXCEPT ![b] = url[b]]
     \/ /\ b \notin listed \/ condition[b] # "running"
        /\ Watch(b, "ended")
        /\ UNCHANGED probed
  /\ UNCHANGED <<scenario, attachVars, entryVars, serving, detachVars>>

(* The bridge answered at the URL that was read: if the entry has another  *)
(* one by now, it is replaced.                                             *)
ProbeHealthy(b) ==
  /\ watcher[b] = "probing" /\ probed[b] \in serving
  /\ Watch(b, "waiting")
  /\ IF probed[b] # url[b] /\ b \in listed
       THEN /\ url' = [url EXCEPT ![b] = probed[b]]
            /\ known' = known \cup {b}
       ELSE UNCHANGED <<url, known>>
  /\ UNCHANGED <<scenario, attachVars, listed, condition, probed, serving, detachVars>>

ProbeFailsSlip(b) ==
  /\ watcher[b] = "probing"
  /\ Watch(b, IF probed[b] = url[b] THEN "removing" ELSE "ended")
  /\ UNCHANGED <<scenario, attachVars, entryVars, probed, serving, detachVars>>

(* One failure is enough, whatever the entry has become meanwhile.         *)
ProbeFails(b) ==
  /\ watcher[b] = "probing"
  /\ Watch(b, "removing")
  /\ UNCHANGED <<scenario, attachVars, entryVars, probed, serving, detachVars>>

(* markStopped, which finds no ports to release, and the registry after it.*)
WatcherRemoves(b) ==
  /\ watcher[b] = "removing"
  /\ listed' = listed \ {b}
  /\ Watch(b, IF b \in listed THEN "forgetting" ELSE "ended")
  /\ UNCHANGED <<scenario, attachVars, condition, url, known, probed, serving, detachVars>>

WatcherForgets(b) ==
  /\ watcher[b] = "forgetting"
  /\ known' = known \ {b}
  /\ Watch(b, "ended")
  /\ UNCHANGED <<scenario, attachVars, listed, condition, url, probed, serving, detachVars>>

(* A bridge elsewhere ends, or comes back.                                 *)
OriginChanges(u) ==
  /\ serving' = IF u \in serving THEN serving \ {u} ELSE serving \cup {u}
  /\ UNCHANGED <<scenario, attachVars, entryVars, watcherVars, detachVars>>

----------------------------------------------------------------------------------
(* Stop and ForceShutdown.                                                 *)

DetachGoto(d, label) == detach' = [detach EXCEPT ![d] = label]

(* A bridge is sent a shutdown request, at most for four seconds.          *)
DetachBegin(d, a) ==
  /\ detach[d] = "idle" /\ a \in listed
  /\ condition' = [condition EXCEPT ![a] = "stopping"]
  /\ leaving' = [leaving EXCEPT ![d] = a]
  /\ DetachGoto(d, IF a \in Bridges THEN "asking" ELSE "remove")
  /\ UNCHANGED <<scenario, attachVars, listed, url, known, watcherVars, serving>>

ForceDetach(d, a) ==
  /\ detach[d] = "idle" /\ a \in listed
  /\ leaving' = [leaving EXCEPT ![d] = a]
  /\ DetachGoto(d, "remove")
  /\ UNCHANGED <<scenario, attachVars, entryVars, watcherVars, serving>>

DetachAskedSlip(d) ==
  /\ detach[d] = "asking"
  /\ IF url[leaving[d]] \in serving
       THEN DetachGoto(d, "remove") /\ UNCHANGED leaving
       ELSE DetachGoto(d, "idle") /\ leaving' = [leaving EXCEPT ![d] = NoInstance]
  /\ UNCHANGED <<scenario, attachVars, entryVars, watcherVars, serving>>

(* The answer, or that there is none, is not looked at.                    *)
DetachAsked(d) ==
  /\ detach[d] = "asking"
  /\ DetachGoto(d, "remove")
  /\ UNCHANGED <<scenario, attachVars, entryVars, watcherVars, serving, leaving>>

DetachRemoves(d) ==
  /\ detach[d] = "remove"
  /\ listed' = listed \ {leaving[d]}
  /\ IF leaving[d] \in listed
       THEN DetachGoto(d, "forget") /\ UNCHANGED leaving
       ELSE DetachGoto(d, "idle") /\ leaving' = [leaving EXCEPT ![d] = NoInstance]
  /\ UNCHANGED <<scenario, attachVars, condition, url, known, watcherVars, serving>>

DetachForgets(d) ==
  /\ detach[d] = "forget"
  /\ known' = known \ {leaving[d]}
  /\ leaving' = [leaving EXCEPT ![d] = NoInstance]
  /\ DetachGoto(d, "idle")
  /\ UNCHANGED <<scenario, attachVars, listed, condition, url, watcherVars, serving>>

----------------------------------------------------------------------------------
AttachStep(a) == AttachEnter(a) \/ AttachSync(a) \/ AttachWatch(a)

WatcherStep(b) ==
  \/ ProbeBegin(b) \/ ProbeHealthy(b) \/ ProbeFails(b)
  \/ WatcherRemoves(b) \/ WatcherForgets(b)

DetachStep(d) == DetachAsked(d) \/ DetachRemoves(d) \/ DetachForgets(d)

AttachedNext ==
  \/ \E a \in Attachings :
       \/ \E n \in Profiles : \/ \E u \in Origins : \/ a \in scenario /\ AttachNew(a, n, u)
                                                    \/ a \in scenario /\ AttachUpdate(a, n, u)
                              \/ a \in scenario /\ AttachRefused(a, n)
       \/ AttachStep(a)
  \/ \E b \in Bridges : WatcherStep(b)
  \/ \E u \in Origins : Bridges \cap scenario # {} /\ OriginChanges(u)
  \/ \E d \in Detachers :
       \/ d \in scenario /\ \E a \in Attachings : DetachBegin(d, a) \/ ForceDetach(d, a)
       \/ DetachStep(d)

(* What the managed side does: a launch finds the names of attached        *)
(* instances taken, and only the calls of the scenario are made.           *)
Composed ==
  /\ \A l \in Launches :
       /\ launch[l] = "idle" /\ l \notin scenario => launch'[l] = "idle"
       /\ launch[l] = "reserved" =>
            /\ launch'[l] = "checked" => Holders(profile[l]) = {}
            /\ launch'[l] = "failing" => Conflicts(l) \/ Holders(profile[l]) # {}
  /\ \A s \in Stoppers : stop[s] = "idle" /\ s \notin scenario => stop'[s] = "idle"
  /\ UNCHANGED attachedVars

TableNext ==
  \/ Next /\ Composed
  \/ AttachedNext /\ UNCHANGED vars

(* A call that began goes on, and so do the monitors; probes are limited   *)
(* in time.                                                                *)
TableFairness ==
  /\ \A l \in Launches :
       WF_allVars(LaunchStep(l) /\ Composed) /\ WF_allVars(MonitorStep(l) /\ Composed)
  /\ \A s \in Stoppers : WF_allVars(StopStep(s) /\ Composed)
  /\ \A a \in Attachings : WF_allVars(AttachStep(a) /\ UNCHANGED vars)
  /\ \A b \in Bridges : WF_allVars(WatcherStep(b) /\ UNCHANGED vars)
  /\ \A d \in Detachers : WF_allVars(DetachStep(d) /\ UNCHANGED vars)

TableSpec == AttachedInit /\ [][TableNext]_allVars /\ TableFairness

==================================================================================

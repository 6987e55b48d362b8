------------------------------ MODULE SessionRouting ------------------------------
(***************************************************************************)
(* How the server lets a request in and which instance it sends it to: the *)
(* session's authentication, the routing by explicit tab, session binding, *)
(* agent binding and fallback, the binding written when the instance has   *)
(* answered, and what takes bindings back: the hook of an ended session,   *)
(* the listener of instance events, the pruning of agents and a restart of *)
(* the server.  The instances are those InstanceLifecycle promises.        *)
(***************************************************************************)
EXTENDS SessionStore, InstanceLifecycle

CONSTANTS
  Agents,
  AgentOf,       \* the agent of each session
  Requests,      \* requests under way at once
  MaxHooks,      \* bound: hooks of one session that have not run
  MaxRestarts,   \* bound: restarts of the server
  Configs,       \* the configurations the server may have, each with its bounds
  None

(* Sessions end and the server, which has a file for them, restarts; tab   *)
(* lists are read; agents rest; requests come without a session.           *)
Happenings == {"ends", "polls", "rests", "agents"}

ASSUME SessionRoutingAssumption ==
  /\ AgentOf \in [Sessions -> Agents]
  /\ Sessions \cap Agents = {} /\ Instances \cap (Sessions \cup Agents) = {}
  /\ None \notin Instances \cup Sessions \cup Agents
  /\ MaxHooks \in Nat /\ MaxRestarts \in Nat
  /\ Configs \subseteq [strict : BOOLEAN, shared : BOOLEAN, managed : SUBSET Instances,
                         asked : SUBSET Requests, happens : SUBSET Happenings]

VARIABLES
  config,      \* strict: strictCrossInstanceTab; shared: the instances are launched one
               \* after another on one port, an explicit one outside the allocator's
               \* range or one that was allocated, released and allocated again; and
               \* bounds: the instances launched, the requests made, what else happens
  session, agent, idle,   \* the bindings
  dead,        \* the instances whose process has exited
  handled,     \* the events of each instance the orchestrator's listener has handled
  request,     \* the requests
  hooks,       \* the lifecycle hooks of each session that have not run
  cached,      \* the instances the tabs cache has a snapshot of
  reading,     \* the instance a dashboard request is reading the tabs of
  restarts,
  quiet,       \* the sessions Touch found expired
  belated      \* the holders of a binding or snapshot written after the end of its
               \* session or of its instance was dealt with

INSTANCE Bindings

routingVars == <<request, hooks, restarts, quiet, belated>>
bindings == <<session, agent, idle>>
instanceVars == <<lifecycleVars, dead, handled>>
cacheVars == <<cached, reading>>
vars == <<config, storeVars, bindings, instanceVars, cacheVars, routingVars>>

Absent == [pc |-> "idle", who |-> None, dest |-> None, seen |-> None]

Init ==
  /\ config \in Configs
  /\ StoreInit /\ BindingsInit /\ LifecycleInit
  /\ durable => "ends" \in config.happens
  /\ dead = {}
  /\ handled = [i \in Instances |-> {}]
  /\ request = [r \in Requests |-> Absent]
  /\ hooks = [s \in Sessions |-> 0]
  /\ cached = {} /\ reading = None
  /\ restarts = 0 /\ quiet = {} /\ belated = {}

Running(i) == i \in listed /\ status[i] = "running" /\ i \notin dead

At(r, pc) == request[r].pc = pc

Goto(r, pc) == request' = [request EXCEPT ![r].pc = pc]

End(r) == request' = [request EXCEPT ![r] = Absent]

(* The request goes to an instance whose process lives and is still listed;*)
(* any other answers 400 or 502.                                           *)
Send(r, i) ==
  request' = [request EXCEPT ![r] =
    IF i \in listed \ dead THEN [@ EXCEPT !.pc = "sent", !.dest = i] ELSE Absent]

Dispatch(s) == hooks[s] < MaxHooks /\ hooks' = [hooks EXCEPT ![s] = @ + 1]

AgentName(r) == IF request[r].who \in Sessions THEN AgentOf[request[r].who] ELSE request[r].who

----------------------------------------------------------------------------------
(* The sessions.                                                           *)

CreateSession(s) ==
  /\ Create(s)
  /\ UNCHANGED <<config, bindings, instanceVars, cacheVars, routingVars>>

Time(s) ==
  /\ "ends" \in config.happens /\ Lapse(s)
  /\ UNCHANGED <<config, bindings, instanceVars, cacheVars, routingVars>>

RevokeSession(s) ==
  /\ "ends" \in config.happens /\ Revoke(s)
  /\ Dispatch(s)
  /\ UNCHANGED <<config, bindings, instanceVars, cacheVars, request, restarts, quiet, belated>>

(* SessionLifecycleHook, in a goroutine of its own.                        *)
Hook(s) ==
  /\ hooks[s] > 0
  /\ hooks' = [hooks EXCEPT ![s] = @ - 1]
  /\ ClearSession(s)
  /\ UNCHANGED <<config, storeVars, instanceVars, cacheVars, request, restarts, quiet, belated>>

(* A request with the session's token, or with the server's token and the  *)
(* name of an agent.                                                       *)
Authenticate(r, s) ==
  /\ At(r, "idle") /\ r \in config.asked /\ Valid(s)
  /\ request' = [request EXCEPT ![r] = [Absent EXCEPT !.pc = "touch", !.who = s]]
  /\ UNCHANGED <<config, storeVars, bindings, instanceVars, cacheVars, hooks, restarts,
                 quiet, belated>>

AuthenticateExpiresSlip(s) ==
  /\ Expire(s)
  /\ UNCHANGED <<config, bindings, instanceVars, cacheVars, routingVars>>

AuthenticateExpires(s) ==
  /\ Expire(s)
  /\ Dispatch(s)
  /\ UNCHANGED <<config, bindings, instanceVars, cacheVars, request, restarts, quiet, belated>>

AuthenticateAgent(r, a) ==
  /\ "agents" \in config.happens
  /\ At(r, "idle") /\ r \in config.asked
  /\ request' = [request EXCEPT ![r] = [Absent EXCEPT !.pc = "route", !.who = a]]
  /\ UNCHANGED <<config, storeVars, bindings, instanceVars, cacheVars, hooks, restarts,
                 quiet, belated>>

(* The second look at the session; one that finds it expired says so to    *)
(* nobody.                                                                 *)
Touch(r) ==
  /\ At(r, "touch")
  /\ LET s == request[r].who
     IN \/ Refresh(s) /\ Goto(r, "route") /\ UNCHANGED quiet
        \/ Expire(s) /\ End(r) /\ quiet' = quiet \cup {s}
        \/ sessions[s] # "active" /\ End(r) /\ UNCHANGED <<storeVars, quiet>>
  /\ UNCHANGED <<config, bindings, instanceVars, cacheVars, hooks, restarts, belated>>

----------------------------------------------------------------------------------
(* The routing.                                                            *)

(* An explicit tab is looked up among the instances that have started; if  *)
(* none has it, the only running instance gets the request.  Strict routing*)
(* compares an owner with the bindings; without a tab they decide.         *)
Route(r) ==
  /\ At(r, "route")
  /\ LET look == IF request[r].who \in Sessions THEN "session" ELSE "agent"
     IN \/ \E i \in listed :
             /\ "started" \in announced[i]
             /\ IF config.strict
                  THEN request' = [request EXCEPT ![r] = [@ EXCEPT !.pc = look, !.dest = i]]
                  ELSE Send(r, i)
        \/ \E i \in Instances : {j \in Instances : Running(j)} = {i} /\ Send(r, i)
        \/ End(r)
        \/ Goto(r, look)
  /\ UNCHANGED <<config, storeVars, bindings, instanceVars, cacheVars, hooks, restarts,
                 quiet, belated>>

LookSessionSlip(r) ==
  /\ At(r, "session")
  /\ LET bound == session[request[r].who]
     IN request' = [request EXCEPT ![r] =
          IF request[r].dest = None /\ bound # None
            THEN [@ EXCEPT !.pc = "check", !.dest = bound, !.seen = bound]
            ELSE [@ EXCEPT !.pc = "agent", !.seen = bound]]
  /\ UNCHANGED <<config, storeVars, bindings, instanceVars, cacheVars, hooks, restarts,
                 quiet, belated>>

(* ResolveSession: for resolveIdentityBinding, or for allowCrossInstance,  *)
(* which answers 409 if the tab is not on the bound instance.              *)
LookSession(r) ==
  /\ At(r, "session")
  /\ LET bound == session[request[r].who]
     IN request' = [request EXCEPT ![r] =
          IF bound = None THEN [@ EXCEPT !.pc = "agent"]
          ELSE IF request[r].dest = None
                 THEN [@ EXCEPT !.pc = "check", !.dest = bound, !.seen = bound]
          ELSE IF request[r].dest = bound THEN [@ EXCEPT !.pc = "agent", !.seen = bound]
          ELSE Absent]
  /\ UNCHANGED <<config, storeVars, bindings, instanceVars, cacheVars, hooks, restarts,
                 quiet, belated>>

LookAgent(r) ==
  /\ At(r, "agent")
  /\ LET bound == agent[AgentName(r)]
     IN IF request[r].dest = None
          THEN request' = [request EXCEPT ![r] =
                 IF bound = None THEN [@ EXCEPT !.pc = "fallback"]
                 ELSE [@ EXCEPT !.pc = "check", !.dest = bound]]
          ELSE IF bound \in {None, request[r].dest} THEN Send(r, request[r].dest) ELSE End(r)
  /\ Seen(AgentName(r))
  /\ UNCHANGED <<config, storeVars, instanceVars, cacheVars, hooks, restarts, quiet, belated>>

(* routeToInstanceID.  An instance that is not running never will be again,*)
(* so that the bindings may be cleared in the same step.                   *)
Check(r) ==
  /\ At(r, "check")
  /\ LET i == request[r].dest
     IN \/ Running(i) /\ Send(r, i) /\ UNCHANGED bindings
        \/ /\ ~Running(i) /\ ClearInstance(i)
           /\ request' = [request EXCEPT ![r] =
                [Absent EXCEPT !.pc = "fallback", !.who = request[r].who]]
  /\ UNCHANGED <<config, storeVars, instanceVars, cacheVars, hooks, restarts, quiet, belated>>

(* The strategy's handler: a running instance (the one started first is    *)
(* not told from the others), or 503.                                      *)
Fallback(r) ==
  /\ At(r, "fallback")
  /\ \/ \E i \in Instances : Running(i) /\ Send(r, i)
     \/ (\A i \in Instances : ~Running(i)) /\ End(r)
  /\ UNCHANGED <<config, storeVars, bindings, instanceVars, cacheVars, hooks, restarts,
                 quiet, belated>>

(* A 2xx is booked to a listed instance with the URL's origin, which need  *)
(* not be the one asked if they share a port; any other answer, or none,   *)
(* changes nothing.                                                        *)
Answer(r) ==
  /\ At(r, "sent")
  /\ \/ \E i \in listed :
          /\ config.shared \/ i = request[r].dest
          /\ request' = [request EXCEPT ![r] = [@ EXCEPT !.dest = i,
               !.pc = IF request[r].who \in Sessions THEN "bind" ELSE "bindAgent"]]
     \/ End(r)
  /\ UNCHANGED <<config, storeVars, bindings, instanceVars, cacheVars, hooks, restarts,
                 quiet, belated>>

Note(x, late) == belated' = IF late THEN belated \cup {x} ELSE belated \ {x}

Bind(r) ==
  /\ At(r, "bind")
  /\ LET s == request[r].who
     IN /\ BindSession(s, request[r].dest)
        /\ Note(s, sessions[s] # "active" \/ handled[request[r].dest] # {})
  /\ Goto(r, "bindAgent")
  /\ UNCHANGED <<config, storeVars, instanceVars, cacheVars, hooks, restarts, quiet>>

(* The agent's binding and, if the request may have changed the tabs, the  *)
(* cache.                                                                  *)
BindTheAgent(r) ==
  /\ At(r, "bindAgent")
  /\ BindAgent(AgentName(r), request[r].dest)
  /\ Note(AgentName(r), handled[request[r].dest] # {})
  /\ cached' \in {cached, cached \ {request[r].dest}}
  /\ End(r)
  /\ UNCHANGED <<config, storeVars, instanceVars, reading, hooks, restarts, quiet>>

----------------------------------------------------------------------------------
(* instanceTabsCached: the list is asked for without a lock and stored when*)
(* it arrives.                                                             *)

ReadTabs(i) ==
  /\ "polls" \in config.happens /\ reading = None /\ Running(i)
  /\ reading' = i
  /\ UNCHANGED <<config, storeVars, bindings, instanceVars, cached, routingVars>>

StoreTabs ==
  /\ reading # None
  /\ reading' = None
  /\ \/ cached' = cached \cup {reading} /\ Note(reading, handled[reading] # {})
     \/ UNCHANGED <<cached, belated>>
  /\ UNCHANGED <<config, storeVars, bindings, instanceVars, request, hooks, restarts, quiet>>

----------------------------------------------------------------------------------
(* The instances.                                                          *)

(* A launch enters the table once no instance with its port has a process  *)
(* that lives.                                                             *)
Launch(i) ==
  /\ i \in config.managed /\ Launched(i)
  /\ config.shared => listed \subseteq dead
  /\ UNCHANGED <<config, storeVars, bindings, dead, handled, cacheVars, routingVars>>

Change(i) ==
  /\ \/ Ready(i) /\ i \notin dead
     \/ Failed(i)
     \/ Exited(i) /\ i \in dead
     \/ StopAsked(i) \/ StopFailed(i) \/ Removed(i)
  /\ UNCHANGED <<config, storeVars, bindings, dead, handled, cacheVars, routingVars>>

Die(i) ==
  /\ status[i] # "absent" /\ i \notin dead
  /\ dead' = dead \cup {i}
  /\ UNCHANGED <<config, storeVars, bindings, lifecycleVars, handled, cacheVars, routingVars>>

(* The orchestrator's own listener, which runs after the change of Status. *)
HandleEvent(i, e) ==
  /\ e \in announced[i] \ handled[i]
  /\ handled' = [handled EXCEPT ![i] = @ \cup {e}]
  /\ ClearInstance(i)
  /\ cached' = cached \ {i}
  /\ UNCHANGED <<config, storeVars, lifecycleVars, dead, reading, routingVars>>

----------------------------------------------------------------------------------
(* RunMaintenance.                                                         *)
AgentRests(a) ==
  /\ "rests" \in config.happens /\ Rest(a)
  /\ UNCHANGED <<config, storeVars, instanceVars, cacheVars, routingVars>>

Prune ==
  /\ PruneAgents
  /\ UNCHANGED <<config, storeVars, instanceVars, cacheVars, routingVars>>

(* The server ends at any moment and starts again: only the file is left.  *)
Restart ==
  /\ "ends" \in config.happens /\ restarts < MaxRestarts
  /\ restarts' = restarts + 1
  /\ Load
  /\ status' = [i \in Instances |-> "absent"] /\ listed' = {}
  /\ announced' = [i \in Instances |-> {}] /\ handled' = announced'
  /\ dead' = {}
  /\ session' = [s \in Sessions |-> None] /\ agent' = [a \in Agents |-> None] /\ idle' = {}
  /\ request' = [r \in Requests |-> Absent]
  /\ hooks' = [s \in Sessions |-> 0]
  /\ cached' = {} /\ reading' = None
  /\ quiet' = {} /\ belated' = {}
  /\ UNCHANGED config

RequestStep(r) ==
  \/ Touch(r) \/ Route(r) \/ LookSession(r) \/ LookAgent(r) \/ Check(r) \/ Fallback(r)
  \/ Answer(r) \/ Bind(r) \/ BindTheAgent(r)

Next ==
  \/ \E s \in Sessions : \/ CreateSession(s) \/ Time(s) \/ RevokeSession(s) \/ Hook(s)
                         \/ AuthenticateExpires(s)
  \/ \E r \in Requests : \/ \E s \in Sessions : Authenticate(r, s)
                         \/ \E a \in Agents : AuthenticateAgent(r, a)
                         \/ RequestStep(r)
  \/ \E i \in Instances : \/ ReadTabs(i) \/ Launch(i) \/ Change(i) \/ Die(i)
                          \/ \E e \in {"stopped", "error"} : HandleEvent(i, e)
  \/ \E a \in Agents : AgentRests(a)
  \/ StoreTabs \/ Prune \/ Restart

Spec == Init /\ [][Next]_vars
=============================================================================

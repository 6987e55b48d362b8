------------------------------- MODULE Autorestart -------------------------------
(***************************************************************************)
(* The simple-autorestart and always-on strategies                         *)
(* (internal/strategy/autorestart, internal/strategy/alwayson) over what   *)
(* the orchestrator promises of its instances (InstanceLifecycle).         *)
(*                                                                         *)
(* emitEvent calls the listeners in the goroutine that emits, so a crash   *)
(* is handled (backoff, Stop, Launch) by the monitor of the very instance  *)
(* that crashed, which announces nothing else meanwhile.  The strategy's   *)
(* callers are those monitors and launchInitial; users may Stop instances  *)
(* at any time, and the server stops the strategy once.                    *)
(*                                                                         *)
(* Time is left out: a backoff may end, and lastStart be StableAfter ago,  *)
(* at any moment.  Headless mode, lastCrash, logging and the restarting    *)
(* and restarted events are left out; a Launch may always fail, and does   *)
(* when every id is used.                                                  *)
(***************************************************************************)
EXTENDS InstanceLifecycle, Integers

CONSTANTS
  MaxRestarts,     \* config.MaxRestarts: no limit unless it is positive
  InitBackoff, MaxBackoff,
  Width,           \* bits of an integer (time.Duration)
  Starter,         \* the goroutine of launchInitial
  NoInstance

ASSUME AutorestartAssumption ==
  /\ MaxRestarts \in Int
  /\ InitBackoff \in Nat \ {0} /\ MaxBackoff \in Nat \ {0}
  /\ Width \in Nat \ {0}
  /\ Starter \notin Instances /\ NoInstance \notin Instances

Goroutines == Instances \cup {Starter}

VARIABLES
  managed,         \* instanceID
  restartCount, restarting,
  deliberate,      \* set by Stop, which cancels ctx with it
  handler,         \* what each goroutine does next for the strategy
  attempt,         \* handleCrash's count, until its wait is over
  old, fresh,      \* the instance restartInstance stops, and the launched one
  relaunches       \* restarts counted and recorded since restartCount was last reset

stateVars == <<managed, restartCount, restarting, deliberate>>
callVars == <<handler, attempt, old, fresh>>
vars == <<lifecycleVars, stateVars, callVars, relaunches>>

Init ==
  /\ LifecycleInit
  /\ managed = NoInstance /\ restartCount = 0
  /\ restarting = FALSE /\ deliberate = FALSE
  /\ handler = [g \in Goroutines |-> IF g = Starter THEN "launch" ELSE "none"]
  /\ attempt = [i \in Instances |-> 0]
  /\ old = [i \in Instances |-> NoInstance]
  /\ fresh = [g \in Goroutines |-> NoInstance]
  /\ relaunches = 0

Goto(g, label) == handler' = [handler EXCEPT ![g] = label]

(* Two's complement, and Go's shift and product of two durations.          *)
Wrap(n) == ((n + 2 ^ (Width - 1)) % 2 ^ Width) - 2 ^ (Width - 1)
ShiftOne(n) == IF n >= Width THEN 0 ELSE Wrap(2 ^ n)

BackoffSlip(count) ==
  LET doubled == Wrap(InitBackoff * ShiftOne(count))
  IN IF doubled > MaxBackoff THEN MaxBackoff ELSE doubled

Backoff(count) ==
  LET doubled == Wrap(InitBackoff * ShiftOne(count - 1))
  IN IF doubled > MaxBackoff THEN MaxBackoff ELSE doubled

HasRestartLimit == MaxRestarts > 0

ExhaustedSlip(i) == HasRestartLimit /\ attempt[i] > MaxRestarts + 1

Exhausted(i) == HasRestartLimit /\ attempt[i] > MaxRestarts

----------------------------------------------------------------------------------
(* The orchestrator's side: what happens to instances of itself, or by the *)
(* Stop calls of users.                                                    *)

(* An event of a crash enters handleEvent; a started one is ignored.       *)
Settles(i) ==
  /\ handler[i] = "none"
  /\ \/ Ready(i) /\ UNCHANGED handler
     \/ Failed(i) /\ Goto(i, "event")
     \/ Exited(i) /\ Goto(i, "event")
  /\ UNCHANGED <<stateVars, attempt, old, fresh, relaunches>>

UserStop(i) ==
  /\ StopAsked(i) \/ StopFailed(i) \/ Removed(i)
  /\ UNCHANGED <<stateVars, callVars, relaunches>>

----------------------------------------------------------------------------------
(* handleEvent and handleCrash, in the monitor of instance i.              *)

IgnoredSlip(i) == restarting \/ deliberate

Ignored(i) == managed # i \/ restarting \/ deliberate

HandleEvent(i) ==
  /\ handler[i] = "event"
  /\ Goto(i, IF Ignored(i) THEN "none" ELSE "crash")
  /\ UNCHANGED <<lifecycleVars, stateVars, attempt, old, fresh, relaunches>>

HandleCrash(i) ==
  /\ handler[i] = "crash"
  /\ \/ /\ deliberate
        /\ Goto(i, "none")
        /\ UNCHANGED <<restarting, restartCount, attempt>>
     \/ /\ ~deliberate
        /\ restarting' = TRUE
        /\ restartCount' = restartCount + 1
        /\ attempt' = [attempt EXCEPT ![i] = restartCount + 1]
        /\ Goto(i, "backoff")
  /\ UNCHANGED <<lifecycleVars, managed, deliberate, old, fresh, relaunches>>

GiveUpSlip(i) ==
  /\ handler[i] = "backoff" /\ Exhausted(i)
  /\ Goto(i, "none")
  /\ attempt' = [attempt EXCEPT ![i] = 0]
  /\ UNCHANGED <<lifecycleVars, stateVars, old, fresh, relaunches>>

(* Past the limit: instance.crashed is emitted and nothing is launched.    *)
GiveUp(i) ==
  /\ handler[i] = "backoff" /\ Exhausted(i)
  /\ restarting' = FALSE
  /\ Goto(i, "none")
  /\ attempt' = [attempt EXCEPT ![i] = 0]
  /\ UNCHANGED <<lifecycleVars, managed, restartCount, deliberate,
                 old, fresh, relaunches>>

(* The wait ends, or Stop ends it: then restarting is left as it is.       *)
BackoffEnds(i) ==
  /\ handler[i] = "backoff" /\ ~Exhausted(i)
  /\ \/ Goto(i, "restart")
     \/ deliberate /\ Goto(i, "none")
  /\ attempt' = [attempt EXCEPT ![i] = 0]
  /\ UNCHANGED <<lifecycleVars, stateVars, old, fresh, relaunches>>

----------------------------------------------------------------------------------
(* restartInstance and launchInitial.                                      *)

(* The context is looked at, the old instance's id read, and Orchestrator. *)
(* Stop called for it.                                                     *)
RestartBegin(i) ==
  /\ handler[i] = "restart"
  /\ \/ /\ deliberate
        /\ restarting' = FALSE
        /\ Goto(i, "none")
        /\ UNCHANGED <<lifecycleVars, old>>
     \/ /\ ~deliberate /\ managed \notin listed
        /\ Goto(i, "launch")
        /\ UNCHANGED <<lifecycleVars, restarting, old>>
     \/ /\ ~deliberate /\ managed \in listed /\ status[managed] = "stopped"
        /\ Removed(managed)
        /\ Goto(i, "launch")
        /\ UNCHANGED <<restarting, old>>
     \/ /\ ~deliberate /\ managed \in listed
        /\ StopAsked(managed)
        /\ old' = [old EXCEPT ![i] = managed]
        /\ Goto(i, "stopping")
        /\ UNCHANGED restarting
  /\ UNCHANGED <<managed, restartCount, deliberate, attempt, fresh, relaunches>>

(* That Stop removes the instance, finds it removed, or fails: its error   *)
(* is only logged.                                                         *)
RestartStopped(i) ==
  /\ handler[i] = "stopping"
  /\ \/ Removed(old[i])
     \/ old[i] \notin listed /\ UNCHANGED lifecycleVars
     \/ StopFailed(old[i])
  /\ old' = [old EXCEPT ![i] = NoInstance]
  /\ Goto(i, "launch")
  /\ UNCHANGED <<stateVars, attempt, fresh, relaunches>>

(* A new id; which of those never used is of no account.                   *)
Unused == {i \in Instances : status[i] = "absent"}
NewId == CHOOSE i \in Unused : TRUE

(* Launch enters a new instance, whose monitor runs from then on.          *)
Launch(g) ==
  /\ handler[g] = "launch" /\ Unused # {}
  /\ Launched(NewId)
  /\ fresh' = [fresh EXCEPT ![g] = NewId]
  /\ Goto(g, "record")
  /\ UNCHANGED <<stateVars, attempt, old, relaunches>>

(* No retry: only another event of the old instance would bring one.       *)
LaunchFails(g) ==
  /\ handler[g] = "launch"
  /\ restarting' = IF g = Starter THEN restarting ELSE FALSE
  /\ Goto(g, "none")
  /\ UNCHANGED <<lifecycleVars, managed, restartCount, deliberate,
                 attempt, old, fresh, relaunches>>

(* launchInitial returns at once when the strategy has been stopped.       *)
LaunchInitialSkipped ==
  /\ handler[Starter] = "launch" /\ deliberate
  /\ Goto(Starter, "none")
  /\ UNCHANGED <<lifecycleVars, stateVars, attempt, old, fresh, relaunches>>

RecordSlip(g) ==
  /\ handler[g] = "record"
  /\ restarting' = IF g = Starter THEN restarting ELSE FALSE
  /\ relaunches' = IF g = Starter \/ restartCount = 0 THEN relaunches ELSE relaunches + 1
  /\ fresh' = [fresh EXCEPT ![g] = NoInstance]
  /\ Goto(g, "none")
  /\ UNCHANGED <<lifecycleVars, managed, restartCount, deliberate, attempt, old>>

Record(g) ==
  /\ handler[g] = "record"
  /\ managed' = fresh[g]
  /\ restarting' = IF g = Starter THEN restarting ELSE FALSE
  /\ relaunches' = IF g = Starter \/ restartCount = 0 THEN relaunches ELSE relaunches + 1
  /\ fresh' = [fresh EXCEPT ![g] = NoInstance]
  /\ Goto(g, "none")
  /\ UNCHANGED <<lifecycleVars, restartCount, deliberate, attempt, old>>

----------------------------------------------------------------------------------
(* stabilityLoop, and the strategy's Stop.                                 *)

(* The last start is StableAfter ago.  Whether the instance still runs, or *)
(* is being restarted, is not looked at.                                   *)
ResetCount ==
  /\ restartCount > 0 /\ ~deliberate
  /\ restartCount' = 0 /\ relaunches' = 0
  /\ UNCHANGED <<lifecycleVars, managed, restarting, deliberate, callVars>>

StrategyStop ==
  /\ ~deliberate
  /\ deliberate' = TRUE
  /\ UNCHANGED <<lifecycleVars, managed, restartCount, restarting, callVars, relaunches>>

----------------------------------------------------------------------------------
HandlerStep(i) ==
  \/ HandleEvent(i) \/ HandleCrash(i) \/ GiveUp(i) \/ BackoffEnds(i)
  \/ RestartBegin(i) \/ RestartStopped(i)

LauncherStep(g) == Launch(g) \/ LaunchFails(g) \/ Record(g)

Next ==
  \/ \E i \in Instances : Settles(i) \/ UserStop(i) \/ HandlerStep(i)
  \/ \E g \in Goroutines : LauncherStep(g)
  \/ LaunchInitialSkipped
  \/ ResetCount \/ StrategyStop

(* A goroutine in the strategy's code runs on; nothing else has to happen. *)
Fairness ==
  /\ \A i \in Instances : WF_vars(HandlerStep(i))
  /\ \A g \in Goroutines : WF_vars(LauncherStep(g))

Spec == Init /\ [][Next]_vars /\ Fairness

==================================================================================

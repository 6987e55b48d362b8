# PinchTab in TLA+

PinchTab is an HTTP server that drives Chrome for agents. A *bridge* process owns
one browser and its tabs; an *orchestrator* launches bridges, or attaches ones that run
elsewhere, watches them and routes requests to them; *strategies* restart the ones that
crash; *sessions* say which agent a request is of; a *scheduler* queues tasks and sends
them to the bridge that owns the task's tab. This directory models the concurrent core of
that program: TLA+ modules translated from the Go source, TLC configurations that check
them on small instances, and TLAPS proofs of what holds for every instance.

Modelled are the task scheduler, the orchestrator with managed and attached instances, the
restart strategies, agent sessions with the routing that depends on them, and the tab
manager of a bridge with its popup guard. The inventory lists the other components, and the
plan says what could follow.

## Inventory

### Task scheduler (`internal/scheduler`) - modelled

- State: the queue (one heap and one in-flight counter per agent, a total count, a
  one-slot wakeup channel), each task's state and times, the map `live` of tasks that
  can be found and cancelled, the map `cancels` of cancel functions, the store of task
  snapshots, the closed/open `stopCh`, the semaphore of webhook deliveries.
- Operations: `Submit`, `Cancel`, `GetTask`, `ListTasks`, `Stop`; the goroutines
  `worker` (`dispatch`, `executeTask`), `deadlineReaper`, and the store's eviction.
- Interaction: calls the tab's instance over HTTP (`executeTask`), delivers webhooks,
  is called by HTTP handlers.
- Hard: six kinds of processes change one task. There is no lock around a task's
  way through the scheduler: queue, task, `live`, `cancels` and store have a mutex
  each, and every operation passes through several of them.
- Correct when: a task has one owner and one ending, is sent at most once, is never
  lost, counters agree with what they count, workers do not all wait beside work, and `Stop`
  returns and leaves nothing behind.

### Orchestrator and ports (`internal/orchestrator`) - modelled

- State: the table of instances (status, process, ports, URL), the port allocator, a second
  copy of the table in the instance manager's repository.
- Operations: `LaunchWithOptions`, `monitor`, `Stop`, `Shutdown`, `ForceShutdown`,
  `Attach`, `AttachBridge`, `checkAttachedBridgeHealth`, allocation and release of ports.
- Interaction: starts and signals child processes, probes bridges over HTTP, emits events
  to its listeners (its own routing, the strategy, the dashboard).
- Hard: a launch is made of six critical sections and an attach of two to four; processes
  exit at any time; health probes run without locks and their answers are applied late.
- Correct when: one active instance per profile, no two instances on one port, ports come
  back, no process or bridge is forgotten, both tables agree but for steps under way, and
  listeners can rely on the order of an instance's events.

### Restart strategies (`internal/strategy/autorestart`, `alwayson`) - modelled

- State: the managed instance, the restart count, `restarting`, `deliberate`.
- Operations: initial launch, event handler, crash handling with backoff, restart,
  stability loop, `Stop`.
- Interaction: listens to the orchestrator's events in the goroutine that emits them; calls
  its `Stop` and `Launch`.
- Hard: flags are looked at and set in different critical sections; events of an instance
  arrive before its identity is stored; a failed restart has no successor.
- Correct when: one restart at a time, not more than the limit without a stable period, each
  after its backoff, each coming to an end, and no instance left running unmanaged.

### Agent sessions (`internal/session`) - modelled

- State: sessions with status and times; a file; lifecycle hooks.
- Operations: create, authenticate, touch, revoke, load, save.
- Hard: hooks run in goroutines of their own; writes may fail silently; a session ends in
  three ways, one of which tells nobody.
- Correct when: a revoked session is never let in again, also after a restart, and nothing is
  remembered of an ended session.

### Request routing (`internal/orchestrator`) - partly modelled

- State (`bindings.go`, `tabs_cache.go`): bindings of sessions and agents to instances, a cache of
  tab lists.
- Operations: precedence of explicit tab, session, agent and fallback; strict routing; the
  bookkeeping of answers; invalidation by events; pruning.
- Interaction: the store's lifecycle hook, the orchestrator's events, the HTTP proxy.
- Hard: a binding is read when a request comes and written when it was answered, and session,
  instance and agent may end in between.
- Correct when: no binding or tab list outlives its session or instance but by what was under
  way, and strict routing does not move a session.
- Left out: the proxy's headers and bodies, the per-instance routes, the limit of 10000
  agents, the expiry of a cached list.

### Tab manager and popup guard (`internal/bridge/tab_*.go`) - partly modelled

- State: the map of tabs (context, auto-close timer and generation), pending clicks and their
  captured popups.
- Operations: `CreateTab` with eviction, `CloseTab`, `TabContext`, adoption of pages the
  manager did not open, `ScheduleAutoClose`/`CancelAutoClose`, the purge after the browser
  reports a page gone, the guard, `autoSwitchSession`.
- Interaction: HTTP handlers, the browser's pages and its target events.
- Hard: every check (tab limit, last tab, timer generation, eviction victim, captured popup)
  is made in one critical section and acted upon in another, and the browser changes
  meanwhile.
- Correct when: the limit is exceeded only by what no count covered, contexts belong to tracked
  tabs, a timer does not close a tab used since, no popup that was kept is forgotten.
- Left out: the current tab and the set of accessed tabs, snapshots and frame scopes, tab
  policies, the scripts that watch `window.open`; `CleanStaleTabs`, which nothing starts.

### Bridge lifecycle (`internal/bridge/bridge_lifecycle.go`) - not modelled

- State: `initialized`, `draining`, the browser's contexts, the temporary profile.
- Operations: `EnsureChrome`, `RestartBrowser`, `Cleanup`, crash handling.
- Hard: the drain of a restart sleeps without the lock.
- Correct when: one browser per bridge, none leaked, none torn down while in use.

### Tab executor, tab locks, dialogs (`internal/bridge/tabs`) - not modelled

`TabExecutor.Execute` has no caller outside tests, so the mutexes and slots it would take are
never taken. A lease of `LockManager` and a pending dialog are read and written in single
critical sections, and leave nothing to interleave.

### Not modelled, and why

HTTP handlers, dashboard, MCP server, CLI and daemon decode, authorise and encode around
the components above. Browser actions, network observation, stealth and runtime setup are
sequences of DevTools commands whose state is the browser's. The lightweight engine, the
autosolver and the guards are mostly pure functions of page content. Dashboard browser
sessions, profiles, saved state and configuration are maps and file formats behind one lock
each. `ReloadConfig` and `ConfigWatcher` of the scheduler, and `UpdateConfig` of the session
stores, have no caller outside tests. Other allocation strategies choose an instance and keep
nothing. `PROJECT.json` lists each of them. Since most of the repository is of these kinds,
the modelled files are a small part of its lines, and most of its concurrency.

## Modules

| Module | What it is | Source |
| --- | --- | --- |
| `TaskState` | the states of a task and the legal transitions | `task.go` |
| `TaskLifecycle` | abstract specification: what is promised of one task | - |
| `TaskQueue` | the queue; one operator per operation, one critical section each | `queue.go` |
| `Scheduler` | the whole scheduler, `Spec` and `FairSpec` | `scheduler.go`, `results.go`, `webhook.go` |
| `SchedulerProperties` | safety, action, liveness and refinement properties; statements of the documentation | - |
| `SchedulerProofs` | the inductive invariant of owners and stages, three theorems and their lemmas | - |
| `SchedulerSafetyProofs` | where tasks and copies of them are, five theorems | - |
| `SchedulerCountProofs` | counters, limits and wakeups, six theorems and lemmas on sums | - |
| `PortAllocator` | the allocator; one operator per operation, one critical section each | `ports.go` |
| `InstanceLifecycle` | abstract specification: what is promised of one managed instance | `orchestrator.go`, `health.go` |
| `Orchestrator` | launches, monitors, `Stop`, `ForceShutdown`, child processes, the registry | `orchestrator.go`, `health.go`, `process.go` |
| `OrchestratorProperties` | types, safety, action and liveness properties, the refinement of `InstanceLifecycle` | - |
| `OrchestratorProofs` | the inductive invariant, eight theorems and their lemmas | - |
| `Attachments` | attached browsers and bridges in the same table, composed with `Orchestrator` (`TableSpec`) | `orchestrator.go`, `health.go` |
| `AttachmentsProperties` | types, the invariant and the liveness property of attached bridges | - |
| `AttachmentsProofs` | what carries over from the managed instances, and the invariant of attached ones | - |
| `Autorestart` | the restart strategies over `InstanceLifecycle` | `restart.go`, `autorestart.go` |
| `AutorestartProperties` | types, safety, action and liveness properties | - |
| `AutorestartProofs` | the inductive invariant, six theorems and their lemmas | - |
| `SessionStore` | the sessions in memory and in the file; one operator per operation | `session/store.go` |
| `Bindings` | the two maps of bindings; one operator per operation | `bindings.go` |
| `SessionRouting` | requests, sessions, bindings, tab lists, over `InstanceLifecycle` | `middleware.go`, `route.go`, `proxy.go`, `session_lifecycle.go`, `orchestrator.go` |
| `SessionRoutingProperties` | types, safety and action properties | - |
| `SessionRoutingProofs` | the invariants, five theorems and their lemmas | - |
| `TabManager` | the tab manager and the popup guard of one bridge | `tab_*.go`, `crash.go` |
| `TabManagerProperties` | types and safety properties | - |
| `TabManagerProofs` | three inductive invariants, five theorems and their lemmas | - |
| `MC...` | TLC's instances: values, scenarios and symmetry | - |

How they compose. `Scheduler` builds on `TaskQueue` and implements `TaskLifecycle`.
`Orchestrator` builds on `PortAllocator` and implements `InstanceLifecycle`; `Attachments`
composes it with attached instances and implements it still. `Autorestart` and
`SessionRouting`, which listen to the orchestrator's events, build on `InstanceLifecycle`
instead of `Orchestrator`: what they are shown to do, they do over the real orchestrator
because that implements the abstract one.

### How `Scheduler` corresponds to the code

Every process (a `Submit` call, a worker, a `Cancel` call, the reaper, `Stop`) has a
program counter `pc`, the task it works on (`cur`), and, inside `ResultStore.Store`, the
snapshot it carries (`snap`) and the label it returns to (`ret`). A `Submit` call is the
process named by its task. One action is what the code does between taking and releasing
one lock (with the local steps next to it), so every interleaving of the critical sections
is a behaviour of the model:

| Code | Actions |
| --- | --- |
| `Submit`: enqueue; on failure reject and store; insert in `live`; store | `SubmitEnqueue`, `SubmitReject`, `SubmitInsert`, then `Store` |
| `worker`: `Dequeue`; block on `stopCh` and `Ready` | `WorkerDequeue`, `WorkerIdle`, `WorkerPark`, `WorkerWake`, `WorkerExit` |
| `dispatch`: assigned; register cancel function; running; deferred cleanup | `WorkerAssign`, `WorkerRegister`, `WorkerRun`, `WorkerUnregister` |
| `executeTask`: send the request or fail before it; answer | `WorkerExec`, `WorkerSettle` |
| `Cancel`: look up and read the state; remove; signal; mark | `CancelLookup`, `CancelRemove`, `CancelSignal`, `CancelMark`/`CancelFails` |
| `deadlineReaper`: take the expired batch; fail them one by one | `ReaperScan`, `ReaperExpire`, `ReaperExit` |
| `Stop`: close; join; drain `live` under `liveMu` | `StopClose`, `StopJoin`, `StopCancels`/`StopUnlist`/`StopSkips`, `StopDone` |
| `ResultStore.Store`: copy the task; write the copy | `StoreSnap`, `StorePut`, or `StoreAtOnce` |
| `finishTask`: store; `Complete`; forget and launch the webhook | `Store`, `FinishComplete`, `FinishForget` |
| eviction ticker; return of a webhook delivery; `ensureRunning` | `Evict`, `WebhookReturns`, `Start` |

The abstractions, and why they lose nothing the properties speak of:

- Time is absent. A deadline in `Expiring` or the TTL of a result in `Evictable` may pass
  at any moment, and a ticker may fire at any moment. This is more than the code can do.
- A heap is a set: `Dequeue` takes any task of lowest priority number of an eligible agent
  with fewest tasks in flight. The code breaks ties by creation time.
- A worker at label `wait` is in its select: `select` tells whether it has not blocked yet
  (`away`), is `parked`, or was taken out of it by a send (`sent`) or by the close of `stopCh`
  (`closed`). As in Go, a send hands its token to a parked worker, is kept in the one slot when
  no worker is parked, and is dropped when the slot is full; only workers that have not blocked
  yet can miss a token.
- The send on the `notify` channel follows the unlock in the code; here it is part of the
  operation. Between the two in the code the sender has the token still to give, and when it gives
  it the channel holds one or a worker was handed one, as after the step of the model.
- `SplitStore` chooses between the two critical sections of `Store` and one step. Only
  `Evict` reads what is stored, and no process' way depends on it, so runs whose properties
  do not mention `results` take it as one step. The proofs are for both.
- Results, errors, metrics and log lines are left out. A response is success or failure.
- `Submit` on a scheduler that was already stopped is not enumerated apart: `SubmitEnqueue`
  is not disabled by `stopCh`, exactly like the code.

### How `Orchestrator` corresponds to the code

A launch call is named by the instance it makes, for `InstanceID` hashes the name and the
time and is taken to be unique. Its locals (the port, the debug port, `reservedPorts`) are
the fields `port` and `cdpPort`; until the call inserts its instance they are reservations
its deferred function gives back. A `Stop` call is a process of `Stoppers`.

| Code | Actions |
| --- | --- |
| `LaunchWithOptions`: port; check under `o.mu`; debug port; directories, configuration and `runner.Run`; insertion; deferred release | `LaunchReserve`, `LaunchCheck`, `LaunchDebugPort`, `LaunchRun`, `LaunchInsert`, `LaunchAbort` |
| `AllocatePort`, `ReservePort`, `ReleasePort` | `AllocatePort`/`AllocateFails`, `ReservePort`/`ReserveFails`, `ReleasePorts` |
| `monitor`: start-up loop; outcome under `o.mu`; the process's end | `Observe`, `Settle`, `Reap` |
| `Stop`: status; waits after the shutdown request, SIGTERM, SIGKILL; `setStopError` | `StopBegin`, `StopExited`, `StopEscalate`, `StopGiveUp` |
| `markStopped`: ports and table under `o.mu`; then the registry | `MarkStopped`, `Unregister` |
| `StopProfile`, `Shutdown`: `Stop` for each active instance of a snapshot | `StopBegin`, by several Stoppers |
| `ForceShutdown` | `ForceShutdown`, then `MarkStopped`, `Unregister` |
| the child process, which is not code of the orchestrator | `ProcessListen`, `ProcessExit` |

The abstractions:

- Time is absent: the start-up timeout and the waits of `Stop` may end at any moment, and a
  process may live through SIGKILL for as long as it likes.
- A child opens both its ports at once, and ends if it cannot. `Foreign` are ports that
  other programs hold throughout. A port another program takes later shows as a child that
  exits.
- The two `ReleasePort` calls of one release are one step. Between them a concurrent search
  could only see fewer free ports, which a search at an earlier moment also does.
- A health probe asks a port, so `Observe` takes an answer from whatever listens there, the
  child or another program.
- An event is the step that decides it (`announced`); the code calls the handlers right
  after it releases the lock. What they do with it is modelled in `Autorestart` and
  `SessionRouting`.
- `registry` is the set of ids in `instanceMgr.Repo`, which holds pointers to the table's
  instances, so their status is shared.
- Configuration files, profile directories, temporary profiles and the search for leftover
  Chrome processes are left out. `SetPortRange` replaces the allocator before any launch.

### How `Attachments` corresponds to the code

The orchestrator keeps managed and attached instances in one map. Here the managed entries are
the variables of `Orchestrator` and the attached ones have variables of their own. They meet
where both look for the holder of a name, which `NameFree` does for an attach and `Composed`
for a launch.

| Code | Actions |
| --- | --- |
| `attachExternalInstance`: holder of the name, in place update or refusal under `o.mu` | `AttachNew`, `AttachUpdate`, `AttachRefused` |
| the same: insertion under `o.mu`; `syncInstanceToManager` after it | `AttachEnter`, `AttachSync` |
| `AttachBridge`: start of the health check, if the entry is still there | `AttachWatch` |
| `checkAttachedBridgeHealth`: give up or read the URL; probe; take the answer or remove | `ProbeBegin`, `ProbeHealthy`, `ProbeFails`, `WatcherRemoves`, `WatcherForgets` |
| `Stop` of an attached instance: status; shutdown request; `markStopped` | `DetachBegin`, `DetachAsked`, `DetachRemoves`, `DetachForgets` |
| `ForceShutdown` | `ForceDetach`, then the removal |
| the bridges that run elsewhere | `OriginChanges` |

Calls that the attach policy, the transaction policy or the first probe refuses change nothing
and are left out, and so is the token: an update may find it right or wrong.

### How `Autorestart` corresponds to the code

`emitEvent` calls its listeners in the emitting goroutine, so a crash is handled, with backoff,
`Stop` and `Launch`, by the monitor of the instance that crashed. The processes are therefore
the instances' monitors and the goroutine of `launchInitial` (`Starter`).

| Code | Actions |
| --- | --- |
| `handleEvent`: the looks under the lock | `HandleEvent` |
| `handleCrash`: count; give up; wait | `HandleCrash`, `GiveUp`, `BackoffEnds` |
| `restartInstance`: `Stop` of the old instance; `Launch`; recording | `RestartBegin`, `RestartStopped`, `Launch`, `LaunchFails`, `Record` |
| `launchInitial` | `LaunchInitialSkipped`, `Launch`, `LaunchFails`, `Record` |
| `stabilityLoop` | `ResetCount` |
| `Stop` of the strategy | `StrategyStop` |
| the orchestrator; `Stop` calls of users | `Settles`, `UserStop` |

Time is absent: a backoff may end, and the last start be a stable period ago, at any moment.
The doubling of the backoff is computed in integers of `Width` bits, as Go does.
A crash during the wait before `restarting` is set, a Stop by the user in any state, a failed
launch and a failed Stop are all behaviours of the model. The `always-on` strategy is the same
code without a limit, which is the instance of the run `overflow`.

### How `SessionRouting` corresponds to the code

A request (`request`) has a program counter, who it is of, the instance it is going to, and the
binding it found. `SessionStore` and `Bindings` have one operator per method, each under the
lock of its map.

| Code | Actions |
| --- | --- |
| `Store.Create`, `Revoke`; `authenticate`, `Touch` (called by the middleware) | `CreateSession`, `RevokeSession`, `Authenticate`, `AuthenticateExpires`, `Touch` |
| `dispatchLifecycle`, `SessionLifecycleHook` | `Dispatch`, `Hook` |
| agents that come with the server's token | `AuthenticateAgent` |
| `WrapShorthand`, `allowCrossInstance`, `resolveIdentityBinding`, `routeToInstanceID`, the strategy's fallback | `Route`, `LookSession`, `LookAgent`, `Check`, `Fallback` |
| `handleProxyResponseHeaders` | `Answer`, `Bind`, `BindTheAgent` |
| `instanceTabsCached` | `ReadTabs`, `StoreTabs` |
| the orchestrator's own listener | `HandleEvent` |
| `RunMaintenance` | `AgentRests`, `Prune` |
| the orchestrator and the child processes | `Launch`, `Change`, `Die` |
| the end of the server and its next start (`NewStore`, `loadPersisted`) | `Restart` |

The abstractions:

- Times are the two facts whether a session is past a deadline (`lapsed`) and whether an agent
  has rested for the idle time (`idle`); time may pass either at any moment.
- A write of the file succeeds or is lost (`Save`); the code ignores the error. The file is
  written under a temporary name and renamed, so it is never torn.
- A tab may be found on any listed instance that has started: the locator's own cache is
  abstracted to that. `FirstRunningURL` takes the running instance that was started first; in
  the model the fallback may choose any running one, which is more.
- A port is one instance's, unless the configuration is `shared`: then all instances have one
  port, each launched when no earlier one has a live process. That is an explicit port that is
  requested again, and an allocated one that `markStopped` released and a later launch was given.
  An answer may then be booked to any listed instance.
- `quiet` and `belated` are history: what the properties allow as exceptions. No action
  depends on them.

### How `TabManager` corresponds to the code

A call is a request or an expired timer; its record holds where it is, the tab it is for, the
page it works on, the victim of an eviction and the context it opened. The code between two
lock regions, or between two answers of the browser, is one action.

| Code | Actions |
| --- | --- |
| `CreateTab`: limit; page and context; set-up; insertion | `Count`, `Make`, `Setup`, `Insert` |
| `closeOldestTab`, `closeLRUTab`, `enforceAdoptTabLimit` | `Count`, `Choose`, then a `CloseTab` |
| `CloseTab`: last page; lookup; the browser's answer; purge | `List`, `Lookup`, `Close`, `Find`, `Drop` |
| `TabContext`, `adoptExistingTarget` | `Resolve`, `Adopt`, `Attach`, `Insert`, `Reread` |
| the crash monitor's purge | `PurgeFind`, `PurgeDrop` |
| `ScheduleAutoClose`, `CancelAutoClose`, `autoCloseFire` | `ScheduleAutoClose`, `CancelAutoClose`, `Expire`, `Fire`, `FireStale` |
| the popup guard, `claimPendingPopup`, `closePopupTarget` | `ClaimPendingPopup`, `GuardPopup`, `Shut` |
| `autoSwitchSession` | `MarkPendingClick`, `TakePopup`, `ClearAfterPopup`, `GiveUp` |
| the browser and its user | `PageDies`, `PopupOpens` |

The abstractions:

- The order of creation and use is left out: any tracked tab may be the victim of an eviction.
- A tab's id is its page's. The browser's blank first page is there and is never tracked.
- Cancelling a context may make chromedp close the page: `PageDies` covers that.
- A popup's creation and the guard's hearing of it are two steps, as target events are
  asynchronous. `MonitorCrashes` is taken to be active.
- `covered` and `excess` are history for `ExcessCovered`; no action depends on them.

A definition named `...Slip` is what a plausible mistake (a dropped guard, a forgotten
notification, an off-by-one) would make of the definition below it. No specification uses
one; `PROJECT.json` pairs each with the property that must notice it.

## Runs

`CHECK_DEADLOCK FALSE` is set in all runs: a scheduler whose tasks have all ended or that was
stopped, and an orchestrator, strategy, server or bridge whose calls were all made and whose
instances, sessions or pages have ended, have nothing to do and really stop.

| Run | Module | Instance | Shows |
| --- | --- | --- | --- |
| `safety` | `MCScheduler` | 2 tasks of one agent, 2 workers, 1 Cancel call, both tasks may expire, both have a webhook, 1 webhook slot | types, one owner per task, no task lost, findability, in-flight accounting, no lost wakeup, `live` drops only ended tasks, the lifecycle refinement |
| `limits` | `MCScheduler` | 3 tasks of 2 agents, 2 workers; queue of 2, one queued and one in flight per agent | the limits and the total count |
| `liveness` | `MCScheduler` | 2 tasks of one agent, 1 worker, `Stop`, evictions, `Store` in two steps; one in flight | admitted tasks end, `Stop` returns, nothing accepted before it is left, the store shows no false ending |
| `overrun` | `MCScheduler` | 3 tasks of one agent, limit 1, 2 workers, 1 Cancel call | **violated**: the per-agent limit of the documentation |
| `unreached` | `MCScheduler` | 2 tasks, 2 workers, 1 Cancel call | **violated**: Cancel reaches the request |
| `launches` | `MCOrchestrator` | 2 launches, 2 profiles, ports 1 to 3, requests for any port, for 2 and for 9 (outside the range), 1 Stop process | types, port accounting, exclusive ports, exhaustion reported only when real, no forgotten process |
| `profile` | `MCOrchestrator` | 2 launches of one profile | **violated**: one active instance per profile |
| `endings` | `MCAttachments` | one of four scenarios: a launch and 2 Stop processes; 2 calls for bridges and a Stop; a bridge, a browser and a Stop; a launch and a browser of one name. 2 URLs, ports 1 to 3 of which 3 is taken | the registry follows the table, a Stop is not undone and ends, start-up ends, exits are announced, the lifecycle refinement, no bridge unwatched, dead bridges leave |
| `restart` | `MCAutorestart` | 4 instance ids, 2 restarts allowed, backoff 2 to 3 in integers of 4 bits | one restart at a time, a bounded number of them, none forgotten, each after its wait, each comes to an end |
| `overflow` | `MCAutorestart` | 4 instance ids, no limit on restarts, backoff 2 to 3 in integers of 4 bits | **violated**: every restart waits between the initial and the maximal backoff |
| `tabs` | `MCTabManager` | 3 calls and 4 pages with a limit of 1 that rejects; the same with one that evicts, and idle timers; 2 calls, 3 pages and the popup guard | the limit is exceeded only by uncovered insertions, contexts and timers belong to their tabs, popups are not dropped |
| `sessions` | `MCSessionRouting` | one session and one agent, 1 restart; one request with sessions that end; one request with 2 instances on one port; 2 requests, strict, 2 instances; 2 requests, tab lists | ended sessions and ended instances are forgotten, revoked sessions stay out, strict routing does not move a session |

Why these bounds. The scheduler's properties relate at most two tasks and at most three
processes that touch one task (its worker, a canceller, the reaper or `Stop`), and each process
has a bounded way through the scheduler, so two tasks give every pair of stages. Two workers
give every pair of workers and the case of one blocked and one busy. A third task is only
needed where a full queue and full in-flight limits must occur together (`limits`) or where
a slot must be given back while it is used (`overrun`). One Cancel call is enough for a
property that speaks of the task it cancels, and the proofs cover any number of them.
`Cancel` is left out of `limits` since the limits do not hold with it, which `overrun` shows.
The symmetry sets (tasks of equal agent and priority, workers) are used in runs of safety
properties only.

For the orchestrator: ownership of ports and processes relates two launches at a time. Three
ports are too few for two launches that take both their ports from the range, and enough when
one asks for a port outside it, so two live instances, conflicts, exhaustion and wrap-around
all occur. What `endings` says is of one managed instance or of one bridge. Two Stop calls are
needed: a second `Stop`, or `ForceShutdown`, may come while the first waits, and when the first
gives up. A Stop process serves any number of calls in turn, so a failed Stop is followed by
another. A bridge needs a second call to be updated while it is probed or stopped, and a second
URL to be updated to. The scenarios choose which calls are made in one behaviour, since
the managed and the attached instances meet only at names, which the last scenario covers.

`restart`: the properties relate an instance, the one that replaces it, and the count. With two
restarts allowed, four ids give the first launch, both restarts and a further one, which only a
reset may bring. The second wait is doubled and capped; the third would overflow the four bits,
which is what happens in `overflow`. With 64 bits it is the 34th.

`tabs`: a race for the limit takes two calls that count before either inserts, and an adoption
that is not counted at all takes a third; three pages beside the blank one give a tab for each.
A timer that fires late needs the request that armed it, one that uses the tab again, and the
callback, which is a call too. Popups have a configuration of their own, as a click, its
displacement and one popup in flight are two calls and three pages. `sessions`: the properties
are of one session, agent or instance against one request under way, and of two requests where
bindings move. `happens` and `managed` choose what occurs in each configuration.

### Fairness

`FairSpec` assumes weak fairness of what the Go runtime schedules: a goroutine that can go
on eventually does (each worker, the reaper, `Stop`), and a `Submit` or `Cancel` call that
began returns. It is enough because no action is disabled again and again while its process
waits, except the acquisition of `liveMu` (held only by `Stop`, which never gives it back
before it is through) and the wait for a token, where the liveness property itself shows
that tokens come. `WorkerSettle` is fair because the HTTP client has a timeout and the
context a deadline. Nothing is assumed of the environment: nobody has to submit, cancel or
stop, no deadline has to pass, no webhook has to return.

`Spec` of the orchestrator assumes the same of its goroutines: a launch call that began, a
monitor, and a Stop call in progress go on. The bounded waits make this enough. No fairness
is assumed of children: they need not open their ports, answer, or exit.

`TableSpec` keeps that fairness for the managed instances and adds the same for the attached
ones: an attach call that began, a Stop call and the health check of a bridge go on. A probe has
a timeout and the request for a shutdown a context of four seconds, so none waits for a bridge
for ever. The bridges themselves may end and come back as they like.

`Spec` of `Autorestart` is fair to each goroutine while it is in the strategy's code: waits are
bounded, `Stop` and `Launch` return. That instances crash, that a stable period passes or that
anybody stops anything is not assumed. The tab manager and session routing are checked for
safety only: what ends their calls is the browser and the HTTP timeouts.

## Proofs

For every safety property of a passing run, invariants and action properties alike, there is a
theorem. All but two hold for all values of the constants that the modules' assumptions admit.
`WaitsBeforeRestart` is proved where the initial backoff is at most the maximal one and the
doublings up to the limit fit the integer (`WaitsWithinLimit`), and is false elsewhere (`overflow`). `RunningWithinLimits` is proved as long
as neither Cancel nor an expiry completes a task (`LimitsUntilCancelled`, `Limits`), and is false
otherwise (`overrun`). The proofs are about the same modules TLC checks, and the inductive
invariants hold in TLC's instances too.

### Scheduler

`SchedulerProofs` proves, for any finite sets of tasks and workers, any Cancel calls, any
limits and both forms of `Store`:

- `TypeCorrect`: `Spec => []TypeOK`. Not only types: a process has a task exactly at the
  labels that need one, and returns from `Store` only to where its kind may go on.
- `Ownership`: `Spec => []SingleOwner`.
- `Implementation`: `Spec => ImplementsLifecycle`. Every step of the scheduler is a step of
  `TaskLifecycle` or leaves `state` and `attempts` alone.

They rest on the assumptions `QueueAssumption` and `SchedulerAssumption` (the processes are
distinct, tasks and workers are finite, limits are positive), which TLC evaluates in
every run.

`SingleOwner` is not inductive: a step can only be seen to keep it if a task that is handed
on cannot also be somewhere it was never supposed to be. The invariant `IInv` adds

- `Unsubmitted`: a task has state `none` exactly while its `Submit` call has not begun, and
  `Busy`: no task of state `none` is in the queue, the reaper's batch, `live` or in the hands
  of a process (otherwise `SubmitEnqueue` would give a task a second owner);
- `Unsent`: a task that was not submitted, or is queued, has not been sent, and a queued
  task is at most cancelled (otherwise `WorkerExec` could send it a second time);
- `Stages`: a worker's label bounds the state and the number of requests of its task: at
  `assign` it is queued or cancelled, at `run` assigned or cancelled, at `exec` and `await`
  running or cancelled, and up to `exec` it was not sent. This is what makes the errors of
  `SetState` that `dispatch` ignores harmless: where one is ignored, the task was cancelled.

Each part has a lemma that every step keeps it (`DataStep`, `ProcsStep`, `OwnerStep`, ...),
with one proof step per action that touches it; `Invariance` combines them. `LifecycleStep`
uses `Stages` to show that `WorkerAssign`, `WorkerRun`, `WorkerExec` and `WorkerSettle` are
the abstract `Advance`, `Send`, `Succeed` and `Fail`, or change nothing.

**Where tasks are** (`SchedulerSafetyProofs`). `NoneLost` (`NoTaskLost`), `AcceptedFound`
(`AcceptedIsFindable`), `StoredEnds` (`StoredEndIsTrue`), `LiveDrops` (`LiveDropsOnlyTerminal`) and
`StopSettles` (`StopLeavesNothing`, which is a safety property: it says what holds when `Stop`
returns, not that it does). The invariant `TaskInv` adds to `IInv`

- `Ended`: whoever calls `Complete`, forgets a task or takes it out of `live` does so with a task
  that has ended, also when it passes through `Store` on the way (`At` is the label a process goes
  on to);
- `Expired`: what the reaper took out of the queue nobody has moved on, so its `SetState` fails
  only for a task that a Cancel call ended;
- `Findable`: after its insertion a task is in `live` until it ends, so also while `Submit` is still
  storing it. `AcceptedIsFindable` alone is not inductive: it says nothing before `Submit` returns;
- `CopiedEndIsTrue`: a copy of an ended task that is still to be written shows how it ended. With
  `EndsAreFinal`, no copy that is written late can turn one ending into another.

`StopSettles` follows from that and from `DownMeansDrained`: `Stop` leaves its loop with `live`
empty, and a task that is in `live` when it begins stays there until it ends.

**Counters** (`SchedulerCountProofs`). `CountMatches` (`CountMatchesQueue`), `NeverOvercounts`
(`InflightNeverOvercounts`), `CountersLimited`, `Wakeups` (`NoLostWakeup`), `LimitsUntilCancelled`
and `Limits` (`RunningWithinLimits`).

- `Dequeue` compares the sum of the counters with `maxInflight`. The sum is a fold, defined by
  recursion; `SumIsCount` shows that it is the number of pairs of an agent and a positive number up
  to its counter, so that what a step does to the sum follows from facts about finite sets. Its
  induction is over the subsets of a finite set (`NoBadSubset`: the strict-subset ordering is
  well-founded, so a least subset for which the two differ would need one with an element less).
- `HoldersMove` and `QueueMoves` sort the steps: a worker takes a task (the counter goes up and the
  worker holds it), somebody completes one (the counter goes down by one or stays at 0), or neither
  counter nor holders change.
- `Awake`: while the queue is not empty and all workers are at their select, the channel holds a
  token or a parked worker was handed one (`SelectStep` is what a step does to the selects). It is
  stronger than `NoLostWakeup`, which asks for an eligible agent, and is what is inductive:
  with no worker holding a task the counters are 0, so every queued task is eligible and none was
  passed over for good.
- The documented limits on executing tasks are not theorems of `Spec`: the run `overrun` violates
  one of them, as `Cancel` and the reaper call `Complete` for tasks that were never counted.
  `LimitsUntilCancelled` proves them for every behaviour in which only workers have done so
  (`OnlyWorkersComplete`), where the counters are exact; `Limits` for instances without Cancel
  calls and queue deadlines, as `limits` has. `CountersLimited`, that the counters themselves stay
  within their limits, needs neither.

### Orchestrator

`OrchestratorProofs` proves, for any sets of launches, Stop calls, profiles and requested
ports and any port range (`PortAssumption`, `OrchestratorAssumption`), every safety property
the passing runs check:

- `Types`: `Spec => []TypeOK`;
- `Accounting` and `Exclusion`: `NoPortLost` and `PortsExclusive`. The allocated ports are
  the disjoint union of what the launches in progress and the entries of the table hold;
- `Exhaustion`: a search that fails has looked at every port of the range;
- `Reachable`, `Registration`: `NoOrphan` and `RegisteredIsTracked`;
- `StopHolds`: the action property `StoppingOnlyEnds`;
- `Refinement`: `Spec => ImplementsLifecycle`, every step is one of `InstanceLifecycle` for the
  instance it is about, or changes neither status, table nor announcements.

`IInv` joins these with what they need:

- `Chosen`: a port is unset until it was chosen, and only launches that are through are in
  the table (so what a call holds changes only by its own steps and by `MarkStopped`);
- `Spawned`: a process exists from `LaunchRun` on;
- `Targets`: a Stop call works on an instance that was inserted, and comes to `markStopped`
  only when its process has ended or was sent SIGKILL;
- `Held` and `Watched`: unless SIGKILL was sent, an instance that a Stop call works on, or
  has removed, is stopping or stopped; that is why its monitor will not register it again.

The steps on ports are reduced to three lemmas on ownership: nobody gains or loses
(`PortsKept`), one launch gains a port nobody had (`PortsGained`), one gives back all it has
(`PortsReleased`). `EveryPortTried` is the modular arithmetic of the wrap-around.

### Attached instances

`AttachmentsProofs` proves, for any calls, names, URLs and Stop processes:

- `ManagedStep`: a step of the composed table is a step of `Orchestrator` or leaves its
  variables alone. The orchestrator's invariant holds therefore (`ManagedInvariance`) and with it
  `TableRegistration`, `TableStopHolds` and `TableRefinement`, which the run `endings` checks on an
  instance, and `TableSafety`: ports, exhaustion and reachability of processes.
- `Watching`: `TableSpec => []BridgesWatched`.

`BridgesWatched` needs to know that a call enters its instance once (`EnteredOnce`: otherwise an
entry could come back after its health check ended) and that an entry marked as stopping has a
Stop that will remove it (`StopsGoOn`: that is what the health check relies on when it gives up).

### Restart strategies

`AutorestartProofs` proves, for any instances and any limit, `Types`, `Alone` (`OneRestart`),
`Budget`, `Ownership` (`NoneAbandoned`), `Waits` and `WaitsWithinLimit`. The invariant:

- `Owner`: while an instance is managed only its monitor is in the strategy's code, and before
  that only `launchInitial`. That alone gives `OneRestart`: the look at `restarting` in
  `handleEvent` is not needed for it;
- `Ended`: a monitor in the strategy's code has announced the end of its instance, so it
  announces nothing else meanwhile;
- `Remembered`, `Attached`: what was launched is remembered until it is recorded, and what may
  still run is managed or about to be;
- `Counted`: the recorded restarts do not outnumber the counted ones.

`Fits(n)` says that `InitBackoff * 2^(n-1)` fits the integer. `BackoffFits` shows that the shift and
the product, both in two's complement, are then that power and that product, so the wait is the
exponential backoff, and `BackoffInRange` that it lies between the two bounds. `Waits` says so of
every wait whose attempt fits, with any limit or none: in 64 bits with 2 s, of the first 33 crashes
in a row. `WaitsWithinLimit` is `WaitsBeforeRestart` for a limit that fits, as no attempt that waits
is beyond the limit. What the powers need (they grow, and each is twice the one before) is got
without induction: `2^n` is the number of subsets of `1..n`.

### Sessions and routing

`SessionRoutingProofs` proves, for any sessions, agents, requests, instances and restarts,
`Types`, `EndedForgotten` (`EndedUnbound`), `EndHandled` (`StoppedForgotten`), `RevokedOut`
(`RevokedStaysOut`) and `StrictlyMoved` (`StrictMoves`). The first three invariants are inductive
with the types. `RevokedOut` needs `Revoked`: the file, unless its last write was lost, holds no
revoked session as active, and a store without a file loads none. `StrictlyMoved` needs
`Faithful`: the binding a request found is where it is sent.

### Tab manager

`TabManagerProofs` proves, for any number of calls and pages and any configurations
(`TabManagerAssumption`), `TypeCorrect` (`TypeOK`) and the four invariants the run checks:

- `Excess` (`ExcessCovered`), with `Covering`: a call whose count covers the tab it will insert has
  room for it (`Room`), or the tab it is evicting is still tracked. A second insertion that takes
  the room is what adds to `excess`.
- `Owners` (`ContextsOwned`) and `OneTimer` (`OneIdleTimer`), from `TabInv`:
  `Numbered` (contexts are numbered per page), `Cancelled` (who is about to remove an entry has
  cancelled its context), `Apart` (two calls hold different contexts of a page), `Owned`, `Fresh`
  (while the only context of a page is in a call's hands, the page has neither entry nor timers;
  a timer is of its entry's generation or an earlier one) and `OneCloser`.
- `Popups` (`PopupsInHand`), from `SlotOK` (a slot belongs to a click that still waits for the
  popups of its tab) and `Held`, which names the steps at which a call has the popup in hand.

`Sound` are the types, with `CallOK`: the label of a call says which of its fields are set. The
lemmas `...Is` say what each way of moving a call does to its record, and `...Does` where each step
starts and what it leaves, so that the invariants need not open the records again. `ConfigKept`,
`BrowserFrame`, `ContextFrame`, `TableFrame` and `ClickFrame` say which steps may change which
variables, so that the type of each variable is proved from the few steps that do. For `TabInv`
every one of the thirty-five steps is of one of seven classes (`ClassifiedStep`): a call opens a
context, gives it back or inserts it; the context of an entry is cancelled, the entry is forgotten,
its timer is set again; or timers expire and fire. Each conjunct is then proved for seven cases.

### Only model-checked

What needs fairness, which the prover cannot reason about: `AdmittedEnds`, `StopTerminates`,
`StartingSettles`, `StopResolves`, `ExitAnnounced`, `DeadBridgeLeaves` and `RestartSettles`. The
violations are TLC's as well: a run shows a behaviour, and no theorem says there is none.

## Where the code differs from its documentation

With a run that shows it (`findings` of `PROJECT.json`): the per-agent limit is exceeded
after a Cancel or an expiry in the queue (`overrun`); Cancel can miss the request
(`unreached`); two launches can start two browsers on one profile (`profile`); without a limit on
restarts the shift of the backoff at `restart.go:86` overflows, so that with 2 s the 34th crash in a
row waits not at all, although `autorestart.go:6` promises exponential backoff (`overflow`).

Met while reading or modelling, without a run. Scheduler and orchestrator:

- `results.go:109`: a rejected task has no completion time and is never evicted, although
  `docs/reference/scheduler.md:46` promises retention for `resultTTLSec`.
- `results.go:60`: an older snapshot may overwrite a newer one, and then stays.
- `scheduler.go:217`: a task that ended before `Submit` inserted it stays in `live` until
  `Stop`, although `scheduler.go:63` describes `live` as queued and in-flight tasks.
- `scheduler.go:306`: workers go on dispatching after `Stop` was called, although
  `scheduler.go:144` says that queued tasks are cancelled.
- `scheduler.go:276`: a task cancelled during its dispatch is finished, and its webhook
  delivered, twice.
- `scheduler.go:465`: the reaper runs every five seconds; `docs/architecture/scheduler.md`
  says every second.
- `orchestrator.go:393`: a requested port outside the range is not recorded, so two
  concurrent launches may both be given it, although `docs/architecture/orchestration.md:54`
  says the launch prevents reusing a port already in use. The second child cannot open it.
- `orchestrator.go:823`: an instance left in error by a failed Stop ends without an
  `instance.stopped` event, so bindings to it are only dropped when they are next read.
- `orchestrator.go:1127`, `health.go:95`: after `ForceShutdown` removed an instance its
  monitor may still register it; likewise after a Stop that gave up while another succeeds.
- `orchestrator.go:668`: an update of an attached bridge registers a copy of the instance
  after releasing the lock, so a removal in between leaves it in the registry as running.
- `health.go:132`: a crashed instance keeps its entry and both its ports until it is stopped.
- `health.go:165`: a healthy answer from the URL a bridge had before an update is written over
  the update (the model's `ProbeHealthy`), although `orchestrator_test.go:513` expects an update
  to succeed. `DeadBridgeLeaves` still holds: the next probe finds the old URL dead or alive.
- `health.go:178`: one failed probe removes the entry, also one that was just updated to another
  URL; nothing attaches it again.
- `orchestrator.go:652`: two attaches, or an attach and a launch, of one name may both find it
  free, for it is entered in a later critical section.

Restart strategies:

- `restart.go:161`: a launch that fails is not tried again, although
  `docs/reference/strategies.md:62` says the instance is kept running until the limit is reached.
- `restart.go:29`: an instance that crashes before its id was recorded is taken for an unmanaged
  one and not restarted.
- A `Stop` by a user is announced like a crash, so the managed instance comes back.
- `restart.go:110`: a wait ended by `Stop` leaves `restarting` set, which only `State` shows.
- `restart.go:191`: the count is reset a stable period after the last start, whether or not the
  instance still runs; a restart under way loses its count.
- A restart under way when the server stops may launch an instance after `Shutdown` made its list.

Tab manager:

- `tab_manager.go:124`: two calls may count before either inserts, and `TabContext` adopts pages
  without counting, so there may be more tabs than `maxTabs`, which
  `docs/reference/config.md:390` and `docs/implementations/parallel-tab-execution.md` describe as
  the total number of tabs. `ExcessCovered` says by how many.
- `tab_adopt.go:109`: two calls may adopt one page; one entry replaces the other, whose context
  stays open, and the new entry counts its timer's generations from 0.
- `tab_cleanup.go:108`: the purge removes the entry a tab has by then, not the one it looked up; a
  tab tracked after the purge of its page stays tracked, as `CleanStaleTabs` is never started.
- `tab_autoclose.go`: a read or an action does not cancel the timer when it starts, and ends by
  arming it while another request may still use the tab; only navigation cancels it.
- `tab_auto_switch.go:331`: a popup captured between the receive and the clearing of the slot, or
  by a click that was displaced, is neither closed nor tracked, although the comment at line 86
  says that the guard closes a second popup.
- `tab_manager.go:234`: the last page is guarded by a count made before the closing.

Sessions and routing:

- `store.go:314`: a revocation whose write fails is answered as done and lost at a restart.
- `store.go:259`: a session that `Touch` finds expired is not announced, so its binding stays,
  although `bindings.go:14` says sessions are evicted promptly. An answer under way when a session
  ends binds it again.
- `orchestrator.go:1007`: a tab list fetched before an instance's end is stored after it.
- `route.go:90`: when the tab is not found and one instance runs, strict routing is not consulted.
- `proxy.go:365`: an answer is booked to any listed instance with the URL's origin; an exited one
  whose explicit port was used again may be taken, or one that was allocated the port of the
  instance asked after that was stopped.
- A request past `Touch` is served although its session is revoked meanwhile.

Bridge lifecycle (not modelled): `bridge_lifecycle.go:219`, of two overlapping `RestartBrowser`
calls the second tears down the browser the first has started, without a drain of its own.

## Plan

1. Done: the scheduler, its abstract lifecycle, its first theorems.
2. Done: `PortAllocator` and `Orchestrator` for managed instances, the abstract
   `InstanceLifecycle`, and all their safety properties proved.
3. Done: attached instances in the same table, with the invariant of their health checks.
4. Done: the restart strategies over `InstanceLifecycle`, all their safety properties proved.
5. Done: the tab manager and the popup guard.
6. Done: sessions, bindings and routing, all their properties proved.
7. Done: the remaining safety properties of the scheduler (tasks, counters, wakeups, limits) and
   of the tab manager proved.
8. Next: the bridge lifecycle (`EnsureChrome`, `RestartBrowser`, `Cleanup`).

A violation run is kept only for a documented statement the code does not keep.

-------------------------------- MODULE Scheduler --------------------------------
(***************************************************************************)
(* The task scheduler (internal/scheduler): Submit calls, worker           *)
(* goroutines, Cancel calls, the deadline reaper and Stop, interleaved at  *)
(* the granularity of the code's critical sections.                        *)
(*                                                                         *)
(* A Submit call is the process named by the task it submits.  pc is what  *)
(* a process does next, cur the task it works on.  ResultStore.Store and   *)
(* finishTask are subroutines every process shares: Store copies the task  *)
(* ("snap", under the task's lock) and then writes the copy ("put", under  *)
(* the store's lock) and goes on at ret; finishTask stores, completes the  *)
(* queue's in-flight count and forgets the task.                           *)
(*                                                                         *)
(* Metrics, log lines, error texts and result payloads are left out, and   *)
(* time is: a deadline or a TTL may expire at any moment.  ReloadConfig    *)
(* has no caller outside tests, so the limits are constants.  As in        *)
(* TaskQueue, a ...Slip is a mistaken form of the definition below it.     *)
(***************************************************************************)
EXTENDS TaskState, TaskQueue

CONSTANTS
  Cancellers, Reaper, Stopper,   \* the processes beside the Submit calls and Workers
  Callbacks,       \* the tasks with a callbackUrl
  Expiring,        \* the tasks whose deadline may pass while they are queued
  Evictable,       \* the tasks whose stored result may outlive its TTL
  Stopping,        \* whether Stop is ever called
  WebhookSlots,    \* the capacity of webhookSem
  SplitStore,      \* whether Store's two critical sections are told apart
  NoTask

Procs == Tasks \cup Workers \cup Cancellers \cup {Reaper, Stopper}

ASSUME SchedulerAssumption ==
  /\ NoTask \notin Tasks
  /\ Tasks \cap (Workers \cup Cancellers \cup {Reaper, Stopper}) = {}
  /\ Workers \cap (Cancellers \cup {Reaper, Stopper}) = {}
  /\ Cancellers \cap {Reaper, Stopper} = {}
  /\ Reaper # Stopper
  /\ IsFiniteSet(Workers) /\ Workers # {}
  /\ Callbacks \subseteq Tasks /\ Expiring \subseteq Tasks
  /\ Evictable \subseteq Tasks
  /\ Stopping \in BOOLEAN
  /\ WebhookSlots \in Nat \ {0}
  /\ SplitStore \in BOOLEAN

VARIABLES
  state,       \* Task.State
  attempts,    \* requests sent to the executor for each task
  results,     \* the state in the stored snapshot of each task, "none" if absent
  live,        \* s.live: the tasks Cancel and GetTask can find
  cancels,     \* s.cancels: the tasks with a registered cancel function
  ctxDone,     \* the tasks whose execution context was cancelled by Cancel
  started,     \* startOnce has run: the goroutines exist
  stopCh,      \* stopCh is closed
  batch,       \* the expired tasks the reaper has yet to fail
  sent,        \* webhook deliveries launched for each task
  hookBusy,    \* slots of webhookSem in use
  pc, cur, snap, ret

taskVars == <<state, attempts>>
storeVars == <<results, snap>>
cancelVars == <<cancels, ctxDone>>
lifeVars == <<started, stopCh>>
hookVars == <<sent, hookBusy>>
procVars == <<pc, cur, ret>>
vars == <<queueVars, taskVars, storeVars, live, cancelVars, lifeVars, batch,
          hookVars, procVars>>

Init ==
  /\ QueueInit
  /\ state = [t \in Tasks |-> "none"]
  /\ attempts = [t \in Tasks |-> 0]
  /\ results = [t \in Tasks |-> "none"]
  /\ live = {} /\ cancels = {} /\ ctxDone = {} /\ batch = {}
  /\ started = FALSE /\ stopCh = FALSE
  /\ sent = [t \in Tasks |-> 0] /\ hookBusy = 0
  /\ pc = [p \in Procs |-> IF p \in Tasks THEN "idle"
                           ELSE IF p \in Workers THEN "dequeue"
                           ELSE IF p \in Cancellers THEN "ready"
                           ELSE IF p = Reaper THEN "reap" ELSE "up"]
  /\ cur = [p \in Procs |-> IF p \in Tasks THEN p ELSE NoTask]
  /\ snap = [p \in Procs |-> "none"]
  /\ ret = [p \in Procs |-> "none"]

----------------------------------------------------------------------------------
(* Moves of a process and of a task.                                       *)

Goto(p, label) == pc' = [pc EXCEPT ![p] = label]

(* SetState, with the error ignored: the state when the transition is      *)
(* illegal stays what it is.                                               *)
SetState(t, next) ==
  state' = IF CanSet(state[t], next) THEN [state EXCEPT ![t] = next] ELSE state

Store(p, then) ==
  /\ Goto(p, "snap")
  /\ ret' = [ret EXCEPT ![p] = then]

Finish(p) == Store(p, "complete")

LiveLockedSlip == pc[Stopper] \notin {"up", "down"}

(* Stop holds liveMu from its drain on.                                    *)
LiveLocked == pc[Stopper] \notin {"up", "join", "down"}

----------------------------------------------------------------------------------
(* ResultStore: Store in two critical sections, and the TTL eviction.      *)
(* Nothing but Evict depends on what is stored, so a run that says nothing *)
(* of the stored results may take Store as one step (StoreAtOnce).         *)

StoreAtOnce(p) ==
  /\ ~SplitStore
  /\ pc[p] = "snap"
  /\ results' = [results EXCEPT ![cur[p]] = state[cur[p]]]
  /\ Goto(p, ret[p])
  /\ ret' = [ret EXCEPT ![p] = "none"]
  /\ UNCHANGED <<queueVars, taskVars, snap, live, cancelVars, lifeVars, batch,
                 hookVars, cur>>

StoreSnap(p) ==
  /\ SplitStore
  /\ pc[p] = "snap"
  /\ snap' = [snap EXCEPT ![p] = state[cur[p]]]
  /\ Goto(p, "put")
  /\ UNCHANGED <<queueVars, taskVars, results, live, cancelVars, lifeVars, batch,
                 hookVars, cur, ret>>

StorePut(p) ==
  /\ pc[p] = "put"
  /\ results' = [results EXCEPT ![cur[p]] = snap[p]]
  /\ snap' = [snap EXCEPT ![p] = "none"]
  /\ Goto(p, ret[p])
  /\ ret' = [ret EXCEPT ![p] = "none"]
  /\ UNCHANGED <<queueVars, taskVars, live, cancelVars, lifeVars, batch, hookVars, cur>>

(* evict needs a completion time, which SetState gives only to a done,     *)
(* failed or cancelled task.  Its goroutine lives from Start to Stop.      *)
Evict(t) ==
  /\ started /\ pc[Stopper] \in {"up", "join"}
  /\ t \in Evictable
  /\ results[t] \in {"done", "failed", "cancelled"}
  /\ results' = [results EXCEPT ![t] = "none"]
  /\ UNCHANGED <<queueVars, taskVars, snap, live, cancelVars, lifeVars, batch,
                 hookVars, procVars>>

----------------------------------------------------------------------------------
(* finishTask after its Store.                                             *)

FinishComplete(p) ==
  /\ pc[p] = "complete"
  /\ Complete(AgentOf[cur[p]])
  /\ Goto(p, "forget")
  /\ UNCHANGED <<taskVars, storeVars, live, cancelVars, lifeVars, batch, hookVars,
                 cur, ret>>

LaunchWebhook(t) ==
  IF t \in Callbacks /\ state[t] \in Terminal /\ hookBusy < WebhookSlots
    THEN /\ sent' = [sent EXCEPT ![t] = @ + 1]
         /\ hookBusy' = hookBusy + 1
    ELSE UNCHANGED hookVars

(* A worker goes on with dispatch's deferred cleanup if it got as far as   *)
(* registering the cancel function.                                        *)
AfterFinish(p) ==
  IF p \in Workers
    THEN IF cur[p] \in cancels THEN "unregister" ELSE "dequeue"
    ELSE IF p = Reaper THEN "reap" ELSE "answered"

FinishForget(p) ==
  /\ pc[p] = "forget"
  /\ ~LiveLocked
  /\ live' = live \ {cur[p]}
  /\ LaunchWebhook(cur[p])
  /\ Goto(p, AfterFinish(p))
  /\ cur' = [cur EXCEPT ![p] = IF AfterFinish(p) = "unregister" THEN @ ELSE NoTask]
  /\ UNCHANGED <<queueVars, taskVars, storeVars, cancelVars, lifeVars, batch, ret>>

WebhookReturns ==
  /\ hookBusy > 0
  /\ hookBusy' = hookBusy - 1
  /\ UNCHANGED <<queueVars, taskVars, storeVars, live, cancelVars, lifeVars, batch,
                 sent, procVars>>

----------------------------------------------------------------------------------
(* Submit.  Start is ensureRunning, run by Start and by any Submit call,   *)
(* also one whose request is then refused.                                 *)

Start ==
  /\ ~started
  /\ started' = TRUE
  /\ UNCHANGED <<queueVars, taskVars, storeVars, live, cancelVars, stopCh, batch,
                 hookVars, procVars>>

SubmitEnqueue(t) ==
  /\ started /\ pc[t] = "idle"
  /\ Enqueue(t)
  /\ state' = [state EXCEPT ![t] = "queued"]
  /\ Goto(t, "insert")
  /\ UNCHANGED <<attempts, storeVars, live, cancelVars, lifeVars, batch, hookVars,
                 cur, ret>>

SubmitReject(t) ==
  /\ started /\ pc[t] = "idle"
  /\ ~HasRoom(t)
  /\ state' = [state EXCEPT ![t] = "rejected"]
  /\ Store(t, "returned")
  /\ UNCHANGED <<queueVars, attempts, storeVars, live, cancelVars, lifeVars, batch,
                 hookVars, cur>>

SubmitInsertSlip(t) ==
  /\ pc[t] = "insert"
  /\ Store(t, "returned")
  /\ UNCHANGED <<queueVars, taskVars, storeVars, live, cancelVars, lifeVars, batch,
                 hookVars, cur>>

SubmitInsert(t) ==
  /\ pc[t] = "insert"
  /\ ~LiveLocked
  /\ live' = live \cup {t}
  /\ Store(t, "returned")
  /\ UNCHANGED <<queueVars, taskVars, storeVars, cancelVars, lifeVars, batch,
                 hookVars, cur>>

----------------------------------------------------------------------------------
(* A worker: Dequeue, or wait for a token or for stopCh; then dispatch.    *)
(* "wait" is the select, before and after the worker is parked in it.      *)

WorkerDequeue(w) ==
  /\ started /\ pc[w] = "dequeue"
  /\ \E t \in queue :
       /\ Dequeue(t)
       /\ cur' = [cur EXCEPT ![w] = t]
  /\ Goto(w, "assign")
  /\ UNCHANGED <<taskVars, storeVars, live, cancelVars, lifeVars, batch, hookVars, ret>>

WorkerIdle(w) ==
  /\ started /\ pc[w] = "dequeue"
  /\ Eligible = {}
  /\ Goto(w, "wait")
  /\ UNCHANGED <<queueVars, taskVars, storeVars, live, cancelVars, lifeVars, batch,
                 hookVars, cur, ret>>

(* Nothing is ready: the worker is parked.                                 *)
WorkerPark(w) ==
  /\ pc[w] = "wait" /\ select[w] = "away"
  /\ ~notify /\ ~stopCh
  /\ select' = [select EXCEPT ![w] = "parked"]
  /\ UNCHANGED <<queue, totalCount, inflight, notify, taskVars, storeVars, live,
                 cancelVars, lifeVars, batch, hookVars, procVars>>

WorkerWake(w) ==
  /\ pc[w] = "wait"
  /\ \/ /\ select[w] = "away" /\ notify
        /\ notify' = FALSE
        /\ UNCHANGED select
     \/ /\ select[w] = "sent"
        /\ select' = [select EXCEPT ![w] = "away"]
        /\ UNCHANGED notify
  /\ Goto(w, "dequeue")
  /\ UNCHANGED <<queue, totalCount, inflight, taskVars, storeVars, live, cancelVars,
                 lifeVars, batch, hookVars, cur, ret>>

WorkerExit(w) ==
  /\ pc[w] = "wait"
  /\ stopCh /\ select[w] \in {"away", "closed"}
  /\ select' = [select EXCEPT ![w] = "away"]
  /\ Goto(w, "exited")
  /\ UNCHANGED <<queue, totalCount, inflight, notify, taskVars, storeVars, live,
                 cancelVars, lifeVars, batch, hookVars, cur, ret>>

AdvanceSlip(w, next, then) ==
  /\ SetState(cur[w], next)
  /\ IF CanSet(state[cur[w]], next)
       THEN Store(w, then) /\ UNCHANGED cur
       ELSE Goto(w, "dequeue") /\ cur' = [cur EXCEPT ![w] = NoTask] /\ UNCHANGED ret
  /\ UNCHANGED <<queueVars, attempts, storeVars, live, cancelVars, lifeVars, batch,
                 hookVars>>

(* dispatch moves the task to a state, or finishes it when a cancellation  *)
(* came first.                                                             *)
Advance(w, next, then) ==
  /\ SetState(cur[w], next)
  /\ IF CanSet(state[cur[w]], next) THEN Store(w, then) ELSE Finish(w)
  /\ UNCHANGED <<queueVars, attempts, storeVars, live, cancelVars, lifeVars, batch,
                 hookVars, cur>>

WorkerAssign(w) == pc[w] = "assign" /\ Advance(w, "assigned", "register")

WorkerRegister(w) ==
  /\ pc[w] = "register"
  /\ cancels' = cancels \cup {cur[w]}
  /\ Goto(w, "run")
  /\ UNCHANGED <<queueVars, taskVars, storeVars, live, ctxDone, lifeVars, batch,
                 hookVars, cur, ret>>

WorkerRun(w) == pc[w] = "run" /\ Advance(w, "running", "exec")

(* executeTask sends the request, or fails before that: no tab, no         *)
(* instance for it, or a context that is done already.                     *)
WorkerExec(w) ==
  /\ pc[w] = "exec"
  /\ \/ /\ cur[w] \notin ctxDone
        /\ attempts' = [attempts EXCEPT ![cur[w]] = @ + 1]
     \/ UNCHANGED attempts
  /\ Goto(w, "await")
  /\ UNCHANGED <<queueVars, state, storeVars, live, cancelVars, lifeVars, batch,
                 hookVars, cur, ret>>

WorkerSettleSlip(w) ==
  /\ pc[w] = "await"
  /\ SetState(cur[w], "done") \/ SetState(cur[w], "failed")
  /\ Finish(w)
  /\ UNCHANGED <<queueVars, attempts, storeVars, live, cancelVars, lifeVars, batch,
                 hookVars, cur>>

(* The response, the deadline of the context or the client's timeout: a    *)
(* request that was sent may succeed or fail.                              *)
WorkerSettle(w) ==
  /\ pc[w] = "await"
  /\ \/ attempts[cur[w]] > 0 /\ SetState(cur[w], "done")
     \/ SetState(cur[w], "failed")
  /\ Finish(w)
  /\ UNCHANGED <<queueVars, attempts, storeVars, live, cancelVars, lifeVars, batch,
                 hookVars, cur>>

WorkerUnregister(w) ==
  /\ pc[w] = "unregister"
  /\ cancels' = cancels \ {cur[w]}
  /\ ctxDone' = ctxDone \ {cur[w]}
  /\ cur' = [cur EXCEPT ![w] = NoTask]
  /\ Goto(w, "dequeue")
  /\ UNCHANGED <<queueVars, taskVars, storeVars, live, lifeVars, batch, hookVars, ret>>

----------------------------------------------------------------------------------
(* Cancel.  The state is read once, and decides whether to look in the     *)
(* queue.  A task that is not live, or terminal, is refused with an error. *)

CancelLookup(c) ==
  /\ pc[c] = "ready"
  /\ ~LiveLocked
  /\ \E t \in live :
       /\ state[t] \notin Terminal
       /\ cur' = [cur EXCEPT ![c] = t]
       /\ Goto(c, IF state[t] = "queued" THEN "remove" ELSE "signal")
  /\ UNCHANGED <<queueVars, taskVars, storeVars, live, cancelVars, lifeVars, batch,
                 hookVars, ret>>

CancelRemoveSlip(c) ==
  /\ pc[c] = "remove"
  /\ Remove(cur[c])
  /\ Goto(c, "answered")
  /\ cur' = [cur EXCEPT ![c] = NoTask]
  /\ UNCHANGED <<taskVars, storeVars, live, cancelVars, lifeVars, batch, hookVars, ret>>

CancelRemove(c) ==
  /\ pc[c] = "remove"
  /\ Remove(cur[c])
  /\ Goto(c, "signal")
  /\ UNCHANGED <<taskVars, storeVars, live, cancelVars, lifeVars, batch, hookVars,
                 cur, ret>>

CancelSignal(c) ==
  /\ pc[c] = "signal"
  /\ ctxDone' = ctxDone \cup ({cur[c]} \cap cancels)
  /\ Goto(c, "mark")
  /\ UNCHANGED <<queueVars, taskVars, storeVars, live, cancels, lifeVars, batch,
                 hookVars, cur, ret>>

CancelMarkSlip(c) ==
  /\ pc[c] = "mark"
  /\ Finish(c)
  /\ UNCHANGED <<queueVars, taskVars, storeVars, live, cancelVars, lifeVars, batch,
                 hookVars, cur>>

CancelMark(c) ==
  /\ pc[c] = "mark"
  /\ CanSet(state[cur[c]], "cancelled")
  /\ SetState(cur[c], "cancelled")
  /\ Finish(c)
  /\ UNCHANGED <<queueVars, attempts, storeVars, live, cancelVars, lifeVars, batch,
                 hookVars, cur>>

CancelFails(c) ==
  /\ pc[c] = "mark"
  /\ ~CanSet(state[cur[c]], "cancelled")
  /\ Goto(c, "answered")
  /\ cur' = [cur EXCEPT ![c] = NoTask]
  /\ UNCHANGED <<queueVars, taskVars, storeVars, live, cancelVars, lifeVars, batch,
                 hookVars, ret>>

----------------------------------------------------------------------------------
(* The deadline reaper takes a batch of expired tasks out of the queue     *)
(* under one lock, then fails and finishes them one by one.                *)

ReaperScan ==
  /\ started /\ pc[Reaper] = "reap"
  /\ batch = {}
  /\ \E ts \in SUBSET (queue \cap Expiring) \ {{}} :
       /\ ExpireDeadlined(ts)
       /\ batch' = ts
  /\ UNCHANGED <<taskVars, storeVars, live, cancelVars, lifeVars, hookVars, procVars>>

ReaperExpire ==
  /\ pc[Reaper] = "reap"
  /\ \E t \in batch :
       /\ SetState(t, "failed")
       /\ batch' = batch \ {t}
       /\ cur' = [cur EXCEPT ![Reaper] = t]
  /\ Finish(Reaper)
  /\ UNCHANGED <<queueVars, attempts, storeVars, live, cancelVars, lifeVars, hookVars>>

ReaperExit ==
  /\ started /\ pc[Reaper] = "reap"
  /\ batch = {}
  /\ stopCh
  /\ Goto(Reaper, "exited")
  /\ UNCHANGED <<queueVars, taskVars, storeVars, live, cancelVars, lifeVars, batch,
                 hookVars, cur, ret>>

----------------------------------------------------------------------------------
(* Stop: close stopCh, which wakes every parked worker, wait for the       *)
(* goroutines, then cancel what is live.                                   *)

StopClose ==
  /\ Stopping /\ pc[Stopper] = "up"
  /\ stopCh' = TRUE
  /\ select' = [w \in Workers |-> IF w \in Parked THEN "closed" ELSE select[w]]
  /\ Goto(Stopper, "join")
  /\ UNCHANGED <<queue, totalCount, inflight, notify, taskVars, storeVars, live,
                 cancelVars, started, batch, hookVars, cur, ret>>

StopJoin ==
  /\ pc[Stopper] = "join"
  /\ started => \A p \in Workers \cup {Reaper} : pc[p] = "exited"
  /\ Goto(Stopper, "drain")
  /\ UNCHANGED <<queueVars, taskVars, storeVars, live, cancelVars, lifeVars, batch,
                 hookVars, cur, ret>>

StopCancelsSlip ==
  /\ pc[Stopper] = "drain"
  /\ \E t \in live :
       /\ state' = [state EXCEPT ![t] = "cancelled"]
       /\ cur' = [cur EXCEPT ![Stopper] = t]
  /\ Store(Stopper, "unlist")
  /\ UNCHANGED <<queueVars, attempts, storeVars, live, cancelVars, lifeVars, batch,
                 hookVars>>

StopCancels ==
  /\ pc[Stopper] = "drain"
  /\ \E t \in live :
       /\ state[t] \notin Terminal
       /\ SetState(t, "cancelled")
       /\ cur' = [cur EXCEPT ![Stopper] = t]
  /\ Store(Stopper, "unlist")
  /\ UNCHANGED <<queueVars, attempts, storeVars, live, cancelVars, lifeVars, batch,
                 hookVars>>

StopUnlist ==
  /\ pc[Stopper] = "unlist"
  /\ live' = live \ {cur[Stopper]}
  /\ cur' = [cur EXCEPT ![Stopper] = NoTask]
  /\ Goto(Stopper, "drain")
  /\ UNCHANGED <<queueVars, taskVars, storeVars, cancelVars, lifeVars, batch,
                 hookVars, ret>>

StopSkipsSlip ==
  /\ pc[Stopper] = "drain"
  /\ \E t \in live : live' = live \ {t}
  /\ UNCHANGED <<queueVars, taskVars, storeVars, cancelVars, lifeVars, batch,
                 hookVars, procVars>>

StopSkips ==
  /\ pc[Stopper] = "drain"
  /\ \E t \in live : state[t] \in Terminal /\ live' = live \ {t}
  /\ UNCHANGED <<queueVars, taskVars, storeVars, cancelVars, lifeVars, batch,
                 hookVars, procVars>>

StopDone ==
  /\ pc[Stopper] = "drain"
  /\ live = {}
  /\ Goto(Stopper, "down")
  /\ UNCHANGED <<queueVars, taskVars, storeVars, live, cancelVars, lifeVars, batch,
                 hookVars, cur, ret>>

----------------------------------------------------------------------------------

StoreStep(p) == StoreAtOnce(p) \/ StoreSnap(p) \/ StorePut(p)

FinishStep(p) == FinishComplete(p) \/ FinishForget(p)

SubmitReturns(t) == SubmitInsert(t) \/ StoreStep(t)

WorkerStep(w) ==
  \/ WorkerDequeue(w) \/ WorkerIdle(w) \/ WorkerPark(w) \/ WorkerWake(w) \/ WorkerExit(w)
  \/ WorkerAssign(w) \/ WorkerRegister(w) \/ WorkerRun(w) \/ WorkerExec(w)
  \/ WorkerSettle(w) \/ WorkerUnregister(w)
  \/ StoreStep(w) \/ FinishStep(w)

CancelReturns(c) ==
  \/ CancelRemove(c) \/ CancelSignal(c) \/ CancelMark(c) \/ CancelFails(c)
  \/ StoreStep(c) \/ FinishStep(c)

ReaperFinishes == ReaperExpire \/ ReaperExit \/ StoreStep(Reaper) \/ FinishStep(Reaper)

StopReturns ==
  StopJoin \/ StopCancels \/ StopUnlist \/ StopSkips \/ StopDone \/ StoreStep(Stopper)

Next ==
  \/ Start
  \/ \E t \in Tasks :
       SubmitEnqueue(t) \/ SubmitReject(t) \/ SubmitReturns(t) \/ Evict(t)
  \/ \E w \in Workers : WorkerStep(w)
  \/ \E c \in Cancellers : CancelLookup(c) \/ CancelReturns(c)
  \/ ReaperScan \/ ReaperFinishes
  \/ StopClose \/ StopReturns
  \/ WebhookReturns

(* A goroutine that can go on does, and a call that began returns.  Nobody *)
(* has to submit, to cancel or to stop, and no deadline has to pass.  The  *)
(* request of an executing task ends: the HTTP client has a timeout and    *)
(* the context a deadline.  The eviction ticker keeps ticking.             *)
Fairness ==
  /\ \A t \in Evictable : WF_vars(Evict(t))
  /\ \A t \in Tasks : WF_vars(SubmitReturns(t))
  /\ \A w \in Workers : WF_vars(WorkerStep(w))
  /\ \A c \in Cancellers : WF_vars(CancelReturns(c))
  /\ WF_vars(ReaperFinishes)
  /\ WF_vars(StopReturns)

Spec == Init /\ [][Next]_vars

FairSpec == Spec /\ Fairness

----------------------------------------------------------------------------------
(* Type invariant.                                                         *)

SubmitLabels == {"idle", "insert", "snap", "put", "returned"}

WorkerLabels ==
  {"dequeue", "wait", "assign", "register", "run", "exec", "await", "snap", "put",
   "complete", "forget", "unregister", "exited"}

CancelLabels ==
  {"ready", "remove", "signal", "mark", "snap", "put", "complete", "forget", "answered"}

ReaperLabels == {"reap", "snap", "put", "complete", "forget", "exited"}

StopLabels == {"up", "join", "drain", "snap", "put", "unlist", "down"}

(* The labels at which a process has no task.                              *)
Taskless ==
  {"dequeue", "wait", "ready", "answered", "reap", "exited", "up", "join", "drain", "down"}

ProcTypeOK(p, labels, returns) ==
  /\ pc[p] \in labels
  /\ cur[p] \in Tasks \cup {NoTask}
  /\ cur[p] = NoTask <=> pc[p] \in Taskless
  /\ IF pc[p] \in {"snap", "put"} THEN ret[p] \in returns ELSE ret[p] = "none"

FlagsTypeOK == {notify, started, stopCh} \subseteq BOOLEAN

DataTypeOK ==
  /\ QueueTypeOK
  /\ state \in [Tasks -> States]
  /\ attempts \in [Tasks -> Nat]
  /\ results \in [Tasks -> States]
  /\ snap \in [Procs -> States]
  /\ live \subseteq Tasks /\ cancels \subseteq Tasks /\ ctxDone \subseteq Tasks
  /\ batch \subseteq Tasks
  /\ sent \in [Tasks -> Nat] /\ hookBusy \in Nat

ProcsTypeOK ==
  /\ DOMAIN pc = Procs /\ DOMAIN cur = Procs /\ DOMAIN ret = Procs
  /\ \A t \in Tasks : ProcTypeOK(t, SubmitLabels, {"returned"}) /\ cur[t] = t
  /\ \A w \in Workers : ProcTypeOK(w, WorkerLabels, {"register", "exec", "complete"})
  /\ \A c \in Cancellers : ProcTypeOK(c, CancelLabels, {"complete"})
  /\ ProcTypeOK(Reaper, ReaperLabels, {"complete"})
  /\ ProcTypeOK(Stopper, StopLabels, {"unlist"})

(* Every variable keeps its type, every process is at a label of its kind, *)
(* works on a task exactly when the label needs one, and returns from      *)
(* Store to where its kind may go on (scheduler.go: the call sites of      *)
(* results.Store and finishTask).                                          *)
TypeOK == FlagsTypeOK /\ SelectTypeOK /\ DataTypeOK /\ ProcsTypeOK

==================================================================================

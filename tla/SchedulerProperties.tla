--------------------------- MODULE SchedulerProperties ---------------------------
(***************************************************************************)
(* What makes the scheduler correct, and what its documents say of it.     *)
(***************************************************************************)
EXTENDS Scheduler

(* The workers that dequeued a task and have not yet completed it.         *)
Holding(w) == pc[w] \notin {"dequeue", "wait", "exited", "forget", "unregister"}

HoldingFor(a) == {w \in Workers : Holding(w) /\ AgentOf[cur[w]] = a}

(* The tasks the reaper took out of the queue and has not finished.        *)
Reaping == batch \cup ({cur[Reaper]} \ {NoTask})

----------------------------------------------------------------------------------
(* Safety.                                                                 *)

(* The queue's counter never claims more of an agent's tasks in flight     *)
(* than workers hold, whatever Cancel and the reaper complete besides: a   *)
(* count that leaked upwards would block the agent for good (queue.go,     *)
(* Dequeue and Complete).                                                  *)
InflightNeverOvercounts ==
  \A a \in Agents : inflight[a] <= Cardinality(HoldingFor(a))

(* A task is in one place: in the queue, with one worker, or with the      *)
(* reaper; two dispatches of one task never meet (Dequeue, Remove and      *)
(* ExpireDeadlined against each other).                                    *)
SingleOwner ==
  /\ queue \cap Reaping = {}
  /\ \A w \in Workers : cur[w] \notin queue \cup Reaping
  /\ \A w, v \in Workers : w # v /\ cur[w] = cur[v] => cur[w] = NoTask

(* An admitted task that has not ended is somebody's: a Cancel that took   *)
(* it out of the queue, a worker or the reaper will end it, or the queue   *)
(* still has it (Cancel's Remove before its SetState).                     *)
NoTaskLost ==
  \A t \in Tasks : state[t] \in {"queued", "assigned", "running"} =>
    \/ t \in queue \cup Reaping
    \/ \E w \in Workers : cur[w] = t
    \/ \E c \in Cancellers : cur[c] = t /\ pc[c] \in {"signal", "mark"}

(* The counter kept beside the heaps is their size, and never above the    *)
(* limit (queue.go: totalCount is changed in four places).                 *)
CountMatchesQueue ==
  totalCount = Cardinality(queue) /\ totalCount <= MaxQueueSize

(* A task whose Submit returned can be found by GetTask and Cancel until   *)
(* it ends, shutdown included (the live map against finishTask and Stop).  *)
AcceptedIsFindable ==
  \A t \in Tasks : pc[t] = "returned" /\ state[t] \notin Terminal => t \in live

(* No lost wakeup: when every worker is at its select and there is a task  *)
(* they may take, the channel holds a token or one of them was handed one  *)
(* (Complete notifies only for its own agent; Enqueue's token may          *)
(* coalesce).                                                              *)
NoLostWakeup ==
  Eligible # {} /\ (\A w \in Workers : pc[w] = "wait") => Signalled

(* A stored snapshot that shows an ended task shows how it ended, however  *)
(* late its two critical sections run: only snapshots from before the end  *)
(* can be stale (results.go, Store; scheduler.go, its six call sites).     *)
StoredEndIsTrue ==
  \A t \in Tasks : results[t] \in Terminal => results[t] = state[t]

(* The documented limits on concurrently executing tasks.  They hold while *)
(* nothing is cancelled and nothing expires in the queue.                  *)
Executing == {w \in Workers : pc[w] \in {"exec", "await"}}

RunningWithinLimits ==
  /\ Cardinality(Executing) <= MaxInflight
  /\ \A a \in Agents :
       Cardinality({w \in Executing : AgentOf[cur[w]] = a}) <= MaxPerAgentFlight

----------------------------------------------------------------------------------
(* Action properties and the abstract specification.                       *)

(* Only an ended task is dropped from the live map: a Cancel that can      *)
(* still succeed is never answered "not found".                            *)
LiveDropsOnlyTerminal ==
  [][\A t \in live : t \notin live' => state[t] \in Terminal]_vars

(* The scheduler keeps the lifecycle each task is promised: executed at    *)
(* most once, "done" only after it was sent.                               *)
Lifecycle == INSTANCE TaskLifecycle WITH
  Tasks <- Tasks, state <- state, attempts <- attempts
ImplementsLifecycle == Lifecycle!Spec

----------------------------------------------------------------------------------
(* Liveness, under FairSpec.                                               *)

(* Every admitted task ends unless Stop is called, though no deadline has  *)
(* to pass: workers never stay blocked while there is work.                *)
AdmittedEnds ==
  \A t \in Tasks : state[t] = "queued" ~> (state[t] \in Terminal \/ stopCh)

(* Stop returns, and no goroutine is left behind it (wg.Wait against the   *)
(* workers' select, liveMu against finishTask).                            *)
StopTerminates == stopCh ~> pc[Stopper] = "down"

(* Every task whose Submit returned before Stop was called has ended when  *)
(* Stop returns.                                                           *)
StopLeavesNothing ==
  \A t \in Tasks :
    [](pc[t] = "returned" /\ pc[Stopper] = "up" =>
         [](pc[Stopper] = "down" => state[t] \in Terminal))

----------------------------------------------------------------------------------
(* Statements of the documentation that the code does not keep.            *)

(* docs/reference/scheduler.md: maxPerAgentInflight is the "max            *)
(* concurrently executing tasks per agent".                                *)
PerAgentLimitHolds ==
  \A a \in Agents :
    Cardinality({t \in Tasks : state[t] = "running" /\ AgentOf[t] = a}) <= MaxPerAgentFlight

(* docs/reference/scheduler.md: on Cancel, "running tasks have their       *)
(* execution context cancelled".                                           *)
CancelReachesExecutor ==
  \A w \in Workers :
    pc[w] = "await" /\ attempts[cur[w]] > 0 /\ state[cur[w]] = "cancelled"
      => cur[w] \in ctxDone

==================================================================================

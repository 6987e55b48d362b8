----------------------------- MODULE SchedulerProofs -----------------------------
(***************************************************************************)
(* Proofs about the scheduler: its type correctness, that a task has one   *)
(* owner, and that it implements TaskLifecycle, for any number of tasks,   *)
(* agents, workers and Cancel calls and any limits.                        *)
(***************************************************************************)
EXTENDS SchedulerProperties, FiniteSetTheorems, TLAPS

(* What a worker's label says of the task it holds: how far the task can   *)
(* have come, a cancellation aside, and how often it was sent.             *)
Stage(w) ==
  LET at == IF pc[w] \in {"snap", "put"} THEN ret[w] ELSE pc[w]
      s == state[cur[w]]
      n == attempts[cur[w]]
  IN /\ at = "assign" => s \in {"queued", "cancelled"} /\ n = 0
     /\ at \in {"register", "run"} => s \in {"assigned", "cancelled"} /\ n = 0
     /\ at = "exec" => s \in {"running", "cancelled"} /\ n = 0
     /\ at = "await" => s \in {"running", "cancelled"} /\ n \in {0, 1}

Stages == \A w \in Workers : cur[w] # NoTask => Stage(w)

(* A Submit call that has not begun has no task yet.                       *)
Unsubmitted == \A t \in Tasks : pc[t] = "idle" <=> state[t] = "none"

(* A task that was not submitted, or is queued, was not sent.               *)
Unsent ==
  /\ \A t \in Tasks : state[t] = "none" => attempts[t] = 0
  /\ \A t \in queue : state[t] \in {"queued", "cancelled"} /\ attempts[t] = 0

(* Only submitted tasks are anywhere.                                      *)
Busy ==
  /\ \A t \in queue \cup batch \cup live : state[t] # "none"
  /\ \A p \in Procs : cur[p] # NoTask /\ pc[p] # "idle" => state[cur[p]] # "none"

(* The inductive invariant.                                                *)
IInv ==
  /\ TypeOK
  /\ SingleOwner
  /\ Unsubmitted
  /\ Unsent
  /\ Busy
  /\ Stages

----------------------------------------------------------------------------------
(* Type correctness.                                                       *)

LEMMA InitType == Init => TypeOK
<1> SUFFICES ASSUME Init PROVE TypeOK
  OBVIOUS
<1> USE DEF Init
<1>1. FlagsTypeOK
  BY DEF QueueInit, FlagsTypeOK
<1>0. SelectTypeOK
  BY DEF QueueInit, SelectTypeOK
<1>2. DataTypeOK
  BY DEF QueueInit, DataTypeOK, QueueTypeOK, States
<1>3. \A t \in Tasks : ProcTypeOK(t, SubmitLabels, {"returned"}) /\ cur[t] = t
  BY SchedulerAssumption DEF Procs, ProcTypeOK, SubmitLabels, Taskless
<1>4. \A w \in Workers : ProcTypeOK(w, WorkerLabels, {"register", "exec", "complete"})
  BY SchedulerAssumption DEF Procs, ProcTypeOK, WorkerLabels, Taskless
<1>5. \A c \in Cancellers : ProcTypeOK(c, CancelLabels, {"complete"})
  BY SchedulerAssumption DEF Procs, ProcTypeOK, CancelLabels, Taskless
<1>6. ProcTypeOK(Reaper, ReaperLabels, {"complete"})
  BY SchedulerAssumption DEF Procs, ProcTypeOK, ReaperLabels, Taskless
<1>7. ProcTypeOK(Stopper, StopLabels, {"unlist"})
  BY SchedulerAssumption DEF Procs, ProcTypeOK, StopLabels, Taskless
<1> QED
  BY <1>0, <1>1, <1>2, <1>3, <1>4, <1>5, <1>6, <1>7 DEF TypeOK, ProcsTypeOK

(* The part of the type invariant about processes: each action moves one.  *)
LEMMA ProcsStep == TypeOK /\ [Next]_vars => ProcsTypeOK'
<1> SUFFICES ASSUME DataTypeOK, ProcsTypeOK, [Next]_vars PROVE ProcsTypeOK'
  BY DEF TypeOK
<1> USE SchedulerAssumption DEF ProcsTypeOK, ProcTypeOK, SubmitLabels, WorkerLabels,
      CancelLabels, ReaperLabels, StopLabels, Taskless, Procs, Goto
<1>1. ASSUME NEW t \in Tasks, SubmitEnqueue(t) PROVE ProcsTypeOK'
  BY <1>1 DEF SubmitEnqueue
<1>2. ASSUME NEW t \in Tasks, SubmitReject(t) PROVE ProcsTypeOK'
  BY <1>2 DEF SubmitReject, Store
<1>3. ASSUME NEW t \in Tasks, SubmitInsert(t) PROVE ProcsTypeOK'
  BY <1>3 DEF SubmitInsert, Store
<1>4. ASSUME NEW w \in Workers, WorkerDequeue(w) PROVE ProcsTypeOK'
  BY <1>4 DEF WorkerDequeue, DataTypeOK, QueueTypeOK
<1>5. ASSUME NEW w \in Workers, WorkerIdle(w) PROVE ProcsTypeOK'
  BY <1>5 DEF WorkerIdle
<1>6. ASSUME NEW w \in Workers, WorkerWake(w) PROVE ProcsTypeOK'
  BY <1>6 DEF WorkerWake
<1>7. ASSUME NEW w \in Workers, WorkerExit(w) PROVE ProcsTypeOK'
  BY <1>7 DEF WorkerExit
<1>8. ASSUME NEW w \in Workers, WorkerAssign(w) PROVE ProcsTypeOK'
  BY <1>8 DEF WorkerAssign, Advance, Finish, Store
<1>9. ASSUME NEW w \in Workers, WorkerRegister(w) PROVE ProcsTypeOK'
  BY <1>9 DEF WorkerRegister
<1>10. ASSUME NEW w \in Workers, WorkerRun(w) PROVE ProcsTypeOK'
  BY <1>10 DEF WorkerRun, Advance, Finish, Store
<1>11. ASSUME NEW w \in Workers, WorkerExec(w) PROVE ProcsTypeOK'
  BY <1>11 DEF WorkerExec
<1>12. ASSUME NEW w \in Workers, WorkerSettle(w) PROVE ProcsTypeOK'
  BY <1>12 DEF WorkerSettle, Finish, Store
<1>13. ASSUME NEW w \in Workers, WorkerUnregister(w) PROVE ProcsTypeOK'
  BY <1>13 DEF WorkerUnregister
<1>14. ASSUME NEW c \in Cancellers, CancelLookup(c) PROVE ProcsTypeOK'
  BY <1>14 DEF CancelLookup, DataTypeOK, QueueTypeOK
<1>15. ASSUME NEW c \in Cancellers, CancelRemove(c) PROVE ProcsTypeOK'
  BY <1>15 DEF CancelRemove
<1>16. ASSUME NEW c \in Cancellers, CancelSignal(c) PROVE ProcsTypeOK'
  BY <1>16 DEF CancelSignal
<1>17. ASSUME NEW c \in Cancellers, CancelMark(c) PROVE ProcsTypeOK'
  BY <1>17 DEF CancelMark, Finish, Store
<1>18. ASSUME NEW c \in Cancellers, CancelFails(c) PROVE ProcsTypeOK'
  BY <1>18 DEF CancelFails
<1>19. ASSUME NEW p \in Procs, StoreAtOnce(p) PROVE ProcsTypeOK'
  BY <1>19 DEF StoreAtOnce
<1>20. ASSUME NEW p \in Procs, StoreSnap(p) PROVE ProcsTypeOK'
  BY <1>20 DEF StoreSnap
<1>21. ASSUME NEW p \in Procs, StorePut(p) PROVE ProcsTypeOK'
  BY <1>21 DEF StorePut
<1>22. ASSUME NEW p \in Procs, FinishComplete(p) PROVE ProcsTypeOK'
  BY <1>22 DEF FinishComplete
<1>23. ASSUME NEW p \in Procs, FinishForget(p) PROVE ProcsTypeOK'
  BY <1>23 DEF FinishForget, AfterFinish
<1>24. CASE ReaperExpire
  BY <1>24 DEF ReaperExpire, Finish, Store, DataTypeOK, QueueTypeOK
<1>25. CASE ReaperExit
  BY <1>25 DEF ReaperExit
<1>26. CASE StopClose
  BY <1>26 DEF StopClose
<1>27. CASE StopJoin
  BY <1>27 DEF StopJoin
<1>28. CASE StopCancels
  BY <1>28 DEF StopCancels, Store, DataTypeOK, QueueTypeOK
<1>29. CASE StopUnlist
  BY <1>29 DEF StopUnlist
<1>30. CASE StopDone
  BY <1>30 DEF StopDone
<1>31. CASE UNCHANGED procVars
  BY <1>31 DEF procVars
<1> QED
  BY <1>1, <1>2, <1>3, <1>4, <1>5, <1>6, <1>7, <1>8, <1>9, <1>10, <1>11, <1>12,
     <1>13, <1>14, <1>15, <1>16, <1>17, <1>18, <1>19, <1>20, <1>21, <1>22,
     <1>23, <1>24, <1>25, <1>26, <1>27, <1>28, <1>29, <1>30, <1>31 DEF Next,
     vars, procVars, Start, Evict, WebhookReturns, ReaperScan, StopSkips,
     StoreStep, FinishStep, SubmitReturns, WorkerStep, WorkerPark, CancelReturns,
     ReaperFinishes, StopReturns

(* A process works on a task at every label that is not taskless.          *)
LEMMA Working ==
  ASSUME ProcsTypeOK, NEW p \in Procs, pc[p] \notin Taskless
  PROVE  cur[p] \in Tasks
BY SchedulerAssumption DEF ProcsTypeOK, ProcTypeOK, Procs

LEMMA TakeType ==
  ASSUME QueueTypeOK, NEW ts, Take(ts)
  PROVE  QueueTypeOK'
<1>1. IsFiniteSet(queue \cap ts)
  BY QueueAssumption, FS_Subset DEF QueueTypeOK
<1>2. Cardinality(queue \cap ts) \in Nat
  BY <1>1, FS_CardinalityType
<1> QED
  BY <1>2 DEF QueueTypeOK, Take

(* The part about data: queue, tasks, stored results and bookkeeping.      *)
LEMMA DataStep == TypeOK /\ [Next]_vars => DataTypeOK'
<1> SUFFICES ASSUME DataTypeOK, ProcsTypeOK, [Next]_vars PROVE DataTypeOK'
  BY DEF TypeOK
<1> DEFINE dataVars == <<queue, totalCount, inflight, taskVars, storeVars, live, cancelVars,
                         batch, hookVars>>
<1> USE DEF DataTypeOK, QueueTypeOK, States, Terminal, Procs, Taskless, queueVars, taskVars,
      storeVars, cancelVars, lifeVars, hookVars, procVars
<1>1. ASSUME NEW t \in Tasks, SubmitEnqueue(t) PROVE DataTypeOK'
  BY <1>1 DEF SubmitEnqueue, Enqueue
<1>2. ASSUME NEW t \in Tasks, SubmitReject(t) PROVE DataTypeOK'
  BY <1>2 DEF SubmitReject
<1>3. ASSUME NEW t \in Tasks, SubmitInsert(t) PROVE DataTypeOK'
  BY <1>3 DEF SubmitInsert
<1>4. ASSUME NEW w \in Workers, WorkerDequeue(w) PROVE DataTypeOK'
  BY <1>4, QueueAssumption DEF WorkerDequeue, Dequeue
<1>5. ASSUME NEW w \in Workers, WorkerAssign(w) PROVE DataTypeOK'
  BY <1>5, Working DEF WorkerAssign, Advance, SetState, CanSet
<1>6. ASSUME NEW w \in Workers, WorkerRun(w) PROVE DataTypeOK'
  BY <1>6, Working DEF WorkerRun, Advance, SetState, CanSet
<1>7. ASSUME NEW w \in Workers, WorkerRegister(w) PROVE DataTypeOK'
  BY <1>7, Working DEF WorkerRegister
<1>8. ASSUME NEW w \in Workers, WorkerExec(w) PROVE DataTypeOK'
  BY <1>8, Working DEF WorkerExec
<1>9. ASSUME NEW w \in Workers, WorkerSettle(w) PROVE DataTypeOK'
  BY <1>9, Working DEF WorkerSettle, SetState, CanSet
<1>10. ASSUME NEW w \in Workers, WorkerUnregister(w) PROVE DataTypeOK'
  BY <1>10, Working DEF WorkerUnregister
<1>11. ASSUME NEW c \in Cancellers, CancelRemove(c) PROVE DataTypeOK'
  BY <1>11, TakeType DEF CancelRemove, Remove
<1>12. ASSUME NEW c \in Cancellers, CancelSignal(c) PROVE DataTypeOK'
  BY <1>12 DEF CancelSignal
<1>13. ASSUME NEW c \in Cancellers, CancelMark(c) PROVE DataTypeOK'
  BY <1>13, Working DEF CancelMark, SetState, CanSet
<1>14. ASSUME NEW p \in Procs, StoreAtOnce(p) PROVE DataTypeOK'
  BY <1>14, Working DEF StoreAtOnce
<1>15. ASSUME NEW p \in Procs, StoreSnap(p) PROVE DataTypeOK'
  BY <1>15, Working DEF StoreSnap
<1>16. ASSUME NEW p \in Procs, StorePut(p) PROVE DataTypeOK'
  BY <1>16, Working DEF StorePut
<1>17. ASSUME NEW t \in Tasks, Evict(t) PROVE DataTypeOK'
  BY <1>17 DEF Evict
<1>18. ASSUME NEW p \in Procs, FinishComplete(p) PROVE DataTypeOK'
  BY <1>18, Working, QueueAssumption DEF FinishComplete, Complete
<1>19. ASSUME NEW p \in Procs, FinishForget(p) PROVE DataTypeOK'
  BY <1>19, Working DEF FinishForget, LaunchWebhook
<1>20. CASE WebhookReturns
  BY <1>20 DEF WebhookReturns
<1>21. CASE ReaperScan
  BY <1>21, TakeType DEF ReaperScan, ExpireDeadlined
<1>22. CASE ReaperExpire
  BY <1>22 DEF ReaperExpire, SetState, CanSet
<1>23. CASE StopCancels
  BY <1>23 DEF StopCancels, SetState, CanSet
<1>24. CASE StopUnlist
  BY <1>24 DEF StopUnlist
<1>25. CASE StopSkips
  BY <1>25 DEF StopSkips
<1>26. CASE UNCHANGED dataVars
  BY <1>26
<1> QED
  BY <1>1, <1>2, <1>3, <1>4, <1>5, <1>6, <1>7, <1>8, <1>9, <1>10, <1>11, <1>12,
     <1>13, <1>14, <1>15, <1>16, <1>17, <1>18, <1>19, <1>20, <1>21, <1>22,
     <1>23, <1>24, <1>25, <1>26 DEF Next, vars, Start, SubmitReturns,
     WorkerStep, WorkerIdle, WorkerPark, WorkerWake, WorkerExit, CancelLookup,
     CancelReturns, CancelFails, ReaperFinishes, ReaperExit, StopClose,
     StopJoin, StopDone, StopReturns, StoreStep, FinishStep

(* The Booleans.                                                           *)
LEMMA FlagsStep == TypeOK /\ [Next]_vars => FlagsTypeOK'
<1> SUFFICES ASSUME FlagsTypeOK, [Next]_vars PROVE FlagsTypeOK'
  BY DEF TypeOK
<1> DEFINE flags == <<notify, lifeVars>>
<1> USE DEF FlagsTypeOK, queueVars, channel, lifeVars
<1>1. CASE Start
  BY <1>1 DEF Start
<1>2. CASE StopClose
  BY <1>2 DEF StopClose
<1>3. ASSUME NEW t \in Tasks, SubmitEnqueue(t) PROVE FlagsTypeOK'
  BY <1>3 DEF SubmitEnqueue, Enqueue, Send
<1>4. ASSUME NEW w \in Workers, WorkerWake(w) PROVE FlagsTypeOK'
  BY <1>4 DEF WorkerWake
<1>5. ASSUME NEW p, FinishComplete(p) PROVE FlagsTypeOK'
  BY <1>5 DEF FinishComplete, Complete, Send
<1>6. CASE UNCHANGED flags
  BY <1>6
<1>7. ASSUME NEW w \in Workers, WorkerStep(w) PROVE FlagsTypeOK'
  <2>1. ASSUME WorkerAssign(w) \/ WorkerRun(w) PROVE UNCHANGED flags
    BY <2>1 DEF WorkerAssign, WorkerRun, Advance
  <2>2. ASSUME WorkerDequeue(w) PROVE UNCHANGED flags
    BY <2>2 DEF WorkerDequeue, Dequeue
  <2>3. ASSUME StoreStep(w) \/ FinishForget(w) PROVE UNCHANGED flags
    BY <2>3 DEF StoreStep, StoreAtOnce, StoreSnap, StorePut, FinishForget
  <2>4. ASSUME \/ WorkerIdle(w) \/ WorkerPark(w) \/ WorkerExit(w) \/ WorkerRegister(w)
               \/ WorkerExec(w) \/ WorkerSettle(w) \/ WorkerUnregister(w)
        PROVE  UNCHANGED flags
    BY <2>4 DEF WorkerIdle, WorkerPark, WorkerExit, WorkerRegister, WorkerExec,
                WorkerSettle, WorkerUnregister
  <2> QED
    BY <1>4, <1>5, <1>6, <1>7, <2>1, <2>2, <2>3, <2>4 DEF WorkerStep, FinishStep
<1>8. ASSUME NEW t \in Tasks, SubmitReject(t) \/ SubmitReturns(t) \/ Evict(t)
      PROVE  UNCHANGED flags
  BY <1>8 DEF SubmitReject, SubmitReturns, SubmitInsert, Evict, StoreStep, StoreAtOnce,
              StoreSnap, StorePut
<1>9. ASSUME NEW c \in Cancellers, CancelLookup(c) \/ CancelReturns(c)
      PROVE  FlagsTypeOK'
  <2>1. ASSUME CancelRemove(c) PROVE UNCHANGED flags
    BY <2>1 DEF CancelRemove, Remove, Take
  <2>2. ASSUME \/ CancelLookup(c) \/ CancelSignal(c) \/ CancelMark(c) \/ CancelFails(c)
               \/ StoreStep(c) \/ FinishForget(c)
        PROVE  UNCHANGED flags
    BY <2>2 DEF CancelLookup, CancelSignal, CancelMark, CancelFails, StoreStep,
                StoreAtOnce, StoreSnap, StorePut, FinishForget
  <2> QED
    BY <1>5, <1>6, <1>9, <2>1, <2>2 DEF CancelReturns, FinishStep
<1>10. CASE ReaperScan \/ ReaperFinishes
  <2>1. ASSUME ReaperScan PROVE UNCHANGED flags
    BY <2>1 DEF ReaperScan, ExpireDeadlined, Take
  <2>2. ASSUME ReaperExpire \/ ReaperExit \/ StoreStep(Reaper) \/ FinishForget(Reaper)
        PROVE  UNCHANGED flags
    BY <2>2 DEF ReaperExpire, ReaperExit, StoreStep, StoreAtOnce, StoreSnap, StorePut,
                FinishForget
  <2> QED
    BY <1>5, <1>6, <1>10, <2>1, <2>2 DEF ReaperFinishes, FinishStep
<1>11. ASSUME StopReturns \/ WebhookReturns PROVE UNCHANGED flags
  BY <1>11 DEF StopReturns, StopJoin, StopCancels, StopUnlist, StopSkips, StopDone,
               StoreStep, StoreAtOnce, StoreSnap, StorePut, WebhookReturns
<1> QED
  BY <1>1, <1>2, <1>3, <1>6, <1>7, <1>8, <1>9, <1>10, <1>11 DEF Next, vars

(* Where a worker is with its select: a send and the close of stopCh wake  *)
(* parked workers.                                                         *)
LEMMA SelectStep == TypeOK /\ [Next]_vars => SelectTypeOK'
<1> SUFFICES ASSUME SelectTypeOK, [Next]_vars PROVE SelectTypeOK'
  BY DEF TypeOK
<1> USE DEF SelectTypeOK, queueVars, channel
<1>1. ASSUME Send PROVE SelectTypeOK'
  BY <1>1 DEF Send
<1>2. ASSUME NEW t, SubmitEnqueue(t) PROVE SelectTypeOK'
  BY <1>1, <1>2 DEF SubmitEnqueue, Enqueue
<1>3. ASSUME NEW p, FinishComplete(p) PROVE SelectTypeOK'
  BY <1>1, <1>3 DEF FinishComplete, Complete
<1>4. ASSUME NEW w, WorkerPark(w) \/ WorkerWake(w) \/ WorkerExit(w) PROVE SelectTypeOK'
  BY <1>4 DEF WorkerPark, WorkerWake, WorkerExit
<1>5. CASE StopClose
  BY <1>5 DEF StopClose
<1>6. CASE UNCHANGED select
  BY <1>6
<1> HIDE DEF SelectTypeOK
<1> QED
  BY <1>2, <1>3, <1>4, <1>5, <1>6 DEF Next, vars, Start, Evict, WebhookReturns,
     ReaperScan, ExpireDeadlined, StopSkips, SubmitReturns, SubmitReject, SubmitInsert,
     WorkerStep, WorkerDequeue, Dequeue, WorkerIdle, WorkerAssign, WorkerRegister,
     WorkerRun, WorkerExec, WorkerSettle, WorkerUnregister, Advance, CancelReturns,
     CancelLookup, CancelRemove, Remove, Take, CancelSignal, CancelMark, CancelFails,
     ReaperFinishes, ReaperExpire, ReaperExit, StopReturns, StopJoin, StopCancels,
     StopUnlist, StopDone, StoreStep, StoreAtOnce, StoreSnap, StorePut, FinishStep,
     FinishForget

(* The scheduler is type correct, for any instance.                        *)
THEOREM TypeCorrect == Spec => []TypeOK
<1>1. TypeOK /\ [Next]_vars => TypeOK'
  BY DataStep, ProcsStep, FlagsStep, SelectStep DEF TypeOK
<1> QED
  BY InitType, <1>1, PTL DEF Spec

(* A task nobody submitted is in no state: SetState never creates one.      *)
LEMMA UnsubmittedStep == TypeOK /\ Unsubmitted /\ [Next]_vars => Unsubmitted'
<1> SUFFICES ASSUME DataTypeOK, ProcsTypeOK, Unsubmitted, [Next]_vars PROVE Unsubmitted'
  BY DEF IInv, TypeOK
<1> DEFINE frame == <<state, pc>>
<1> USE SchedulerAssumption DEF DataTypeOK, ProcsTypeOK, ProcTypeOK, Unsubmitted,
   Procs, Goto, Store, Finish, SetState, CanSet, SubmitLabels, queueVars, taskVars,
   storeVars, cancelVars, lifeVars, hookVars, procVars
<1>1. ASSUME NEW t \in Tasks, SubmitEnqueue(t) PROVE Unsubmitted'
  BY <1>1 DEF SubmitEnqueue
<1>2. ASSUME NEW t \in Tasks, SubmitReject(t) PROVE Unsubmitted'
  BY <1>2 DEF SubmitReject
<1>3. ASSUME NEW t \in Tasks, SubmitInsert(t) PROVE Unsubmitted'
  BY <1>3 DEF SubmitInsert
<1>4. ASSUME NEW w \in Workers, WorkerDequeue(w) PROVE Unsubmitted'
  BY <1>4 DEF WorkerDequeue
<1>5. ASSUME NEW w \in Workers, WorkerIdle(w) PROVE Unsubmitted'
  BY <1>5 DEF WorkerIdle
<1>6. ASSUME NEW w \in Workers, WorkerWake(w) PROVE Unsubmitted'
  BY <1>6 DEF WorkerWake
<1>7. ASSUME NEW w \in Workers, WorkerExit(w) PROVE Unsubmitted'
  BY <1>7 DEF WorkerExit
<1>8. ASSUME NEW w \in Workers, WorkerAssign(w) PROVE Unsubmitted'
  BY <1>8 DEF WorkerAssign, Advance
<1>9. ASSUME NEW w \in Workers, WorkerRegister(w) PROVE Unsubmitted'
  BY <1>9 DEF WorkerRegister
<1>10. ASSUME NEW w \in Workers, WorkerRun(w) PROVE Unsubmitted'
  BY <1>10 DEF WorkerRun, Advance
<1>11. ASSUME NEW w \in Workers, WorkerExec(w) PROVE Unsubmitted'
  BY <1>11 DEF WorkerExec
<1>12. ASSUME NEW w \in Workers, WorkerSettle(w) PROVE Unsubmitted'
  BY <1>12 DEF WorkerSettle
<1>13. ASSUME NEW w \in Workers, WorkerUnregister(w) PROVE Unsubmitted'
  BY <1>13 DEF WorkerUnregister
<1>14. ASSUME NEW c \in Cancellers, CancelLookup(c) PROVE Unsubmitted'
  BY <1>14 DEF CancelLookup
<1>15. ASSUME NEW c \in Cancellers, CancelRemove(c) PROVE Unsubmitted'
  BY <1>15 DEF CancelRemove
<1>16. ASSUME NEW c \in Cancellers, CancelSignal(c) PROVE Unsubmitted'
  BY <1>16 DEF CancelSignal
<1>17. ASSUME NEW c \in Cancellers, CancelMark(c) PROVE Unsubmitted'
  BY <1>17 DEF CancelMark
<1>18. ASSUME NEW c \in Cancellers, CancelFails(c) PROVE Unsubmitted'
  BY <1>18 DEF CancelFails
<1>19. ASSUME NEW p \in Procs, StoreAtOnce(p) PROVE Unsubmitted'
  BY <1>19 DEF StoreAtOnce
<1>20. ASSUME NEW p \in Procs, StoreSnap(p) PROVE Unsubmitted'
  BY <1>20 DEF StoreSnap
<1>21. ASSUME NEW p \in Procs, StorePut(p) PROVE Unsubmitted'
  BY <1>21 DEF StorePut
<1>22. ASSUME NEW p \in Procs, FinishComplete(p) PROVE Unsubmitted'
  BY <1>22 DEF FinishComplete
<1>23. ASSUME NEW p \in Procs, FinishForget(p) PROVE Unsubmitted'
  BY <1>23 DEF FinishForget, AfterFinish
<1>24. CASE ReaperExpire
  BY <1>24 DEF ReaperExpire
<1>25. CASE ReaperExit
  BY <1>25 DEF ReaperExit
<1>26. CASE StopClose
  BY <1>26 DEF StopClose
<1>27. CASE StopJoin
  BY <1>27 DEF StopJoin
<1>28. CASE StopCancels
  BY <1>28 DEF StopCancels
<1>29. CASE StopUnlist
  BY <1>29 DEF StopUnlist
<1>30. CASE StopDone
  BY <1>30 DEF StopDone
<1>31. CASE UNCHANGED frame
  BY <1>31
<1> QED
  BY <1>1, <1>2, <1>3, <1>4, <1>5, <1>6, <1>7, <1>8, <1>9, <1>10, <1>11, <1>12,
     <1>13, <1>14, <1>15, <1>16, <1>17, <1>18, <1>19, <1>20, <1>21, <1>22, <1>23,
     <1>24, <1>25, <1>26, <1>27, <1>28, <1>29, <1>30, <1>31 DEF Next, vars, Start,
     Evict, WebhookReturns, ReaperScan, StopSkips, SubmitReturns, WorkerStep, WorkerPark,
     CancelReturns, ReaperFinishes, StopReturns, StoreStep, FinishStep

(* What is under way was submitted.                                        *)
LEMMA BusyStep == TypeOK /\ Busy /\ [Next]_vars => Busy'
<1> SUFFICES ASSUME DataTypeOK, ProcsTypeOK, Busy, [Next]_vars PROVE Busy'
  BY DEF IInv, TypeOK
<1> DEFINE frame == <<queue, state, batch, live, pc, cur>>
<1> USE SchedulerAssumption DEF DataTypeOK, QueueTypeOK, ProcsTypeOK, ProcTypeOK,
   Busy, Taskless, Procs, Goto, Store, Finish, SetState, CanSet, queueVars,
   taskVars, storeVars, cancelVars, lifeVars, hookVars, procVars
<1>1. ASSUME NEW t \in Tasks, SubmitEnqueue(t) PROVE Busy'
  BY <1>1 DEF SubmitEnqueue, Enqueue
<1>2. ASSUME NEW t \in Tasks, SubmitReject(t) PROVE Busy'
  BY <1>2 DEF SubmitReject
<1>3. ASSUME NEW t \in Tasks, SubmitInsert(t) PROVE Busy'
  BY <1>3 DEF SubmitInsert
<1>4. ASSUME NEW w \in Workers, WorkerDequeue(w) PROVE Busy'
  BY <1>4 DEF WorkerDequeue, Dequeue
<1>5. ASSUME NEW w \in Workers, WorkerIdle(w) PROVE Busy'
  BY <1>5 DEF WorkerIdle
<1>6. ASSUME NEW w \in Workers, WorkerWake(w) PROVE Busy'
  BY <1>6 DEF WorkerWake
<1>7. ASSUME NEW w \in Workers, WorkerExit(w) PROVE Busy'
  BY <1>7 DEF WorkerExit
<1>8. ASSUME NEW w \in Workers, WorkerAssign(w) PROVE Busy'
  BY <1>8 DEF WorkerAssign, Advance
<1>9. ASSUME NEW w \in Workers, WorkerRegister(w) PROVE Busy'
  BY <1>9 DEF WorkerRegister
<1>10. ASSUME NEW w \in Workers, WorkerRun(w) PROVE Busy'
  BY <1>10 DEF WorkerRun, Advance
<1>11. ASSUME NEW w \in Workers, WorkerExec(w) PROVE Busy'
  BY <1>11 DEF WorkerExec
<1>12. ASSUME NEW w \in Workers, WorkerSettle(w) PROVE Busy'
  BY <1>12 DEF WorkerSettle
<1>13. ASSUME NEW w \in Workers, WorkerUnregister(w) PROVE Busy'
  BY <1>13 DEF WorkerUnregister
<1>14. ASSUME NEW c \in Cancellers, CancelLookup(c) PROVE Busy'
  BY <1>14 DEF CancelLookup
<1>15. ASSUME NEW c \in Cancellers, CancelRemove(c) PROVE Busy'
  BY <1>15 DEF CancelRemove, Remove, Take
<1>16. ASSUME NEW c \in Cancellers, CancelSignal(c) PROVE Busy'
  BY <1>16 DEF CancelSignal
<1>17. ASSUME NEW c \in Cancellers, CancelMark(c) PROVE Busy'
  BY <1>17 DEF CancelMark
<1>18. ASSUME NEW c \in Cancellers, CancelFails(c) PROVE Busy'
  BY <1>18 DEF CancelFails
<1>19. ASSUME NEW p \in Procs, StoreAtOnce(p) PROVE Busy'
  BY <1>19 DEF StoreAtOnce
<1>20. ASSUME NEW p \in Procs, StoreSnap(p) PROVE Busy'
  BY <1>20 DEF StoreSnap
<1>21. ASSUME NEW p \in Procs, StorePut(p) PROVE Busy'
  BY <1>21 DEF StorePut
<1>22. ASSUME NEW p \in Procs, FinishComplete(p) PROVE Busy'
  BY <1>22 DEF FinishComplete, Complete
<1>23. ASSUME NEW p \in Procs, FinishForget(p) PROVE Busy'
  BY <1>23 DEF FinishForget, AfterFinish
<1>24. CASE ReaperScan
  BY <1>24 DEF ReaperScan, ExpireDeadlined, Take
<1>25. CASE ReaperExpire
  BY <1>25 DEF ReaperExpire
<1>26. CASE ReaperExit
  BY <1>26 DEF ReaperExit
<1>27. CASE StopClose
  BY <1>27 DEF StopClose
<1>28. CASE StopJoin
  BY <1>28 DEF StopJoin
<1>29. CASE StopCancels
  BY <1>29 DEF StopCancels
<1>30. CASE StopUnlist
  BY <1>30 DEF StopUnlist
<1>31. CASE StopSkips
  BY <1>31 DEF StopSkips
<1>32. CASE StopDone
  BY <1>32 DEF StopDone
<1>33. CASE UNCHANGED frame
  BY <1>33
<1> QED
  BY <1>1, <1>2, <1>3, <1>4, <1>5, <1>6, <1>7, <1>8, <1>9, <1>10, <1>11, <1>12,
     <1>13, <1>14, <1>15, <1>16, <1>17, <1>18, <1>19, <1>20, <1>21, <1>22, <1>23,
     <1>24, <1>25, <1>26, <1>27, <1>28, <1>29, <1>30, <1>31, <1>32, <1>33 DEF Next,
     vars, Start, Evict, WebhookReturns, SubmitReturns, WorkerStep, WorkerPark, CancelReturns,
     ReaperFinishes, StopReturns, StoreStep, FinishStep

(* A task keeps a single owner: Dequeue, Remove and ExpireDeadlined take   *)
(* it out of the queue, and what is submitted is new.                      *)
LEMMA OwnerStep == IInv /\ [Next]_vars => SingleOwner'
<1> SUFFICES ASSUME DataTypeOK, ProcsTypeOK, SingleOwner, Unsubmitted, Busy, [Next]_vars
             PROVE  SingleOwner'
  BY DEF IInv, TypeOK
<1> DEFINE frame == <<queue, batch, cur>>
<1> USE SchedulerAssumption DEF DataTypeOK, QueueTypeOK, ProcsTypeOK, ProcTypeOK,
   SingleOwner, Reaping, Unsubmitted, Busy, Procs, Goto, Store, Finish, Taskless,
   WorkerLabels, ReaperLabels, CancelLabels, StopLabels, queueVars, taskVars,
   storeVars, cancelVars, lifeVars, hookVars, procVars
<1>1. ASSUME NEW t \in Tasks, SubmitEnqueue(t) PROVE SingleOwner'
  BY <1>1 DEF SubmitEnqueue, Enqueue
<1>2. ASSUME NEW w \in Workers, WorkerDequeue(w) PROVE SingleOwner'
  BY <1>2 DEF WorkerDequeue, Dequeue
<1>3. ASSUME NEW w \in Workers, WorkerUnregister(w) PROVE SingleOwner'
  BY <1>3 DEF WorkerUnregister
<1>4. ASSUME NEW c \in Cancellers, CancelLookup(c) PROVE SingleOwner'
  BY <1>4 DEF CancelLookup
<1>5. ASSUME NEW c \in Cancellers, CancelRemove(c) PROVE SingleOwner'
  BY <1>5 DEF CancelRemove, Remove, Take
<1>6. ASSUME NEW c \in Cancellers, CancelFails(c) PROVE SingleOwner'
  BY <1>6 DEF CancelFails
<1>7. ASSUME NEW p \in Procs, FinishForget(p) PROVE SingleOwner'
  BY <1>7 DEF FinishForget, AfterFinish
<1>8. CASE ReaperScan
  BY <1>8 DEF ReaperScan, ExpireDeadlined, Take
<1>9. CASE ReaperExpire
  BY <1>9 DEF ReaperExpire
<1>10. CASE StopCancels
  BY <1>10 DEF StopCancels
<1>11. CASE StopUnlist
  BY <1>11 DEF StopUnlist
<1>12. CASE UNCHANGED frame
  BY <1>12
<1> HIDE DEF DataTypeOK, QueueTypeOK, ProcsTypeOK, ProcTypeOK, Unsubmitted, Busy,
   SingleOwner
<1> QED
  BY <1>1, <1>2, <1>3, <1>4, <1>5, <1>6, <1>7, <1>8, <1>9, <1>10, <1>11, <1>12 DEF
     Next, vars, Start, Evict, WebhookReturns, StopSkips, SubmitReturns, WorkerStep,
     CancelReturns, ReaperFinishes, StopReturns, StoreStep, FinishStep,
     SubmitReject, SubmitInsert, WorkerIdle, WorkerPark, WorkerWake, WorkerExit, WorkerAssign,
     WorkerRegister, WorkerRun, WorkerExec, WorkerSettle, Advance, CancelSignal,
     CancelMark, StoreAtOnce, StoreSnap, StorePut, FinishComplete, Complete,
     ReaperExit, StopClose, StopJoin, StopDone

(* A queued task was neither moved on nor sent.                            *)
LEMMA UnsentStep == IInv /\ [Next]_vars => Unsent'
<1> SUFFICES ASSUME DataTypeOK, ProcsTypeOK, SingleOwner, Unsubmitted, Busy, Unsent, [Next]_vars
             PROVE  Unsent'
  BY DEF IInv, TypeOK
<1> DEFINE frame == <<queue, taskVars>>
<1> USE SchedulerAssumption DEF DataTypeOK, QueueTypeOK, ProcsTypeOK, ProcTypeOK,
   SingleOwner, Reaping, Unsubmitted, Busy, Unsent, Procs, Store, Finish, SetState,
   CanSet, Taskless, queueVars, taskVars, storeVars, cancelVars, lifeVars, hookVars,
   procVars
<1>1. ASSUME NEW t \in Tasks, SubmitEnqueue(t) PROVE Unsent'
  BY <1>1 DEF SubmitEnqueue, Enqueue
<1>2. ASSUME NEW t \in Tasks, SubmitReject(t) PROVE Unsent'
  BY <1>2 DEF SubmitReject
<1>3. ASSUME NEW w \in Workers, WorkerDequeue(w) PROVE Unsent'
  BY <1>3 DEF WorkerDequeue, Dequeue
<1>4. ASSUME NEW w \in Workers, WorkerAssign(w) PROVE Unsent'
  BY <1>4 DEF WorkerAssign, Advance
<1>5. ASSUME NEW w \in Workers, WorkerRun(w) PROVE Unsent'
  BY <1>5 DEF WorkerRun, Advance
<1>6. ASSUME NEW w \in Workers, WorkerExec(w) PROVE Unsent'
  BY <1>6 DEF WorkerExec
<1>7. ASSUME NEW w \in Workers, WorkerSettle(w) PROVE Unsent'
  BY <1>7 DEF WorkerSettle
<1>8. ASSUME NEW c \in Cancellers, CancelRemove(c) PROVE Unsent'
  BY <1>8 DEF CancelRemove, Remove, Take
<1>9. ASSUME NEW c \in Cancellers, CancelMark(c) PROVE Unsent'
  BY <1>9 DEF CancelMark
<1>10. CASE ReaperScan
  BY <1>10 DEF ReaperScan, ExpireDeadlined, Take
<1>11. CASE ReaperExpire
  BY <1>11 DEF ReaperExpire
<1>12. CASE StopCancels
  BY <1>12 DEF StopCancels
<1>13. CASE UNCHANGED frame
  BY <1>13
<1> HIDE DEF DataTypeOK, QueueTypeOK, ProcsTypeOK, ProcTypeOK, Unsubmitted, Busy,
   SingleOwner, Unsent
<1> QED
  BY <1>1, <1>2, <1>3, <1>4, <1>5, <1>6, <1>7, <1>8, <1>9, <1>10, <1>11, <1>12,
     <1>13 DEF Next, vars, Start, Evict, WebhookReturns, StopSkips, SubmitReturns,
     WorkerStep, CancelReturns, ReaperFinishes, StopReturns, StoreStep, FinishStep,
     SubmitInsert, WorkerIdle, WorkerPark, WorkerWake, WorkerExit, WorkerRegister,
     WorkerUnregister, CancelLookup, CancelSignal, CancelFails, StoreAtOnce,
     StoreSnap, StorePut, FinishComplete, Complete, FinishForget, ReaperExit,
     StopClose, StopJoin, StopUnlist, StopDone

(* The worker that holds a task moves it from stage to stage; anybody else *)
(* can only cancel it.                                                     *)
LEMMA StageStep == IInv /\ [Next]_vars => Stages'
<1> SUFFICES ASSUME DataTypeOK, ProcsTypeOK, SingleOwner, Unsubmitted, Unsent, Busy, Stages, [Next]_vars
             PROVE  Stages'
  BY DEF IInv, TypeOK
<1> DEFINE frame == <<taskVars, procVars>>
<1> USE SchedulerAssumption DEF DataTypeOK, QueueTypeOK, ProcsTypeOK, ProcTypeOK,
   SingleOwner, Reaping, Unsubmitted, Unsent, Busy, Stages, Stage, Procs, Store,
   Finish, SetState, CanSet, Taskless, WorkerLabels, queueVars, taskVars, storeVars,
   cancelVars, lifeVars, hookVars, procVars
<1>1. ASSUME NEW t \in Tasks, SubmitEnqueue(t) PROVE Stages'
  BY <1>1 DEF SubmitEnqueue, Enqueue, Goto
<1>2. ASSUME NEW t \in Tasks, SubmitReject(t) PROVE Stages'
  BY <1>2 DEF SubmitReject, Goto
<1>3. ASSUME NEW t \in Tasks, SubmitInsert(t) PROVE Stages'
  BY <1>3 DEF SubmitInsert, Goto
<1>4. ASSUME NEW w \in Workers, WorkerDequeue(w) PROVE Stages'
  BY <1>4 DEF WorkerDequeue, Dequeue, Goto
<1>5. ASSUME NEW w \in Workers, WorkerIdle(w) PROVE Stages'
  BY <1>5 DEF WorkerIdle, Goto
<1>6. ASSUME NEW w \in Workers, WorkerWake(w) PROVE Stages'
  BY <1>6 DEF WorkerWake, Goto
<1>7. ASSUME NEW w \in Workers, WorkerExit(w) PROVE Stages'
  BY <1>7 DEF WorkerExit, Goto
<1>8. ASSUME NEW w \in Workers, WorkerAssign(w) PROVE Stages'
  BY <1>8 DEF WorkerAssign, Advance, Goto
<1>9. ASSUME NEW w \in Workers, WorkerRegister(w) PROVE Stages'
  BY <1>9 DEF WorkerRegister, Goto
<1>10. ASSUME NEW w \in Workers, WorkerRun(w) PROVE Stages'
  BY <1>10 DEF WorkerRun, Advance, Goto
<1>11. ASSUME NEW w \in Workers, WorkerExec(w) PROVE Stages'
  BY <1>11 DEF WorkerExec, Goto
<1>12. ASSUME NEW w \in Workers, WorkerSettle(w) PROVE Stages'
  BY <1>12 DEF WorkerSettle, Goto
<1>13. ASSUME NEW w \in Workers, WorkerUnregister(w) PROVE Stages'
  BY <1>13 DEF WorkerUnregister, Goto
<1>14. ASSUME NEW c \in Cancellers, CancelLookup(c) PROVE Stages'
  BY <1>14 DEF CancelLookup, Goto
<1>15. ASSUME NEW c \in Cancellers, CancelRemove(c) PROVE Stages'
  BY <1>15 DEF CancelRemove, Remove, Take, Goto
<1>16. ASSUME NEW c \in Cancellers, CancelSignal(c) PROVE Stages'
  BY <1>16 DEF CancelSignal, Goto
<1>17. ASSUME NEW c \in Cancellers, CancelMark(c) PROVE Stages'
  BY <1>17 DEF CancelMark, Goto
<1>18. ASSUME NEW c \in Cancellers, CancelFails(c) PROVE Stages'
  BY <1>18 DEF CancelFails, Goto
<1>19. ASSUME NEW p \in Procs, StoreAtOnce(p) PROVE Stages'
  BY <1>19 DEF StoreAtOnce, Goto
<1>20. ASSUME NEW p \in Procs, StoreSnap(p) PROVE Stages'
  BY <1>20 DEF StoreSnap, Goto
<1>21. ASSUME NEW p \in Procs, StorePut(p) PROVE Stages'
  BY <1>21 DEF StorePut, Goto
<1>22. ASSUME NEW p \in Procs, FinishComplete(p) PROVE Stages'
  BY <1>22 DEF FinishComplete, Complete, Goto
<1>23. ASSUME NEW p \in Procs, FinishForget(p) PROVE Stages'
  BY <1>23 DEF FinishForget, AfterFinish, Goto
<1>24. CASE ReaperScan
  BY <1>24 DEF ReaperScan, ExpireDeadlined, Take, Goto
<1>25. CASE ReaperExpire
  BY <1>25 DEF ReaperExpire, Goto
<1>26. CASE ReaperExit
  BY <1>26 DEF ReaperExit, Goto
<1>27. CASE StopClose
  BY <1>27 DEF StopClose, Goto
<1>28. CASE StopJoin
  BY <1>28 DEF StopJoin, Goto
<1>29. CASE StopCancels
  BY <1>29 DEF StopCancels, Goto
<1>30. CASE StopUnlist
  BY <1>30 DEF StopUnlist, Goto
<1>31. CASE StopDone
  BY <1>31 DEF StopDone, Goto
<1>32. CASE UNCHANGED frame
  BY <1>32
<1> HIDE DEF DataTypeOK, QueueTypeOK, ProcsTypeOK, ProcTypeOK, Unsubmitted, Busy, Unsent,
   Stages, Stage, SingleOwner, Terminal, States
<1> QED
  BY <1>1, <1>2, <1>3, <1>4, <1>5, <1>6, <1>7, <1>8, <1>9, <1>10, <1>11, <1>12,
     <1>13, <1>14, <1>15, <1>16, <1>17, <1>18, <1>19, <1>20, <1>21, <1>22, <1>23,
     <1>24, <1>25, <1>26, <1>27, <1>28, <1>29, <1>30, <1>31, <1>32 DEF Next, vars,
     Start, Evict, WebhookReturns, StopSkips, SubmitReturns, WorkerStep, WorkerPark,
     CancelReturns, ReaperFinishes, StopReturns, StoreStep, FinishStep

----------------------------------------------------------------------------------
(* The theorems.                                                           *)

LEMMA InitInv == Init => IInv
<1> SUFFICES ASSUME Init PROVE IInv
  OBVIOUS
<1>1. TypeOK
  BY InitType
<1>2. SingleOwner /\ Stages
  BY SchedulerAssumption DEF Init, QueueInit, SingleOwner, Reaping, Stages, Procs
<1>3. Unsubmitted /\ Unsent /\ Busy
  BY SchedulerAssumption DEF Init, QueueInit, Unsubmitted, Unsent, Busy, Procs
<1> QED
  BY <1>1, <1>2, <1>3 DEF IInv

THEOREM Invariance == Spec => []IInv
<1>1. IInv /\ [Next]_vars => IInv'
  BY DataStep, ProcsStep, FlagsStep, SelectStep, OwnerStep, UnsubmittedStep, UnsentStep, BusyStep,
     StageStep DEF IInv, TypeOK
<1> QED
  BY InitInv, <1>1, PTL DEF Spec

(* No two of the queue, the workers and the reaper ever hold the same      *)
(* task (Dequeue, Remove and ExpireDeadlined against each other).          *)
THEOREM Ownership == Spec => []SingleOwner
<1>1. IInv => SingleOwner
  BY DEF IInv
<1> QED
  BY Invariance, <1>1, PTL

(* Each step of the scheduler is a step of the task's lifecycle, or leaves *)
(* state and attempts alone.                                               *)
LEMMA LifecycleStep == IInv /\ [Next]_vars => [Lifecycle!Next]_(Lifecycle!vars)
<1> SUFFICES ASSUME IInv, [Next]_vars PROVE [Lifecycle!Next]_(Lifecycle!vars)
  OBVIOUS
<1> DEFINE Does == \/ UNCHANGED taskVars
                   \/ \E t \in Tasks :
                        \/ Lifecycle!Admit(t) \/ Lifecycle!Reject(t) \/ Lifecycle!Advance(t)
                        \/ Lifecycle!Send(t) \/ Lifecycle!Succeed(t) \/ Lifecycle!Fail(t)
                        \/ Lifecycle!Cancel(t)
<1> USE DEF taskVars
<1>0. DataTypeOK /\ ProcsTypeOK /\ Unsubmitted /\ Unsent /\ Stages
  BY DEF IInv, TypeOK
<1>1. ASSUME NEW t \in Tasks, SubmitEnqueue(t) PROVE Does
  BY <1>0, <1>1 DEF SubmitEnqueue, Unsubmitted, Lifecycle!Admit
<1>2. ASSUME NEW t \in Tasks, SubmitReject(t) PROVE Does
  BY <1>0, <1>2 DEF SubmitReject, Unsubmitted, Lifecycle!Reject
<1>3. ASSUME NEW w \in Workers, WorkerAssign(w) \/ WorkerRun(w) PROVE Does
  <2>1. cur[w] \in Tasks
    BY <1>0, <1>3, Working DEF WorkerAssign, WorkerRun, Taskless, Procs
  <2>2. Stage(w)
    BY <1>0, <2>1, SchedulerAssumption DEF Stages
  <2> QED
    BY <1>3, <2>1, <2>2 DEF WorkerAssign, WorkerRun, Advance, SetState, CanSet, Stage,
       Lifecycle!Advance
<1>4. ASSUME NEW w \in Workers, WorkerExec(w) PROVE Does
  <2>1. cur[w] \in Tasks
    BY <1>0, <1>4, Working DEF WorkerExec, Taskless, Procs
  <2>2. state[cur[w]] \in {"running", "cancelled"} /\ attempts[cur[w]] = 0
    BY <1>0, <1>4, <2>1, SchedulerAssumption DEF Stages, Stage, WorkerExec
  <2> QED
    BY <1>0, <1>4, <2>1, <2>2 DEF WorkerExec, DataTypeOK, Lifecycle!Send
<1>5. ASSUME NEW w \in Workers, WorkerSettle(w) PROVE Does
  <2>1. cur[w] \in Tasks
    BY <1>0, <1>5, Working DEF WorkerSettle, Taskless, Procs
  <2>2. /\ state[cur[w]] \in {"running", "cancelled"}
        /\ attempts[cur[w]] \in {0, 1}
    BY <1>0, <1>5, <2>1, SchedulerAssumption DEF Stages, Stage, WorkerSettle
  <2> QED
    BY <1>5, <2>1, <2>2 DEF WorkerSettle, SetState, CanSet, Lifecycle!Succeed, Lifecycle!Fail
<1>6. ASSUME NEW c \in Cancellers, CancelMark(c) PROVE Does
  <2>1. cur[c] \in Tasks
    BY <1>0, <1>6, Working DEF CancelMark, Taskless, Procs
  <2> QED
    BY <1>6, <2>1 DEF CancelMark, SetState, CanSet, Lifecycle!Cancel
<1>7. ASSUME ReaperExpire PROVE Does
  BY <1>0, <1>7 DEF ReaperExpire, DataTypeOK, SetState, CanSet, Lifecycle!Fail
<1>8. ASSUME StopCancels PROVE Does
  BY <1>0, <1>8 DEF StopCancels, DataTypeOK, SetState, CanSet, Lifecycle!Cancel
<1>9. ASSUME UNCHANGED taskVars PROVE Does
  BY <1>9
<1>10. Does
  BY <1>1, <1>2, <1>3, <1>4, <1>5, <1>6, <1>7, <1>8, <1>9
     DEF Next, vars, Start, Evict, WebhookReturns, ReaperScan, StopSkips, SubmitReturns,
         SubmitInsert, WorkerStep, WorkerDequeue, WorkerIdle, WorkerPark, WorkerWake, WorkerExit,
         WorkerRegister, WorkerUnregister, CancelLookup, CancelReturns, CancelRemove,
         CancelSignal, CancelFails, ReaperFinishes, ReaperExit, StopReturns, StopClose,
         StopJoin, StopUnlist, StopDone, StoreStep, StoreAtOnce, StoreSnap, StorePut,
         FinishStep, FinishComplete, FinishForget
<1> QED
  BY <1>10 DEF Lifecycle!Next, Lifecycle!vars

(* The scheduler implements TaskLifecycle: whatever Submit, the workers,   *)
(* Cancel, the reaper and Stop do to a task between them, it is admitted   *)
(* or rejected once, sent at most once, and keeps its first terminal state.*)
THEOREM Implementation == Spec => ImplementsLifecycle
<1>1. Init => Lifecycle!Init
  BY DEF Init, Lifecycle!Init
<1> QED
  BY Invariance, LifecycleStep, <1>1, PTL DEF Spec, ImplementsLifecycle, Lifecycle!Spec

==================================================================================

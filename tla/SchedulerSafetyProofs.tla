-------------------------- MODULE SchedulerSafetyProofs --------------------------
(***************************************************************************)
(* That the scheduler neither loses nor hides a task and that what it      *)
(* stores of an ended task is true: for any number of tasks, agents,       *)
(* workers and Cancel calls, any limits, and either granularity of Store.  *)
(***************************************************************************)
EXTENDS SchedulerProofs

(* Where a process goes on once it has stored its task.                    *)
At(p) == IF pc[p] \in {"snap", "put"} THEN ret[p] ELSE pc[p]

(* What a process finishes, or unlists, has ended.                         *)
Ended ==
  \A p \in Procs :
    At(p) \in {"complete", "forget", "unregister", "unlist"} => state[cur[p]] \in Terminal

(* What the reaper took out of the queue nobody has moved on.              *)
Expired == \A t \in batch : state[t] \in {"queued", "cancelled"}

(* A Submit call that is past its insertion left the task in the live map, *)
(* unless it has ended.                                                    *)
Findable ==
  \A t \in Tasks : pc[t] \in {"snap", "put", "returned"} =>
    t \in live \/ state[t] \in Terminal

(* A copy taken of an ended task shows how it ended.                       *)
CopiedEndIsTrue ==
  \A p \in Procs : pc[p] = "put" /\ snap[p] \in Terminal => snap[p] = state[cur[p]]

(* The inductive invariant: the types and owners of SchedulerProofs, and   *)
(* where tasks and their copies are.                                       *)
TaskInv ==
  /\ IInv
  /\ Expired /\ Ended
  /\ Findable
  /\ CopiedEndIsTrue /\ StoredEndIsTrue
  /\ NoTaskLost

----------------------------------------------------------------------------------
(* Where tasks are and how they end.                                       *)

(* No step changes the state of a task that has ended.                     *)
LEMMA EndsAreFinal ==
  IInv /\ [Next]_vars => \A t \in Tasks : state[t] \in Terminal => state'[t] = state[t]
<1> SUFFICES ASSUME IInv, [Next]_vars, NEW t \in Tasks, state[t] \in Terminal
             PROVE  state'[t] = state[t]
  OBVIOUS
<1>1. [Lifecycle!Next]_(Lifecycle!vars) /\ state \in [Tasks -> States]
  BY LifecycleStep DEF IInv, TypeOK, DataTypeOK
<1> QED
  BY <1>1 DEF Terminal, States, Lifecycle!Next, Lifecycle!vars, Lifecycle!Admit,
     Lifecycle!Reject, Lifecycle!Advance, Lifecycle!Send, Lifecycle!Succeed, Lifecycle!Fail,
     Lifecycle!Cancel

(* The reaper's tasks are out of the workers' reach: all that can happen   *)
(* to them is a cancellation.                                              *)
LEMMA ExpiredStep == IInv /\ Expired /\ [Next]_vars => Expired'
<1> SUFFICES ASSUME DataTypeOK, ProcsTypeOK, SingleOwner, Unsubmitted, Unsent, Busy,
                    Expired, [Next]_vars
             PROVE  Expired'
  BY DEF IInv, TypeOK
<1> DEFINE frame == <<state, batch>>
<1> USE SchedulerAssumption DEF DataTypeOK, QueueTypeOK, ProcsTypeOK, ProcTypeOK,
   Procs, Goto, Store, Finish, SetState, CanSet, queueVars, taskVars, storeVars,
   cancelVars, lifeVars, hookVars, procVars, SingleOwner, Reaping, Unsubmitted,
   Unsent, Busy, Expired, Taskless
<1>1. ASSUME NEW t \in Tasks, SubmitEnqueue(t) PROVE Expired'
  BY <1>1 DEF SubmitEnqueue, Enqueue
<1>2. ASSUME NEW t \in Tasks, SubmitReject(t) PROVE Expired'
  BY <1>2 DEF SubmitReject
<1>3. ASSUME NEW w \in Workers, WorkerAssign(w) PROVE Expired'
  BY <1>3 DEF WorkerAssign, Advance
<1>4. ASSUME NEW w \in Workers, WorkerRun(w) PROVE Expired'
  BY <1>4 DEF WorkerRun, Advance
<1>5. ASSUME NEW w \in Workers, WorkerSettle(w) PROVE Expired'
  BY <1>5 DEF WorkerSettle
<1>6. ASSUME NEW c \in Cancellers, CancelMark(c) PROVE Expired'
  BY <1>6 DEF CancelMark
<1>7. CASE ReaperScan
  BY <1>7 DEF ReaperScan, ExpireDeadlined, Take
<1>8. CASE ReaperExpire
  BY <1>8 DEF ReaperExpire
<1>9. CASE StopCancels
  BY <1>9 DEF StopCancels
<1>10. CASE UNCHANGED frame
  BY <1>10
<1> HIDE DEF DataTypeOK, QueueTypeOK, ProcsTypeOK, ProcTypeOK, SingleOwner, Unsubmitted, Unsent,
   Busy, Expired, SetState, CanSet, Taskless, Reaping, Procs, Goto, Finish, Store
<1> QED
  BY <1>1, <1>2, <1>3, <1>4, <1>5, <1>6, <1>7, <1>8, <1>9, <1>10 DEF Next, vars,
     SubmitReturns, WorkerStep, CancelReturns, ReaperFinishes, StopReturns,
     StoreStep, FinishStep, SubmitInsert, WorkerDequeue, Dequeue, WorkerIdle, WorkerPark,
     WorkerWake, WorkerExit, WorkerRegister, WorkerExec, WorkerUnregister,
     CancelLookup, CancelRemove, Remove, Take, CancelSignal, CancelFails,
     StoreAtOnce, StoreSnap, StorePut, FinishComplete, Complete, FinishForget,
     AfterFinish, ReaperExit, StopClose, StopJoin, StopUnlist, StopSkips, StopDone,
     Start, Evict, WebhookReturns

(* finishTask is called for a task that has ended: its caller has just set *)
(* a terminal state, or was refused because there was one.                 *)
LEMMA EndedStep == IInv /\ Expired /\ Ended /\ [Next]_vars => Ended'
<1> SUFFICES ASSUME DataTypeOK, ProcsTypeOK, Unsubmitted, Busy, Stages, Expired, Ended,
                    [Next]_vars
             PROVE  Ended'
  BY DEF IInv, TypeOK
<1> DEFINE frame == <<state, procVars>>
<1> USE SchedulerAssumption DEF DataTypeOK, QueueTypeOK, ProcsTypeOK, ProcTypeOK,
   Procs, Goto, Store, Finish, SetState, CanSet, queueVars, taskVars, storeVars,
   cancelVars, lifeVars, hookVars, procVars, Unsubmitted, Busy, Stages, Stage,
   Expired, Ended, At, Terminal, States, Taskless, SubmitLabels, WorkerLabels,
   CancelLabels, ReaperLabels, StopLabels
<1>1. ASSUME NEW t \in Tasks, SubmitEnqueue(t) PROVE Ended'
  BY <1>1 DEF SubmitEnqueue, Enqueue
<1>2. ASSUME NEW t \in Tasks, SubmitReject(t) PROVE Ended'
  BY <1>2 DEF SubmitReject
<1>3. ASSUME NEW t \in Tasks, SubmitInsert(t) PROVE Ended'
  BY <1>3 DEF SubmitInsert
<1>4. ASSUME NEW w \in Workers, WorkerDequeue(w) PROVE Ended'
  BY <1>4 DEF WorkerDequeue, Dequeue
<1>5. ASSUME NEW w \in Workers, WorkerIdle(w) PROVE Ended'
  BY <1>5 DEF WorkerIdle
<1>6. ASSUME NEW w \in Workers, WorkerWake(w) PROVE Ended'
  BY <1>6 DEF WorkerWake
<1>7. ASSUME NEW w \in Workers, WorkerExit(w) PROVE Ended'
  BY <1>7 DEF WorkerExit
<1>8. ASSUME NEW w \in Workers, WorkerAssign(w) PROVE Ended'
  BY <1>8 DEF WorkerAssign, Advance
<1>9. ASSUME NEW w \in Workers, WorkerRegister(w) PROVE Ended'
  BY <1>9 DEF WorkerRegister
<1>10. ASSUME NEW w \in Workers, WorkerRun(w) PROVE Ended'
  BY <1>10 DEF WorkerRun, Advance
<1>11. ASSUME NEW w \in Workers, WorkerExec(w) PROVE Ended'
  BY <1>11 DEF WorkerExec
<1>12. ASSUME NEW w \in Workers, WorkerSettle(w) PROVE Ended'
  BY <1>12 DEF WorkerSettle
<1>13. ASSUME NEW w \in Workers, WorkerUnregister(w) PROVE Ended'
  BY <1>13 DEF WorkerUnregister
<1>14. ASSUME NEW c \in Cancellers, CancelLookup(c) PROVE Ended'
  BY <1>14 DEF CancelLookup
<1>15. ASSUME NEW c \in Cancellers, CancelRemove(c) PROVE Ended'
  BY <1>15 DEF CancelRemove, Remove, Take
<1>16. ASSUME NEW c \in Cancellers, CancelSignal(c) PROVE Ended'
  BY <1>16 DEF CancelSignal
<1>17. ASSUME NEW c \in Cancellers, CancelMark(c) PROVE Ended'
  BY <1>17 DEF CancelMark
<1>18. ASSUME NEW c \in Cancellers, CancelFails(c) PROVE Ended'
  BY <1>18 DEF CancelFails
<1>19. ASSUME NEW p \in Procs, StoreAtOnce(p) PROVE Ended'
  BY <1>19 DEF StoreAtOnce
<1>20. ASSUME NEW p \in Procs, StoreSnap(p) PROVE Ended'
  BY <1>20 DEF StoreSnap
<1>21. ASSUME NEW p \in Procs, StorePut(p) PROVE Ended'
  BY <1>21 DEF StorePut
<1>22. ASSUME NEW p \in Procs, FinishComplete(p) PROVE Ended'
  BY <1>22 DEF FinishComplete, Complete
<1>23. ASSUME NEW p \in Procs, FinishForget(p) PROVE Ended'
  BY <1>23 DEF FinishForget, AfterFinish
<1>24. CASE ReaperExpire
  BY <1>24 DEF ReaperExpire
<1>25. CASE ReaperExit
  BY <1>25 DEF ReaperExit
<1>26. CASE StopClose
  BY <1>26 DEF StopClose
<1>27. CASE StopJoin
  BY <1>27 DEF StopJoin
<1>28. CASE StopCancels
  BY <1>28 DEF StopCancels
<1>29. CASE StopUnlist
  BY <1>29 DEF StopUnlist
<1>30. CASE StopDone
  BY <1>30 DEF StopDone
<1>31. CASE UNCHANGED frame
  BY <1>31
<1> HIDE DEF DataTypeOK, QueueTypeOK, ProcsTypeOK, ProcTypeOK, Unsubmitted, Busy, Stages,
   Stage, Expired, Ended, Terminal, States
<1> QED
  BY <1>1, <1>2, <1>3, <1>4, <1>5, <1>6, <1>7, <1>8, <1>9, <1>10, <1>11, <1>12,
     <1>13, <1>14, <1>15, <1>16, <1>17, <1>18, <1>19, <1>20, <1>21, <1>22, <1>23,
     <1>24, <1>25, <1>26, <1>27, <1>28, <1>29, <1>30, <1>31 DEF Next, vars,
     SubmitReturns, WorkerStep, WorkerPark, CancelReturns, ReaperFinishes, StopReturns,
     StoreStep, FinishStep, ReaperScan, ExpireDeadlined, Take, StopSkips, Start,
     Evict, WebhookReturns

(* Submit inserts the task before it returns, and only finishTask and Stop *)
(* take it out of the live map, after its end.                             *)
LEMMA FindableStep == IInv /\ Ended /\ Findable /\ [Next]_vars => Findable'
<1> SUFFICES ASSUME DataTypeOK, ProcsTypeOK, Ended, Findable, \A t \in Tasks : state[t]
                    \in Terminal => state'[t] = state[t], [Next]_vars
             PROVE  Findable'
  BY EndsAreFinal DEF IInv, TypeOK
<1> DEFINE frame == <<state, live, pc>>
<1> USE SchedulerAssumption DEF DataTypeOK, ProcsTypeOK, ProcTypeOK, Procs, Goto,
   Store, Finish, Ended, At, Findable, Terminal, SubmitLabels, queueVars, taskVars,
   storeVars, cancelVars, lifeVars, hookVars, procVars
<1>1. ASSUME NEW t \in Tasks, SubmitEnqueue(t) PROVE Findable'
  BY <1>1 DEF SubmitEnqueue, Enqueue
<1>2. ASSUME NEW t \in Tasks, SubmitReject(t) PROVE Findable'
  BY <1>2 DEF SubmitReject
<1>3. ASSUME NEW t \in Tasks, SubmitInsert(t) PROVE Findable'
  BY <1>3 DEF SubmitInsert
<1>4. ASSUME NEW w \in Workers, WorkerDequeue(w) PROVE Findable'
  BY <1>4 DEF WorkerDequeue, Dequeue
<1>5. ASSUME NEW w \in Workers, WorkerIdle(w) PROVE Findable'
  BY <1>5 DEF WorkerIdle
<1>6. ASSUME NEW w \in Workers, WorkerWake(w) PROVE Findable'
  BY <1>6 DEF WorkerWake
<1>7. ASSUME NEW w \in Workers, WorkerExit(w) PROVE Findable'
  BY <1>7 DEF WorkerExit
<1>8. ASSUME NEW w \in Workers, WorkerAssign(w) PROVE Findable'
  BY <1>8 DEF WorkerAssign, Advance
<1>9. ASSUME NEW w \in Workers, WorkerRegister(w) PROVE Findable'
  BY <1>9 DEF WorkerRegister
<1>10. ASSUME NEW w \in Workers, WorkerRun(w) PROVE Findable'
  BY <1>10 DEF WorkerRun, Advance
<1>11. ASSUME NEW w \in Workers, WorkerExec(w) PROVE Findable'
  BY <1>11 DEF WorkerExec
<1>12. ASSUME NEW w \in Workers, WorkerSettle(w) PROVE Findable'
  BY <1>12 DEF WorkerSettle
<1>13. ASSUME NEW w \in Workers, WorkerUnregister(w) PROVE Findable'
  BY <1>13 DEF WorkerUnregister
<1>14. ASSUME NEW c \in Cancellers, CancelLookup(c) PROVE Findable'
  BY <1>14 DEF CancelLookup
<1>15. ASSUME NEW c \in Cancellers, CancelRemove(c) PROVE Findable'
  BY <1>15 DEF CancelRemove, Remove, Take
<1>16. ASSUME NEW c \in Cancellers, CancelSignal(c) PROVE Findable'
  BY <1>16 DEF CancelSignal
<1>17. ASSUME NEW c \in Cancellers, CancelMark(c) PROVE Findable'
  BY <1>17 DEF CancelMark
<1>18. ASSUME NEW c \in Cancellers, CancelFails(c) PROVE Findable'
  BY <1>18 DEF CancelFails
<1>19. ASSUME NEW p \in Procs, StoreAtOnce(p) PROVE Findable'
  BY <1>19 DEF StoreAtOnce
<1>20. ASSUME NEW p \in Procs, StoreSnap(p) PROVE Findable'
  BY <1>20 DEF StoreSnap
<1>21. ASSUME NEW p \in Procs, StorePut(p) PROVE Findable'
  BY <1>21 DEF StorePut
<1>22. ASSUME NEW p \in Procs, FinishComplete(p) PROVE Findable'
  BY <1>22 DEF FinishComplete, Complete
<1>23. ASSUME NEW p \in Procs, FinishForget(p) PROVE Findable'
  BY <1>23 DEF FinishForget, AfterFinish
<1>24. CASE ReaperExpire
  BY <1>24 DEF ReaperExpire
<1>25. CASE ReaperExit
  BY <1>25 DEF ReaperExit
<1>26. CASE StopClose
  BY <1>26 DEF StopClose
<1>27. CASE StopJoin
  BY <1>27 DEF StopJoin
<1>28. CASE StopCancels
  BY <1>28 DEF StopCancels
<1>29. CASE StopUnlist
  BY <1>29 DEF StopUnlist
<1>30. CASE StopSkips
  BY <1>30 DEF StopSkips
<1>31. CASE StopDone
  BY <1>31 DEF StopDone
<1>32. CASE UNCHANGED frame
  BY <1>32
<1> QED
  BY <1>1, <1>2, <1>3, <1>4, <1>5, <1>6, <1>7, <1>8, <1>9, <1>10, <1>11, <1>12,
     <1>13, <1>14, <1>15, <1>16, <1>17, <1>18, <1>19, <1>20, <1>21, <1>22, <1>23,
     <1>24, <1>25, <1>26, <1>27, <1>28, <1>29, <1>30, <1>31, <1>32 DEF Next, vars,
     SubmitReturns, WorkerStep, WorkerPark, CancelReturns, ReaperFinishes, StopReturns,
     StoreStep, FinishStep, ReaperScan, ExpireDeadlined, Take, Start, Evict,
     WebhookReturns

(* Store writes what it read, and an end it read cannot change before it   *)
(* is written.                                                             *)
LEMMA CopiesStep ==
  IInv /\ CopiedEndIsTrue /\ StoredEndIsTrue /\ [Next]_vars =>
    (CopiedEndIsTrue /\ StoredEndIsTrue)'
<1> SUFFICES ASSUME DataTypeOK, ProcsTypeOK, CopiedEndIsTrue, StoredEndIsTrue, \A t \in
                    Tasks : state[t] \in Terminal => state'[t] = state[t], [Next]_vars
             PROVE  (CopiedEndIsTrue /\ StoredEndIsTrue)'
  BY EndsAreFinal DEF IInv, TypeOK
<1> DEFINE frame == <<state, storeVars, pc, cur>>
<1> USE SchedulerAssumption DEF DataTypeOK, ProcsTypeOK, ProcTypeOK, Procs, Goto,
   Store, Finish, CopiedEndIsTrue, StoredEndIsTrue, Terminal, Taskless, queueVars,
   taskVars, storeVars, cancelVars, lifeVars, hookVars, procVars
<1>1. ASSUME NEW t \in Tasks, SubmitEnqueue(t) PROVE (CopiedEndIsTrue /\ StoredEndIsTrue)'
  BY <1>1 DEF SubmitEnqueue, Enqueue
<1>2. ASSUME NEW t \in Tasks, SubmitReject(t) PROVE (CopiedEndIsTrue /\ StoredEndIsTrue)'
  BY <1>2 DEF SubmitReject
<1>3. ASSUME NEW t \in Tasks, SubmitInsert(t) PROVE (CopiedEndIsTrue /\ StoredEndIsTrue)'
  BY <1>3 DEF SubmitInsert
<1>4. ASSUME NEW w \in Workers, WorkerDequeue(w) PROVE (CopiedEndIsTrue /\ StoredEndIsTrue)'
  BY <1>4 DEF WorkerDequeue, Dequeue
<1>5. ASSUME NEW w \in Workers, WorkerIdle(w) PROVE (CopiedEndIsTrue /\ StoredEndIsTrue)'
  BY <1>5 DEF WorkerIdle
<1>6. ASSUME NEW w \in Workers, WorkerWake(w) PROVE (CopiedEndIsTrue /\ StoredEndIsTrue)'
  BY <1>6 DEF WorkerWake
<1>7. ASSUME NEW w \in Workers, WorkerExit(w) PROVE (CopiedEndIsTrue /\ StoredEndIsTrue)'
  BY <1>7 DEF WorkerExit
<1>8. ASSUME NEW w \in Workers, WorkerAssign(w) PROVE (CopiedEndIsTrue /\ StoredEndIsTrue)'
  BY <1>8 DEF WorkerAssign, Advance
<1>9. ASSUME NEW w \in Workers, WorkerRegister(w) PROVE (CopiedEndIsTrue /\ StoredEndIsTrue)'
  BY <1>9 DEF WorkerRegister
<1>10. ASSUME NEW w \in Workers, WorkerRun(w) PROVE (CopiedEndIsTrue /\ StoredEndIsTrue)'
  BY <1>10 DEF WorkerRun, Advance
<1>11. ASSUME NEW w \in Workers, WorkerExec(w) PROVE (CopiedEndIsTrue /\ StoredEndIsTrue)'
  BY <1>11 DEF WorkerExec
<1>12. ASSUME NEW w \in Workers, WorkerSettle(w) PROVE (CopiedEndIsTrue /\ StoredEndIsTrue)'
  BY <1>12 DEF WorkerSettle
<1>13. ASSUME NEW w \in Workers, WorkerUnregister(w) PROVE (CopiedEndIsTrue /\ StoredEndIsTrue)'
  BY <1>13 DEF WorkerUnregister
<1>14. ASSUME NEW c \in Cancellers, CancelLookup(c) PROVE (CopiedEndIsTrue /\ StoredEndIsTrue)'
  BY <1>14 DEF CancelLookup
<1>15. ASSUME NEW c \in Cancellers, CancelRemove(c) PROVE (CopiedEndIsTrue /\ StoredEndIsTrue)'
  BY <1>15 DEF CancelRemove, Remove, Take
<1>16. ASSUME NEW c \in Cancellers, CancelSignal(c) PROVE (CopiedEndIsTrue /\ StoredEndIsTrue)'
  BY <1>16 DEF CancelSignal
<1>17. ASSUME NEW c \in Cancellers, CancelMark(c) PROVE (CopiedEndIsTrue /\ StoredEndIsTrue)'
  BY <1>17 DEF CancelMark
<1>18. ASSUME NEW c \in Cancellers, CancelFails(c) PROVE (CopiedEndIsTrue /\ StoredEndIsTrue)'
  BY <1>18 DEF CancelFails
<1>19. ASSUME NEW p \in Procs, StoreAtOnce(p) PROVE (CopiedEndIsTrue /\ StoredEndIsTrue)'
  BY <1>19 DEF StoreAtOnce
<1>20. ASSUME NEW p \in Procs, StoreSnap(p) PROVE (CopiedEndIsTrue /\ StoredEndIsTrue)'
  BY <1>20 DEF StoreSnap
<1>21. ASSUME NEW p \in Procs, StorePut(p) PROVE (CopiedEndIsTrue /\ StoredEndIsTrue)'
  BY <1>21 DEF StorePut
<1>22. ASSUME NEW p \in Procs, FinishComplete(p) PROVE (CopiedEndIsTrue /\ StoredEndIsTrue)'
  BY <1>22 DEF FinishComplete, Complete
<1>23. ASSUME NEW p \in Procs, FinishForget(p) PROVE (CopiedEndIsTrue /\ StoredEndIsTrue)'
  BY <1>23 DEF FinishForget, AfterFinish
<1>24. CASE ReaperExpire
  BY <1>24 DEF ReaperExpire
<1>25. CASE ReaperExit
  BY <1>25 DEF ReaperExit
<1>26. CASE StopClose
  BY <1>26 DEF StopClose
<1>27. CASE StopJoin
  BY <1>27 DEF StopJoin
<1>28. CASE StopCancels
  BY <1>28 DEF StopCancels
<1>29. CASE StopUnlist
  BY <1>29 DEF StopUnlist
<1>30. CASE StopDone
  BY <1>30 DEF StopDone
<1>31. ASSUME NEW t \in Tasks, Evict(t) PROVE (CopiedEndIsTrue /\ StoredEndIsTrue)'
  BY <1>31 DEF Evict
<1>32. CASE UNCHANGED frame
  BY <1>32
<1> QED
  BY <1>1, <1>2, <1>3, <1>4, <1>5, <1>6, <1>7, <1>8, <1>9, <1>10, <1>11, <1>12,
     <1>13, <1>14, <1>15, <1>16, <1>17, <1>18, <1>19, <1>20, <1>21, <1>22, <1>23,
     <1>24, <1>25, <1>26, <1>27, <1>28, <1>29, <1>30, <1>31, <1>32 DEF Next, vars,
     SubmitReturns, WorkerStep, WorkerPark, CancelReturns, ReaperFinishes, StopReturns,
     StoreStep, FinishStep, ReaperScan, ExpireDeadlined, Take, StopSkips, Start,
     WebhookReturns

(* Whoever takes a task out of the queue has it until it has ended.        *)
LEMMA LostStep == IInv /\ Ended /\ NoTaskLost /\ [Next]_vars => NoTaskLost'
<1> SUFFICES ASSUME DataTypeOK, ProcsTypeOK, Busy, Ended, NoTaskLost, \A t \in Tasks :
                    state[t] \in Terminal => state'[t] = state[t], [Next]_vars
             PROVE  NoTaskLost'
  BY EndsAreFinal DEF IInv, TypeOK
<1> DEFINE frame == <<queue, state, batch, pc, cur>>
<1> USE SchedulerAssumption DEF DataTypeOK, QueueTypeOK, ProcsTypeOK, ProcTypeOK,
   Procs, Goto, Store, Finish, SetState, CanSet, queueVars, taskVars, storeVars,
   cancelVars, lifeVars, hookVars, procVars, NoTaskLost, Ended, At, Busy, Reaping,
   Terminal, States, Taskless, ReaperLabels, WorkerLabels
<1>1. ASSUME NEW t \in Tasks, SubmitEnqueue(t) PROVE NoTaskLost'
  BY <1>1 DEF SubmitEnqueue, Enqueue
<1>2. ASSUME NEW t \in Tasks, SubmitReject(t) PROVE NoTaskLost'
  BY <1>2 DEF SubmitReject
<1>3. ASSUME NEW t \in Tasks, SubmitInsert(t) PROVE NoTaskLost'
  BY <1>3 DEF SubmitInsert
<1>4. ASSUME NEW w \in Workers, WorkerDequeue(w) PROVE NoTaskLost'
  BY <1>4 DEF WorkerDequeue, Dequeue
<1>5. ASSUME NEW w \in Workers, WorkerIdle(w) PROVE NoTaskLost'
  BY <1>5 DEF WorkerIdle
<1>6. ASSUME NEW w \in Workers, WorkerWake(w) PROVE NoTaskLost'
  BY <1>6 DEF WorkerWake
<1>7. ASSUME NEW w \in Workers, WorkerExit(w) PROVE NoTaskLost'
  BY <1>7 DEF WorkerExit
<1>8. ASSUME NEW w \in Workers, WorkerAssign(w) PROVE NoTaskLost'
  BY <1>8 DEF WorkerAssign, Advance
<1>9. ASSUME NEW w \in Workers, WorkerRegister(w) PROVE NoTaskLost'
  BY <1>9 DEF WorkerRegister
<1>10. ASSUME NEW w \in Workers, WorkerRun(w) PROVE NoTaskLost'
  BY <1>10 DEF WorkerRun, Advance
<1>11. ASSUME NEW w \in Workers, WorkerExec(w) PROVE NoTaskLost'
  BY <1>11 DEF WorkerExec
<1>12. ASSUME NEW w \in Workers, WorkerSettle(w) PROVE NoTaskLost'
  BY <1>12 DEF WorkerSettle
<1>13. ASSUME NEW w \in Workers, WorkerUnregister(w) PROVE NoTaskLost'
  BY <1>13 DEF WorkerUnregister
<1>14. ASSUME NEW c \in Cancellers, CancelLookup(c) PROVE NoTaskLost'
  BY <1>14 DEF CancelLookup
<1>15. ASSUME NEW c \in Cancellers, CancelRemove(c) PROVE NoTaskLost'
  BY <1>15 DEF CancelRemove, Remove, Take
<1>16. ASSUME NEW c \in Cancellers, CancelSignal(c) PROVE NoTaskLost'
  BY <1>16 DEF CancelSignal
<1>17. ASSUME NEW c \in Cancellers, CancelMark(c) PROVE NoTaskLost'
  BY <1>17 DEF CancelMark
<1>18. ASSUME NEW c \in Cancellers, CancelFails(c) PROVE NoTaskLost'
  BY <1>18 DEF CancelFails
<1>19. ASSUME NEW p \in Procs, StoreAtOnce(p) PROVE NoTaskLost'
  BY <1>19 DEF StoreAtOnce
<1>20. ASSUME NEW p \in Procs, StoreSnap(p) PROVE NoTaskLost'
  BY <1>20 DEF StoreSnap
<1>21. ASSUME NEW p \in Procs, StorePut(p) PROVE NoTaskLost'
  BY <1>21 DEF StorePut
<1>22. ASSUME NEW p \in Procs, FinishComplete(p) PROVE NoTaskLost'
  BY <1>22 DEF FinishComplete, Complete
<1>23. ASSUME NEW p \in Procs, FinishForget(p) PROVE NoTaskLost'
  BY <1>23 DEF FinishForget, AfterFinish
<1>24. CASE ReaperScan
  BY <1>24 DEF ReaperScan, ExpireDeadlined, Take
<1>25. CASE ReaperExpire
  BY <1>25 DEF ReaperExpire
<1>26. CASE ReaperExit
  BY <1>26 DEF ReaperExit
<1>27. CASE StopClose
  BY <1>27 DEF StopClose
<1>28. CASE StopJoin
  BY <1>28 DEF StopJoin
<1>29. CASE StopCancels
  BY <1>29 DEF StopCancels
<1>30. CASE StopUnlist
  BY <1>30 DEF StopUnlist
<1>31. CASE StopDone
  BY <1>31 DEF StopDone
<1>32. CASE UNCHANGED frame
  BY <1>32
<1> QED
  BY <1>1, <1>2, <1>3, <1>4, <1>5, <1>6, <1>7, <1>8, <1>9, <1>10, <1>11, <1>12,
     <1>13, <1>14, <1>15, <1>16, <1>17, <1>18, <1>19, <1>20, <1>21, <1>22, <1>23,
     <1>24, <1>25, <1>26, <1>27, <1>28, <1>29, <1>30, <1>31, <1>32 DEF Next, vars,
     SubmitReturns, WorkerStep, WorkerPark, CancelReturns, ReaperFinishes, StopReturns,
     StoreStep, FinishStep, StopSkips, Start, Evict, WebhookReturns

LEMMA InitTaskInv == Init => TaskInv
<1> SUFFICES ASSUME Init PROVE TaskInv
  OBVIOUS
<1>1. IInv
  BY InitInv
<1>2. Expired /\ Ended
  BY SchedulerAssumption DEF Init, Expired, Ended, At, Procs
<1>3. Findable /\ CopiedEndIsTrue /\ StoredEndIsTrue /\ NoTaskLost
  BY SchedulerAssumption DEF Init, Findable, CopiedEndIsTrue, StoredEndIsTrue, NoTaskLost,
     Terminal, Procs
<1> QED
  BY <1>1, <1>2, <1>3 DEF TaskInv

LEMMA TaskInvStep == TaskInv /\ [Next]_vars => TaskInv'
<1>1. IInv /\ [Next]_vars => IInv'
  BY DataStep, ProcsStep, FlagsStep, SelectStep, OwnerStep, UnsubmittedStep, UnsentStep, BusyStep,
     StageStep DEF IInv, TypeOK
<1> QED
  BY <1>1, ExpiredStep, EndedStep, FindableStep, CopiesStep, LostStep DEF TaskInv

(* The inductive invariant holds of every behaviour of the scheduler.      *)
THEOREM TaskInvariance == Spec => []TaskInv
BY InitTaskInv, TaskInvStep, PTL DEF Spec

(* No admitted task is lost between the queue, the workers, the reaper and *)
(* a Cancel that took it out of the queue (Dequeue, ExpireDeadlined and    *)
(* Remove).                                                                *)
THEOREM NoneLost == Spec => []NoTaskLost
<1>1. TaskInv => NoTaskLost
  BY DEF TaskInv
<1> QED
  BY TaskInvariance, <1>1, PTL

(* A task whose Submit returned is found by GetTask and Cancel until it    *)
(* ends, also while Stop drains the live map.                              *)
THEOREM AcceptedFound == Spec => []AcceptedIsFindable
<1>1. TaskInv => AcceptedIsFindable
  BY DEF TaskInv, Findable, AcceptedIsFindable
<1> QED
  BY TaskInvariance, <1>1, PTL

(* A stored snapshot that shows an end shows the task's end, however the   *)
(* two critical sections of the Store calls interleave.                    *)
THEOREM StoredEnds == Spec => []StoredEndIsTrue
<1>1. TaskInv => StoredEndIsTrue
  BY DEF TaskInv
<1> QED
  BY TaskInvariance, <1>1, PTL

(* Only finishTask, StopUnlist and StopSkips drop a task from the live map.*)
LEMMA DropsEnded ==
  TaskInv /\ [Next]_vars => \A t \in live : t \notin live' => state[t] \in Terminal
<1> DEFINE Drops == \A t \in live : t \notin live' => state[t] \in Terminal
<1> SUFFICES ASSUME TaskInv, [Next]_vars PROVE Drops
  OBVIOUS
<1>0. ProcsTypeOK /\ Ended
  BY DEF TaskInv, IInv, TypeOK
<1> USE DEF Procs, queueVars, taskVars, storeVars, cancelVars, lifeVars, hookVars, procVars
<1>1. ASSUME NEW p \in Procs, FinishForget(p) PROVE Drops
  BY <1>0, <1>1 DEF FinishForget, Ended, At
<1>2. CASE StopUnlist
  BY <1>0, <1>2 DEF StopUnlist, Ended, At
<1>3. CASE StopSkips
  BY <1>3 DEF StopSkips
<1>4. ASSUME NEW t \in Tasks, SubmitInsert(t) PROVE Drops
  BY <1>4 DEF SubmitInsert
<1>5. CASE UNCHANGED live
  BY <1>5
<1> HIDE DEF Drops
<1> QED
  BY <1>1, <1>2, <1>3, <1>4, <1>5 DEF Next, vars, SubmitReturns, WorkerStep,
     CancelReturns, ReaperFinishes, StopReturns, StoreStep, FinishStep,
     SubmitEnqueue, SubmitReject, WorkerDequeue, WorkerIdle, WorkerPark, WorkerWake, WorkerExit,
     WorkerAssign, Advance, WorkerRegister, WorkerRun, WorkerExec, WorkerSettle,
     WorkerUnregister, CancelLookup, CancelRemove, CancelSignal, CancelMark,
     CancelFails, StoreAtOnce, StoreSnap, StorePut, FinishComplete, ReaperScan,
     ReaperExpire, ReaperExit, StopClose, StopJoin, StopCancels, StopDone, Start,
     Evict, WebhookReturns

(* Stop is done only when the live map is empty.                           *)
LEMMA DownMeansDrained ==
  TaskInv /\ [Next]_vars /\ pc'[Stopper] = "down" => pc[Stopper] = "down" \/ live = {}
<1> DEFINE Drained == pc'[Stopper] = "down" => pc[Stopper] = "down" \/ live = {}
<1> SUFFICES ASSUME ProcsTypeOK, [Next]_vars PROVE Drained
  BY DEF TaskInv, IInv, TypeOK
<1> DEFINE frame == pc
<1> USE SchedulerAssumption DEF ProcsTypeOK, ProcTypeOK, StopLabels, WorkerLabels,
   Procs, Goto, Store, Finish, queueVars, taskVars, storeVars, cancelVars, lifeVars,
   hookVars, procVars
<1>1. ASSUME NEW t \in Tasks, SubmitEnqueue(t) PROVE Drained
  BY <1>1 DEF SubmitEnqueue, Enqueue
<1>2. ASSUME NEW t \in Tasks, SubmitReject(t) PROVE Drained
  BY <1>2 DEF SubmitReject
<1>3. ASSUME NEW t \in Tasks, SubmitInsert(t) PROVE Drained
  BY <1>3 DEF SubmitInsert
<1>4. ASSUME NEW w \in Workers, WorkerDequeue(w) PROVE Drained
  BY <1>4 DEF WorkerDequeue, Dequeue
<1>5. ASSUME NEW w \in Workers, WorkerIdle(w) PROVE Drained
  BY <1>5 DEF WorkerIdle
<1>6. ASSUME NEW w \in Workers, WorkerWake(w) PROVE Drained
  BY <1>6 DEF WorkerWake
<1>7. ASSUME NEW w \in Workers, WorkerExit(w) PROVE Drained
  BY <1>7 DEF WorkerExit
<1>8. ASSUME NEW w \in Workers, WorkerAssign(w) PROVE Drained
  BY <1>8 DEF WorkerAssign, Advance
<1>9. ASSUME NEW w \in Workers, WorkerRegister(w) PROVE Drained
  BY <1>9 DEF WorkerRegister
<1>10. ASSUME NEW w \in Workers, WorkerRun(w) PROVE Drained
  BY <1>10 DEF WorkerRun, Advance
<1>11. ASSUME NEW w \in Workers, WorkerExec(w) PROVE Drained
  BY <1>11 DEF WorkerExec
<1>12. ASSUME NEW w \in Workers, WorkerSettle(w) PROVE Drained
  BY <1>12 DEF WorkerSettle
<1>13. ASSUME NEW w \in Workers, WorkerUnregister(w) PROVE Drained
  BY <1>13 DEF WorkerUnregister
<1>14. ASSUME NEW c \in Cancellers, CancelLookup(c) PROVE Drained
  BY <1>14 DEF CancelLookup
<1>15. ASSUME NEW c \in Cancellers, CancelRemove(c) PROVE Drained
  BY <1>15 DEF CancelRemove, Remove, Take
<1>16. ASSUME NEW c \in Cancellers, CancelSignal(c) PROVE Drained
  BY <1>16 DEF CancelSignal
<1>17. ASSUME NEW c \in Cancellers, CancelMark(c) PROVE Drained
  BY <1>17 DEF CancelMark
<1>18. ASSUME NEW c \in Cancellers, CancelFails(c) PROVE Drained
  BY <1>18 DEF CancelFails
<1>19. ASSUME NEW p \in Procs, StoreAtOnce(p) PROVE Drained
  BY <1>19 DEF StoreAtOnce
<1>20. ASSUME NEW p \in Procs, StoreSnap(p) PROVE Drained
  BY <1>20 DEF StoreSnap
<1>21. ASSUME NEW p \in Procs, StorePut(p) PROVE Drained
  BY <1>21 DEF StorePut
<1>22. ASSUME NEW p \in Procs, FinishComplete(p) PROVE Drained
  BY <1>22 DEF FinishComplete, Complete
<1>23. ASSUME NEW p \in Procs, FinishForget(p) PROVE Drained
  BY <1>23 DEF FinishForget, AfterFinish
<1>24. CASE ReaperExpire
  BY <1>24 DEF ReaperExpire
<1>25. CASE ReaperExit
  BY <1>25 DEF ReaperExit
<1>26. CASE StopClose
  BY <1>26 DEF StopClose
<1>27. CASE StopJoin
  BY <1>27 DEF StopJoin
<1>28. CASE StopCancels
  BY <1>28 DEF StopCancels
<1>29. CASE StopUnlist
  BY <1>29 DEF StopUnlist
<1>30. CASE StopDone
  BY <1>30 DEF StopDone
<1>31. CASE UNCHANGED frame
  BY <1>31
<1> QED
  BY <1>1, <1>2, <1>3, <1>4, <1>5, <1>6, <1>7, <1>8, <1>9, <1>10, <1>11, <1>12,
     <1>13, <1>14, <1>15, <1>16, <1>17, <1>18, <1>19, <1>20, <1>21, <1>22, <1>23,
     <1>24, <1>25, <1>26, <1>27, <1>28, <1>29, <1>30, <1>31 DEF Next, vars,
     SubmitReturns, WorkerStep, WorkerPark, CancelReturns, ReaperFinishes, StopReturns,
     StoreStep, FinishStep, ReaperScan, ExpireDeadlined, Take, StopSkips, Start,
     Evict, WebhookReturns

(* finishTask and Stop drop only ended tasks from the live map.            *)
THEOREM LiveDrops == Spec => LiveDropsOnlyTerminal
BY TaskInvariance, DropsEnded, PTL DEF Spec, LiveDropsOnlyTerminal

(* A task whose Submit returned before Stop began has ended when Stop      *)
(* returns: Stop leaves its loop only when the live map is empty, and the  *)
(* live map has the task until it ends.                                    *)
THEOREM StopSettles == Spec => StopLeavesNothing
<1> DEFINE Accepted(t) == pc[t] = "returned" /\ pc[Stopper] = "up"
           Settled(t) == pc[Stopper] = "down" => state[t] \in Terminal
           Safe(t) == state[t] \in Terminal \/ (t \in live /\ pc[Stopper] # "down")
<1> SUFFICES ASSUME NEW t \in Tasks PROVE Spec => [](Accepted(t) => []Settled(t))
  BY DEF StopLeavesNothing
<1>1. TaskInv /\ Accepted(t) => Safe(t)
  BY DEF TaskInv, Findable
<1>2. Safe(t) => Settled(t)
  OBVIOUS
<1>3. TaskInv /\ [Next]_vars /\ Safe(t) => Safe(t)'
  BY EndsAreFinal, DropsEnded, DownMeansDrained DEF TaskInv
<1> HIDE DEF Accepted, Settled, Safe
<1> QED
  BY TaskInvariance, <1>1, <1>2, <1>3, PTL DEF Spec

==================================================================================

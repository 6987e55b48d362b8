-------------------------- MODULE SchedulerCountProofs --------------------------
(***************************************************************************)
(* That the scheduler's counters are right and stay within their limits,   *)
(* that the documented limits on running tasks hold as long as only        *)
(* workers complete tasks, and that no wakeup is lost: for any number of   *)
(* tasks, agents, workers and Cancel calls, and any limits.                *)
(***************************************************************************)
EXTENDS SchedulerProofs

(* Induction over the subsets of a finite set: a set of bad subsets that   *)
(* has, with each of its members, one with an element less, is empty.      *)
LEMMA NoBadSubset ==
  ASSUME NEW S, IsFiniteSet(S), NEW Bad \in SUBSET (SUBSET S),
         \A T \in Bad : \E c \in T : T \ {c} \in Bad
  PROVE  Bad = {}
<1> SUFFICES ASSUME Bad # {} PROVE FALSE
  OBVIOUS
<1>1. IsWellFoundedOn(StrictSubsetOrdering(S), SUBSET S)
  BY FS_StrictSubsetOrderingWellFounded, FS_FiniteSubsetsOfFinite
<1>2. PICK T \in Bad : \A U \in Bad : <<U, T>> \notin StrictSubsetOrdering(S)
  BY <1>1, WFMin
<1>3. PICK c \in T : T \ {c} \in Bad
  OBVIOUS
<1>4. <<T \ {c}, T>> \in StrictSubsetOrdering(S)
  BY <1>3 DEF StrictSubsetOrdering
<1> QED
  BY <1>2, <1>3, <1>4

(* The sum of a function over a set, as the community modules define it:   *)
(* the element chosen first, and the sum of the rest.                      *)
Pick(s) == CHOOSE x \in s : TRUE

Partial(f, S) ==
  CHOOSE g : g = [s \in SUBSET S |-> IF s = {} THEN 0 ELSE f[Pick(s)] + g[s \ {Pick(s)}]]

LEMMA SumUnfold ==
  ASSUME NEW S, NEW f
  PROVE SumFunctionOnSet(f, S) = Partial(f, S)[S]
BY DEF SumFunctionOnSet, FoldFunctionOnSet, MapThenFoldSet, Partial, Pick

(* f[x] units of x, and the units of all members of S.                     *)
Slice(f, x) == {x} \X (1 .. f[x])

Units(f, S) == UNION {Slice(f, x) : x \in S}

LEMMA SliceSize ==
  ASSUME NEW f, NEW x, f[x] \in Nat
  PROVE  IsFiniteSet(Slice(f, x)) /\ Cardinality(Slice(f, x)) = f[x]
<1>1. IsFiniteSet({x}) /\ Cardinality({x}) = 1
  BY FS_Singleton
<1>2. IsFiniteSet(1 .. f[x])
  BY FS_Interval
<1>3. Cardinality(1 .. f[x]) = f[x]
  BY FS_Interval
<1>4. /\ IsFiniteSet({x} \X (1 .. f[x]))
      /\ Cardinality({x} \X (1 .. f[x])) = Cardinality({x}) * Cardinality(1 .. f[x])
  BY <1>1, <1>2, FS_Product
<1>5. Cardinality({x}) * Cardinality(1 .. f[x]) = f[x]
  BY <1>1, <1>3
<1> QED
  BY <1>4, <1>5 DEF Slice

LEMMA UnitsFinite ==
  ASSUME NEW S, IsFiniteSet(S), NEW f, \A x \in S : f[x] \in Nat
  PROVE  IsFiniteSet(Units(f, S))
<1> DEFINE Bad == {T \in SUBSET S : ~IsFiniteSet(Units(f, T))}
<1>1. ASSUME NEW T \in Bad PROVE \E c \in T : T \ {c} \in Bad
  <2>1. T # {}
    BY FS_EmptySet DEF Units
  <2>2. PICK c : c \in T
    BY <2>1
  <2>3. Units(f, T) = Units(f, T \ {c}) \cup Slice(f, c)
    BY <2>2 DEF Units
  <2>4. IsFiniteSet(Slice(f, c))
    BY <2>2, SliceSize
  <2>5. T \ {c} \in SUBSET S /\ ~IsFiniteSet(Units(f, T))
    OBVIOUS
  <2>6. ~IsFiniteSet(Units(f, T \ {c}))
    BY <2>3, <2>4, <2>5, FS_Union
  <2> QED
    BY <2>2, <2>5, <2>6
<1>2. Bad = {}
  <2> HIDE DEF Bad
  <2>1. Bad \in SUBSET (SUBSET S)
    BY DEF Bad
  <2> QED
    BY <1>1, <2>1, NoBadSubset
<1> QED
  BY <1>2

(* The units of a member and those of the rest are all the units.          *)
LEMMA UnitsSplit ==
  ASSUME NEW S, IsFiniteSet(S), NEW f, \A x \in S : f[x] \in Nat, NEW c \in S
  PROVE  Cardinality(Units(f, S)) = f[c] + Cardinality(Units(f, S \ {c}))
<1>1. IsFiniteSet(Units(f, S)) 
  BY UnitsFinite
<1>2. Units(f, S) \ Slice(f, c) = Units(f, S \ {c}) /\ Slice(f, c) \subseteq Units(f, S)
  BY DEF Units, Slice
<1>3. Units(f, S) \cap Slice(f, c) = Slice(f, c)
  BY <1>2
<1>4. Cardinality(Units(f, S)) \in Nat
  BY <1>1, FS_CardinalityType
<1>5. Cardinality(Units(f, S \ {c})) = Cardinality(Units(f, S)) - Cardinality(Slice(f, c))
  BY <1>1, <1>2, <1>3, FS_Difference
<1> QED
  BY <1>4, <1>5, SliceSize

LEMMA PickIn == \A s : s # {} => Pick(s) \in s
BY DEF Pick

(* By induction over the subsets, the sum over each is the number of its   *)
(* units.                                                                  *)
LEMMA PartialIsCount ==
  ASSUME NEW S, IsFiniteSet(S), NEW f, \A x \in S : f[x] \in Nat
  PROVE  Partial(f, S)[S] = Cardinality(Units(f, S))
<1> DEFINE Sums(g) ==
      g = [s \in SUBSET S |-> IF s = {} THEN 0 ELSE f[Pick(s)] + g[s \ {Pick(s)}]]
    count == [s \in SUBSET S |-> Cardinality(Units(f, s))]
<1>1. Sums(count)
  <2>1. ASSUME NEW s \in SUBSET S
        PROVE  count[s] = IF s = {} THEN 0 ELSE f[Pick(s)] + count[s \ {Pick(s)}]
    <3>1. CASE s = {}
      BY <3>1, FS_EmptySet DEF Units
    <3>2. CASE s # {}
      <4>1. Pick(s) \in s /\ s \ {Pick(s)} \in SUBSET S
        BY <3>2, PickIn
      <4>2. IsFiniteSet(s)
        BY FS_Subset
      <4>3. Cardinality(Units(f, s)) = f[Pick(s)] + Cardinality(Units(f, s \ {Pick(s)}))
        BY <4>1, <4>2, UnitsSplit
      <4> QED
        BY <3>2, <4>1, <4>3
    <3> QED
      BY <3>1, <3>2
  <2> QED
    BY <2>1
<1>2. ASSUME NEW g, Sums(g) PROVE g[S] = count[S]
  <2> DEFINE Bad == {s \in SUBSET S : g[s] # count[s]}
  <2>1. ASSUME NEW T \in Bad PROVE \E c \in T : T \ {c} \in Bad
    <3>0. ASSUME NEW h, Sums(h) PROVE h[T] = IF T = {} THEN 0 ELSE f[Pick(T)] + h[T \ {Pick(T)}]
      BY <3>0
    <3> HIDE DEF count, Sums
    <3>1. T # {}
      BY <1>1, <1>2, <3>0
    <3>2. Pick(T) \in T
      BY <3>1, PickIn
    <3>3. g[T] = f[Pick(T)] + g[T \ {Pick(T)}] /\ count[T] = f[Pick(T)] + count[T \ {Pick(T)}]
      BY <3>0, <3>1, <1>1, <1>2
    <3> QED
      BY <3>2, <3>3
  <2>2. Bad = {}
    <3> HIDE DEF Bad
    <3>1. Bad \in SUBSET (SUBSET S)
      BY DEF Bad
    <3> QED
      BY <2>1, <3>1, NoBadSubset
  <2> QED
    BY <2>2
<1>3. Sums(Partial(f, S))
  <2> HIDE DEF count
  <2>1. \E g : Sums(g)
    BY <1>1
  <2> QED
    BY <2>1 DEF Partial
<1> HIDE DEF Sums
<1> QED
  BY <1>2, <1>3

(* A sum of counters is the number of units counted.                       *)
LEMMA SumIsCount ==
  ASSUME NEW S, IsFiniteSet(S), NEW f \in [S -> Nat]
  PROVE  SumFunction(f) = Cardinality(Units(f, S))
BY SumUnfold, PartialIsCount DEF SumFunction

(* Counting one more, or one less, moves the sum by one.                   *)
LEMMA SumChange ==
  ASSUME NEW S, IsFiniteSet(S), NEW f \in [S -> Nat], NEW c \in S, NEW n \in Nat
  PROVE  SumFunction([f EXCEPT ![c] = n]) = SumFunction(f) + n - f[c]
<1> DEFINE g == [f EXCEPT ![c] = n]
<1>0. g \in [S -> Nat] /\ g[c] = n /\ \A x \in S \ {c} : g[x] = f[x]
  OBVIOUS
<1> HIDE DEF g
<1> SUFFICES SumFunction(g) = SumFunction(f) + n - f[c]
  BY DEF g
<1>1. Units(f, S \ {c}) = Units(g, S \ {c})
  BY <1>0 DEF Units, Slice
<1>2. IsFiniteSet(S \ {c})
  BY FS_RemoveElement
<1>3. IsFiniteSet(Units(f, S \ {c}))
  BY <1>2, UnitsFinite
<1>4. Cardinality(Units(f, S \ {c})) \in Nat
  BY <1>3, FS_CardinalityType
<1>5. /\ Cardinality(Units(f, S)) = f[c] + Cardinality(Units(f, S \ {c}))
      /\ Cardinality(Units(g, S)) = g[c] + Cardinality(Units(g, S \ {c}))
  BY <1>0, UnitsSplit
<1> QED
  BY <1>0, <1>1, <1>4, <1>5, SumIsCount

(* The sum of no counts is zero, and a sum of counts is a number.          *)
LEMMA SumOfZeros ==
  ASSUME NEW S, IsFiniteSet(S), NEW f \in [S -> Nat], \A x \in S : f[x] = 0
  PROVE  SumFunction(f) = 0
<1>1. Units(f, S) = {}
  BY DEF Units, Slice
<1> QED
  BY <1>1, SumIsCount, FS_EmptySet

LEMMA SumType ==
  ASSUME NEW S, IsFiniteSet(S), NEW f \in [S -> Nat]
  PROVE  SumFunction(f) \in Nat
BY UnitsFinite, SumIsCount, FS_CardinalityType

----------------------------------------------------------------------------------
(* The queue's own count.                                                  *)

LEMMA QueueFinite ==
  ASSUME QueueTypeOK
  PROVE  IsFiniteSet(queue) /\ Cardinality(queue) \in Nat
<1>1. IsFiniteSet(queue)
  BY QueueAssumption, FS_Subset DEF QueueTypeOK
<1> QED
  BY <1>1, FS_CardinalityType

(* Each operation of the queue moves totalCount with the heaps.            *)
LEMMA EnqueueCounts ==
  ASSUME QueueTypeOK, CountMatchesQueue, NEW t \in Tasks, t \notin queue, Enqueue(t)
  PROVE  CountMatchesQueue'
<1>1. Cardinality(queue') = Cardinality(queue) + 1
  BY QueueFinite, FS_AddElement DEF Enqueue
<1> QED
  BY <1>1, QueueFinite, QueueAssumption DEF Enqueue, HasRoom, CountMatchesQueue

LEMMA DequeueCounts ==
  ASSUME QueueTypeOK, CountMatchesQueue, NEW t, Dequeue(t)
  PROVE  CountMatchesQueue'
<1>1. Cardinality(queue') = Cardinality(queue) - 1
  BY QueueFinite, FS_RemoveElement DEF Dequeue
<1> QED
  BY <1>1, QueueFinite, QueueAssumption DEF Dequeue, CountMatchesQueue

LEMMA TakeCounts ==
  ASSUME QueueTypeOK, CountMatchesQueue, NEW ts, Take(ts)
  PROVE  CountMatchesQueue'
<1>1. /\ Cardinality(queue') = Cardinality(queue) - Cardinality(queue \cap ts)
      /\ IsFiniteSet(queue \cap ts)
  BY QueueFinite, FS_Difference, FS_Intersection DEF Take
<1>2. Cardinality(queue \cap ts) \in Nat
  BY <1>1, FS_CardinalityType
<1> QED
  BY <1>1, <1>2, QueueFinite, QueueAssumption DEF Take, CountMatchesQueue

----------------------------------------------------------------------------------
(* What a step does to the queue and to the workers that hold a task.      *)

QueueKept == UNCHANGED <<queue, totalCount>>

HoldersKept ==
  \A w \in Workers : Holding(w)' = Holding(w) /\ (Holding(w) => cur'[w] = cur[w])

Takes(w, t) ==
  /\ pc[w] = "dequeue"
  /\ pc' = [pc EXCEPT ![w] = "assign"]
  /\ cur' = [cur EXCEPT ![w] = t]
  /\ Dequeue(t)

Completes(p) ==
  /\ pc[p] = "complete"
  /\ pc' = [pc EXCEPT ![p] = "forget"]
  /\ UNCHANGED cur
  /\ Complete(AgentOf[cur[p]])

(* Only Dequeue gives a worker a task, only Complete takes it away, and no *)
(* other step touches the in-flight counters.                              *)
LEMMA HoldersMove ==
  IInv /\ [Next]_vars =>
    \/ UNCHANGED inflight /\ HoldersKept
    \/ \E w \in Workers, t \in queue : Takes(w, t)
    \/ \E p \in Procs : Completes(p)
<1> DEFINE Moved == \/ UNCHANGED inflight /\ HoldersKept
                    \/ \E w \in Workers, t \in queue : Takes(w, t)
                    \/ \E p \in Procs : Completes(p)
<1> SUFFICES ASSUME IInv, ProcsTypeOK, [Next]_vars
             PROVE  Moved
  BY DEF IInv, TypeOK
<1> DEFINE frame == <<inflight, pc, cur>>
<1> USE SchedulerAssumption DEF ProcsTypeOK, ProcTypeOK, WorkerLabels, CancelLabels,
   ReaperLabels, SubmitLabels, StopLabels, Taskless, Procs, Goto, Store, Finish,
   HoldersKept, Holding, queueVars, taskVars, storeVars, cancelVars, lifeVars,
   hookVars, procVars
<1>1. ASSUME NEW t \in Tasks, SubmitEnqueue(t) PROVE Moved
  BY <1>1 DEF SubmitEnqueue, Enqueue
<1>2. ASSUME NEW t \in Tasks, SubmitReject(t) PROVE Moved
  BY <1>2 DEF SubmitReject
<1>3. ASSUME NEW t \in Tasks, SubmitInsert(t) PROVE Moved
  BY <1>3 DEF SubmitInsert
<1>4. ASSUME NEW w \in Workers, WorkerDequeue(w) PROVE Moved
  <2>1. PICK t \in queue : Dequeue(t) /\ cur' = [cur EXCEPT ![w] = t]
    BY <1>4 DEF WorkerDequeue
  <2>2. Takes(w, t)
    BY <1>4, <2>1 DEF WorkerDequeue, Takes
  <2> QED
    BY <2>2
<1>5. ASSUME NEW w \in Workers, WorkerIdle(w) PROVE Moved
  BY <1>5 DEF WorkerIdle
<1>6. ASSUME NEW w \in Workers, WorkerWake(w) PROVE Moved
  BY <1>6 DEF WorkerWake
<1>7. ASSUME NEW w \in Workers, WorkerExit(w) PROVE Moved
  BY <1>7 DEF WorkerExit
<1>8. ASSUME NEW w \in Workers, WorkerAssign(w) PROVE Moved
  BY <1>8 DEF WorkerAssign, Advance
<1>9. ASSUME NEW w \in Workers, WorkerRegister(w) PROVE Moved
  BY <1>9 DEF WorkerRegister
<1>10. ASSUME NEW w \in Workers, WorkerRun(w) PROVE Moved
  BY <1>10 DEF WorkerRun, Advance
<1>11. ASSUME NEW w \in Workers, WorkerExec(w) PROVE Moved
  BY <1>11 DEF WorkerExec
<1>12. ASSUME NEW w \in Workers, WorkerSettle(w) PROVE Moved
  BY <1>12 DEF WorkerSettle
<1>13. ASSUME NEW w \in Workers, WorkerUnregister(w) PROVE Moved
  BY <1>13 DEF WorkerUnregister
<1>14. ASSUME NEW c \in Cancellers, CancelLookup(c) PROVE Moved
  BY <1>14 DEF CancelLookup
<1>15. ASSUME NEW c \in Cancellers, CancelRemove(c) PROVE Moved
  BY <1>15 DEF CancelRemove, Remove, Take
<1>16. ASSUME NEW c \in Cancellers, CancelSignal(c) PROVE Moved
  BY <1>16 DEF CancelSignal
<1>17. ASSUME NEW c \in Cancellers, CancelMark(c) PROVE Moved
  BY <1>17 DEF CancelMark
<1>18. ASSUME NEW c \in Cancellers, CancelFails(c) PROVE Moved
  BY <1>18 DEF CancelFails
<1>19. ASSUME NEW p \in Procs, StoreAtOnce(p) PROVE Moved
  BY <1>19 DEF StoreAtOnce
<1>20. ASSUME NEW p \in Procs, StoreSnap(p) PROVE Moved
  BY <1>20 DEF StoreSnap
<1>21. ASSUME NEW p \in Procs, StorePut(p) PROVE Moved
  BY <1>21 DEF StorePut
<1>22. ASSUME NEW p \in Procs, FinishComplete(p) PROVE Moved
  BY <1>22 DEF FinishComplete, Complete, Completes
<1>23. ASSUME NEW p \in Procs, FinishForget(p) PROVE Moved
  BY <1>23 DEF FinishForget, AfterFinish
<1>24. CASE ReaperExpire
  BY <1>24 DEF ReaperExpire
<1>25. CASE ReaperExit
  BY <1>25 DEF ReaperExit
<1>26. CASE StopClose
  BY <1>26 DEF StopClose
<1>27. CASE StopJoin
  BY <1>27 DEF StopJoin
<1>28. CASE StopCancels
  BY <1>28 DEF StopCancels
<1>29. CASE StopUnlist
  BY <1>29 DEF StopUnlist
<1>30. CASE StopDone
  BY <1>30 DEF StopDone
<1>31. CASE UNCHANGED frame
  BY <1>31
<1> QED
  BY <1>1, <1>2, <1>3, <1>4, <1>5, <1>6, <1>7, <1>8, <1>9, <1>10, <1>11, <1>12,
     <1>13, <1>14, <1>15, <1>16, <1>17, <1>18, <1>19, <1>20, <1>21, <1>22, <1>23,
     <1>24, <1>25, <1>26, <1>27, <1>28, <1>29, <1>30, <1>31 DEF Next, vars,
     SubmitReturns, WorkerStep, WorkerPark, CancelReturns, ReaperFinishes, StopReturns,
     StoreStep, FinishStep, ReaperScan, ExpireDeadlined, Take, StopSkips, Start,
     Evict, WebhookReturns

(* The queue changes by an Enqueue of a new task, a Dequeue or a Take.     *)
LEMMA QueueMoves ==
  IInv /\ [Next]_vars =>
    \/ UNCHANGED <<queue, totalCount>>
    \/ \E t \in Tasks : t \notin queue /\ Enqueue(t)
    \/ \E t \in queue : Dequeue(t)
    \/ \E ts : Take(ts)
<1> DEFINE Moved == \/ UNCHANGED <<queue, totalCount>>
                    \/ \E t \in Tasks : t \notin queue /\ Enqueue(t)
                    \/ \E t \in queue : Dequeue(t)
                    \/ \E ts : Take(ts)
<1> SUFFICES ASSUME IInv, [Next]_vars PROVE Moved
  OBVIOUS
<1> USE DEF queueVars
<1>1. ASSUME NEW t \in Tasks, SubmitEnqueue(t) PROVE Moved
  BY <1>1 DEF SubmitEnqueue, IInv, Unsubmitted, Unsent
<1>2. ASSUME NEW w \in Workers, WorkerDequeue(w) PROVE Moved
  BY <1>2 DEF WorkerDequeue
<1>3. ASSUME NEW c \in Cancellers, CancelRemove(c) PROVE Moved
  BY <1>3 DEF CancelRemove, Remove
<1>4. CASE ReaperScan
  BY <1>4 DEF ReaperScan, ExpireDeadlined
<1>5. CASE QueueKept
  BY <1>5 DEF QueueKept
<1> HIDE DEF Moved
<1> QED
  BY <1>1, <1>2, <1>3, <1>4, <1>5 DEF QueueKept, Next, vars, SubmitReturns,
     WorkerStep, CancelReturns, ReaperFinishes, StopReturns, StoreStep, FinishStep,
     SubmitReject, SubmitInsert, WorkerIdle, WorkerPark, WorkerWake, WorkerExit, WorkerAssign,
     Advance, WorkerRegister, WorkerRun, WorkerExec, WorkerSettle, WorkerUnregister,
     CancelLookup, CancelSignal, CancelMark, CancelFails, StoreAtOnce, StoreSnap,
     StorePut, FinishComplete, Complete, FinishForget, ReaperExpire, ReaperExit,
     StopClose, StopJoin, StopCancels, StopUnlist, StopSkips, StopDone, Start,
     Evict, WebhookReturns

LEMMA CountStep == IInv /\ CountMatchesQueue /\ [Next]_vars => CountMatchesQueue'
<1> SUFFICES ASSUME IInv, QueueTypeOK, CountMatchesQueue, [Next]_vars
             PROVE  CountMatchesQueue'
  BY DEF IInv, TypeOK, DataTypeOK
<1>1. CASE UNCHANGED <<queue, totalCount>>
  BY <1>1 DEF CountMatchesQueue
<1> QED
  BY <1>1, QueueMoves, EnqueueCounts, DequeueCounts, TakeCounts

----------------------------------------------------------------------------------
(* The in-flight counters.                                                 *)

LEMMA HoldingForFinite ==
  \A a : IsFiniteSet(HoldingFor(a)) /\ Cardinality(HoldingFor(a)) \in Nat
<1> SUFFICES ASSUME NEW a
             PROVE  IsFiniteSet(HoldingFor(a)) /\ Cardinality(HoldingFor(a)) \in Nat
  OBVIOUS
<1>1. IsFiniteSet(HoldingFor(a))
  BY SchedulerAssumption, FS_Subset DEF HoldingFor
<1> QED
  BY <1>1, FS_CardinalityType

(* A worker that dequeues a task holds one more of the task's agent.       *)
LEMMA TakesHolds ==
  ASSUME ProcsTypeOK, QueueTypeOK, NEW w \in Workers, NEW t \in queue, Takes(w, t)
  PROVE  \A a \in Agents :
           Cardinality(HoldingFor(a))' =
             Cardinality(HoldingFor(a)) + (IF a = AgentOf[t] THEN 1 ELSE 0)
<1> TAKE a \in Agents
<1>1. CASE a = AgentOf[t]
  <2>1. HoldingFor(a)' = HoldingFor(a) \cup {w} /\ w \notin HoldingFor(a)
    BY <1>1 DEF ProcsTypeOK, QueueTypeOK, Procs, Takes, HoldingFor, Holding
  <2> QED
    BY <1>1, <2>1, HoldingForFinite, FS_AddElement
<1>2. CASE a # AgentOf[t]
  <2>1. HoldingFor(a)' = HoldingFor(a)
    BY <1>2 DEF ProcsTypeOK, QueueTypeOK, Procs, Takes, HoldingFor, Holding
  <2> QED
    BY <1>2, <2>1, HoldingForFinite
<1> QED
  BY <1>1, <1>2

(* A worker that completes its task holds one less of the task's agent;    *)
(* nobody else's Complete changes what workers hold.                       *)
LEMMA CompletesHolds ==
  ASSUME ProcsTypeOK, NEW p \in Procs, Completes(p)
  PROVE  \A a \in Agents :
           /\ Cardinality(HoldingFor(a))' \in Nat
           /\ Cardinality(HoldingFor(a))' =
                Cardinality(HoldingFor(a)) - (IF p \in Workers /\ a = AgentOf[cur[p]] THEN 1 ELSE 0)
<1> TAKE a \in Agents
<1>1. CASE p \in Workers /\ a = AgentOf[cur[p]]
  <2>1. HoldingFor(a)' = HoldingFor(a) \ {p} /\ p \in HoldingFor(a)
    BY <1>1 DEF ProcsTypeOK, Procs, Completes, HoldingFor, Holding
  <2>2. /\ IsFiniteSet(HoldingFor(a) \ {p})
        /\ Cardinality(HoldingFor(a) \ {p}) = Cardinality(HoldingFor(a)) - 1
    BY <2>1, HoldingForFinite, FS_RemoveElement
  <2> QED
    BY <1>1, <2>1, <2>2, FS_CardinalityType
<1>2. CASE ~(p \in Workers /\ a = AgentOf[cur[p]])
  <2>1. HoldingFor(a)' = HoldingFor(a)
    BY <1>2 DEF ProcsTypeOK, Procs, Completes, HoldingFor, Holding
  <2> QED
    BY <1>2, <2>1, HoldingForFinite
<1> QED
  BY <1>1, <1>2

(* A step that moves no holder changes no agent's number of them.          *)
LEMMA KeptHolds ==
  ASSUME HoldersKept PROVE \A a : Cardinality(HoldingFor(a))' = Cardinality(HoldingFor(a))
<1>1. \A a : HoldingFor(a)' = HoldingFor(a)
  BY DEF HoldersKept, HoldingFor
<1> QED
  BY <1>1

(* A counter goes up with a holder and down with one, or alone: a          *)
(* Complete for a task that no worker holds only lowers it.                *)
LEMMA OvercountStep ==
  IInv /\ InflightNeverOvercounts /\ [Next]_vars => InflightNeverOvercounts'
<1> SUFFICES ASSUME IInv, ProcsTypeOK, QueueTypeOK, InflightNeverOvercounts, [Next]_vars
             PROVE  InflightNeverOvercounts'
  BY DEF IInv, TypeOK, DataTypeOK
<1> USE DEF InflightNeverOvercounts
<1>1. CASE UNCHANGED inflight /\ HoldersKept
  BY <1>1, KeptHolds
<1>2. ASSUME NEW w \in Workers, NEW t \in queue, Takes(w, t) PROVE InflightNeverOvercounts'
  <2>1. ASSUME NEW a \in Agents PROVE inflight'[a] <= Cardinality(HoldingFor(a))'
    <3>1. inflight'[a] = inflight[a] + (IF a = AgentOf[t] THEN 1 ELSE 0)
      BY <1>2 DEF Takes, Dequeue, QueueTypeOK
    <3> QED
      BY <1>2, <3>1, TakesHolds, HoldingForFinite DEF QueueTypeOK
  <2> QED
    BY <2>1
<1>3. ASSUME NEW p \in Procs, Completes(p) PROVE InflightNeverOvercounts'
  <2>1. ASSUME NEW a \in Agents PROVE inflight'[a] <= Cardinality(HoldingFor(a))'
    <3>1. inflight'[a] =
            inflight[a] - (IF a = AgentOf[cur[p]] /\ inflight[a] > 0 THEN 1 ELSE 0)
      BY <1>3 DEF Completes, Complete, QueueTypeOK
    <3> QED
      BY <1>3, <3>1, CompletesHolds, HoldingForFinite DEF QueueTypeOK
  <2> QED
    BY <2>1
<1> QED
  BY <1>1, <1>2, <1>3, HoldersMove

(* How the sum of the counters changes with one of them.                   *)
LEMMA InflightSum ==
  ASSUME inflight \in [Agents -> Nat], NEW a \in Agents, NEW n \in Nat,
         inflight' = [inflight EXCEPT ![a] = n]
  PROVE  SumFunction(inflight') = SumFunction(inflight) + n - inflight[a]
<1>1. SumFunction([inflight EXCEPT ![a] = n]) = SumFunction(inflight) + n - inflight[a]
  BY SumChange, QueueAssumption
<1> QED
  BY <1>1

(* The counters themselves respect the limits, cancellations or not.       *)
CountersWithinLimits ==
  /\ SumFunction(inflight) <= MaxInflight
  /\ \A a \in Agents : inflight[a] <= MaxPerAgentFlight

(* Dequeue checks both limits before it counts; nothing else counts up.    *)
LEMMA LimitsStep == IInv /\ CountersWithinLimits /\ [Next]_vars => CountersWithinLimits'
<1> SUFFICES ASSUME IInv, ProcsTypeOK, QueueTypeOK, QueueTypeOK', CountersWithinLimits,
                    [Next]_vars
             PROVE  CountersWithinLimits'
  BY DataStep DEF IInv, TypeOK, DataTypeOK
<1>0. /\ IsFiniteSet(Agents) /\ MaxInflight \in Nat /\ MaxPerAgentFlight \in Nat
      /\ inflight \in [Agents -> Nat] /\ inflight' \in [Agents -> Nat]
      /\ SumFunction(inflight) \in Nat /\ SumFunction(inflight') \in Nat
  BY QueueAssumption, SumType DEF QueueTypeOK
<1>1. CASE UNCHANGED inflight /\ HoldersKept
  BY <1>1 DEF CountersWithinLimits
<1>2. ASSUME NEW w \in Workers, NEW t \in queue, Takes(w, t) PROVE CountersWithinLimits'
  <2> DEFINE a == AgentOf[t]
  <2>1. /\ a \in Agents /\ SumFunction(inflight) < MaxInflight /\ inflight[a] < MaxPerAgentFlight
        /\ inflight' = [inflight EXCEPT ![a] = @ + 1]
    BY <1>2, QueueAssumption DEF Takes, Dequeue, Eligible, QueueTypeOK
  <2> HIDE DEF a
  <2>2. inflight'[a] = inflight[a] + 1 /\ \A b \in Agents \ {a} : inflight'[b] = inflight[b]
    BY <1>0, <2>1
  <2>3. inflight' = [inflight EXCEPT ![a] = inflight[a] + 1] /\ inflight[a] + 1 \in Nat
    BY <1>0, <2>1
  <2>4. SumFunction(inflight') = SumFunction(inflight) + (inflight[a] + 1) - inflight[a]
    BY <1>0, <2>1, <2>3, InflightSum
  <2>5. SumFunction(inflight') <= MaxInflight
    BY <1>0, <2>1, <2>4
  <2>6. ASSUME NEW b \in Agents PROVE inflight'[b] <= MaxPerAgentFlight
    BY <1>0, <2>1, <2>2 DEF CountersWithinLimits
  <2> QED
    BY <2>5, <2>6 DEF CountersWithinLimits
<1>3. ASSUME NEW p \in Procs, Completes(p) PROVE CountersWithinLimits'
  <2> DEFINE a == AgentOf[cur[p]]
  <2>1. /\ a \in Agents
        /\ inflight' = [inflight EXCEPT ![a] = IF @ > 0 THEN @ - 1 ELSE @]
    BY <1>3, Working, QueueAssumption DEF Completes, Complete, Taskless
  <2> HIDE DEF a
  <2>2. inflight'[a] <= inflight[a] /\ \A b \in Agents \ {a} : inflight'[b] = inflight[b]
    BY <1>0, <2>1
  <2> DEFINE n == inflight'[a]
  <2>3. inflight' = [inflight EXCEPT ![a] = n] /\ n \in Nat
    BY <1>0, <2>1
  <2> HIDE DEF n
  <2>4. SumFunction(inflight') = SumFunction(inflight) + n - inflight[a]
    BY <1>0, <2>1, <2>3, InflightSum
  <2>5. SumFunction(inflight') <= MaxInflight
    BY <1>0, <2>1, <2>2, <2>3, <2>4 DEF CountersWithinLimits, n
  <2>6. ASSUME NEW b \in Agents PROVE inflight'[b] <= MaxPerAgentFlight
    BY <1>0, <2>1, <2>2 DEF CountersWithinLimits
  <2> QED
    BY <2>5, <2>6 DEF CountersWithinLimits
<1> QED
  BY <1>1, <1>2, <1>3, HoldersMove

----------------------------------------------------------------------------------
(* Wakeups.                                                                *)

(* While every worker waits and there is work, a token is under way.       *)
Awake == queue # {} /\ (\A w \in Workers : pc[w] = "wait") => Signalled

(* With no task in a worker's hands, every queued task may run.            *)
LEMMA NobodyHolds ==
  ASSUME QueueTypeOK, InflightNeverOvercounts, \A w \in Workers : ~Holding(w)
  PROVE  Eligible = {} <=> queue = {}
<1>1. \A a \in Agents : HoldingFor(a) = {}
  BY DEF HoldingFor
<1>2. \A a \in Agents : inflight[a] = 0
  BY <1>1, FS_EmptySet DEF InflightNeverOvercounts, QueueTypeOK
<1>3. SumFunction(inflight) = 0
  BY <1>2, SumOfZeros, QueueAssumption DEF QueueTypeOK
<1>4. Eligible = {a \in Agents : QueueOf(a) # {}}
  BY <1>2, <1>3, QueueAssumption DEF Eligible
<1> QED
  BY <1>4, QueueAssumption DEF QueueOf, QueueTypeOK

(* A worker goes to sleep beside sleeping workers only if nothing is       *)
(* queued, and what is queued later sends a token.                         *)
LEMMA AwakeStep == IInv /\ InflightNeverOvercounts /\ Awake /\ [Next]_vars => Awake'
<1> SUFFICES ASSUME ProcsTypeOK, QueueTypeOK, SelectTypeOK, InflightNeverOvercounts,
                    Awake, [Next]_vars
             PROVE  Awake'
  BY DEF IInv, TypeOK, DataTypeOK
<1> DEFINE frame == <<queue, channel, pc>>
<1> USE SchedulerAssumption DEF ProcsTypeOK, ProcTypeOK, WorkerLabels, CancelLabels,
   ReaperLabels, SubmitLabels, StopLabels, Procs, Goto, Store, Finish, Awake,
   Signalled, SelectTypeOK, queueVars, channel, taskVars, storeVars, cancelVars, lifeVars, hookVars, procVars
<1>0. ASSUME Send PROVE Signalled'
  BY <1>0 DEF Send, Parked
<1>1. ASSUME NEW t \in Tasks, SubmitEnqueue(t) PROVE Awake'
  BY <1>0, <1>1 DEF SubmitEnqueue, Enqueue
<1>2. ASSUME NEW t \in Tasks, SubmitReject(t) PROVE Awake'
  BY <1>2 DEF SubmitReject
<1>3. ASSUME NEW t \in Tasks, SubmitInsert(t) PROVE Awake'
  BY <1>3 DEF SubmitInsert
<1>4. ASSUME NEW w \in Workers, WorkerDequeue(w) PROVE Awake'
  BY <1>4 DEF WorkerDequeue, Dequeue
<1>5. ASSUME NEW w \in Workers, WorkerIdle(w) PROVE Awake'
  BY <1>5, NobodyHolds DEF WorkerIdle, Holding
<1>6. ASSUME NEW w \in Workers, WorkerWake(w) PROVE Awake'
  BY <1>6 DEF WorkerWake
<1>7. ASSUME NEW w \in Workers, WorkerExit(w) PROVE Awake'
  BY <1>7 DEF WorkerExit
<1>8. ASSUME NEW w \in Workers, WorkerAssign(w) PROVE Awake'
  BY <1>8 DEF WorkerAssign, Advance
<1>9. ASSUME NEW w \in Workers, WorkerRegister(w) PROVE Awake'
  BY <1>9 DEF WorkerRegister
<1>10. ASSUME NEW w \in Workers, WorkerRun(w) PROVE Awake'
  BY <1>10 DEF WorkerRun, Advance
<1>11. ASSUME NEW w \in Workers, WorkerExec(w) PROVE Awake'
  BY <1>11 DEF WorkerExec
<1>12. ASSUME NEW w \in Workers, WorkerSettle(w) PROVE Awake'
  BY <1>12 DEF WorkerSettle
<1>13. ASSUME NEW w \in Workers, WorkerUnregister(w) PROVE Awake'
  BY <1>13 DEF WorkerUnregister
<1>14. ASSUME NEW c \in Cancellers, CancelLookup(c) PROVE Awake'
  BY <1>14 DEF CancelLookup
<1>15. ASSUME NEW c \in Cancellers, CancelRemove(c) PROVE Awake'
  BY <1>15 DEF CancelRemove, Remove, Take
<1>16. ASSUME NEW c \in Cancellers, CancelSignal(c) PROVE Awake'
  BY <1>16 DEF CancelSignal
<1>17. ASSUME NEW c \in Cancellers, CancelMark(c) PROVE Awake'
  BY <1>17 DEF CancelMark
<1>18. ASSUME NEW c \in Cancellers, CancelFails(c) PROVE Awake'
  BY <1>18 DEF CancelFails
<1>19. ASSUME NEW p \in Procs, StoreAtOnce(p) PROVE Awake'
  BY <1>19 DEF StoreAtOnce
<1>20. ASSUME NEW p \in Procs, StoreSnap(p) PROVE Awake'
  BY <1>20 DEF StoreSnap
<1>21. ASSUME NEW p \in Procs, StorePut(p) PROVE Awake'
  BY <1>21 DEF StorePut
<1>22. ASSUME NEW p \in Procs, FinishComplete(p) PROVE Awake'
  BY <1>0, <1>22 DEF FinishComplete, Complete
<1>23. ASSUME NEW p \in Procs, FinishForget(p) PROVE Awake'
  BY <1>23 DEF FinishForget, AfterFinish
<1>24. CASE ReaperScan
  BY <1>24 DEF ReaperScan, ExpireDeadlined, Take
<1>25. CASE ReaperExpire
  BY <1>25 DEF ReaperExpire
<1>26. CASE ReaperExit
  BY <1>26 DEF ReaperExit
<1>27. CASE StopClose
  BY <1>27 DEF StopClose, Parked
<1>28. CASE StopJoin
  BY <1>28 DEF StopJoin
<1>29. CASE StopCancels
  BY <1>29 DEF StopCancels
<1>30. CASE StopUnlist
  BY <1>30 DEF StopUnlist
<1>31. CASE StopDone
  BY <1>31 DEF StopDone
<1>32. CASE UNCHANGED frame
  BY <1>32
<1> QED
  BY <1>1, <1>2, <1>3, <1>4, <1>5, <1>6, <1>7, <1>8, <1>9, <1>10, <1>11, <1>12,
     <1>13, <1>14, <1>15, <1>16, <1>17, <1>18, <1>19, <1>20, <1>21, <1>22, <1>23,
     <1>24, <1>25, <1>26, <1>27, <1>28, <1>29, <1>30, <1>31, <1>32 DEF Next, vars,
     SubmitReturns, WorkerStep, WorkerPark, CancelReturns, ReaperFinishes, StopReturns,
     StoreStep, FinishStep, StopSkips, Start, Evict, WebhookReturns

----------------------------------------------------------------------------------
(* The theorems about counts.                                              *)

CountInv ==
  /\ IInv
  /\ CountMatchesQueue /\ InflightNeverOvercounts /\ CountersWithinLimits
  /\ Awake

LEMMA InitCountInv == Init => CountInv
<1> SUFFICES ASSUME Init PROVE CountInv
  OBVIOUS
<1>1. IInv
  BY InitInv
<1>2. CountMatchesQueue /\ Awake
  BY QueueAssumption, FS_EmptySet DEF Init, QueueInit, CountMatchesQueue, Awake
<1>3. InflightNeverOvercounts
  BY HoldingForFinite DEF Init, QueueInit, InflightNeverOvercounts
<1>4. inflight \in [Agents -> Nat] /\ \A a \in Agents : inflight[a] = 0
  BY DEF Init, QueueInit
<1>5. SumFunction(inflight) = 0
  BY <1>4, SumOfZeros, QueueAssumption
<1> QED
  BY <1>1, <1>2, <1>3, <1>4, <1>5, QueueAssumption DEF CountInv, CountersWithinLimits

LEMMA CountInvStep == CountInv /\ [Next]_vars => CountInv'
<1>1. IInv /\ [Next]_vars => IInv'
  BY DataStep, ProcsStep, FlagsStep, SelectStep, OwnerStep, UnsubmittedStep, UnsentStep, BusyStep,
     StageStep DEF IInv, TypeOK
<1> QED
  BY <1>1, CountStep, OvercountStep, LimitsStep, AwakeStep DEF CountInv

(* The inductive invariant of the counters and of the wakeups holds in     *)
(* every behaviour.                                                        *)
THEOREM CountInvariance == Spec => []CountInv
BY InitCountInv, CountInvStep, PTL DEF Spec

(* totalCount is the size of the heaps and never above maxQueueSize, after *)
(* every Enqueue, Dequeue, Remove and ExpireDeadlined.                     *)
THEOREM CountMatches == Spec => []CountMatchesQueue
<1>1. CountInv => CountMatchesQueue
  BY DEF CountInv
<1> QED
  BY CountInvariance, <1>1, PTL

(* No agent's in-flight counter leaks upwards: it is at most the number of *)
(* its tasks that workers hold.                                            *)
THEOREM NeverOvercounts == Spec => []InflightNeverOvercounts
<1>1. CountInv => InflightNeverOvercounts
  BY DEF CountInv
<1> QED
  BY CountInvariance, <1>1, PTL

(* The in-flight counters never exceed maxInflight, in sum, and            *)
(* maxPerAgentFlight, each (Dequeue's checks; Complete only decrements).   *)
THEOREM CountersLimited == Spec => []CountersWithinLimits
<1>1. CountInv => CountersWithinLimits
  BY DEF CountInv
<1> QED
  BY CountInvariance, <1>1, PTL

(* No wakeup is lost: while all workers are at their select and an agent   *)
(* may run a task, a token is under way to one of them.                    *)
THEOREM Wakeups == Spec => []NoLostWakeup
<1>1. CountInv => NoLostWakeup
  <2> SUFFICES ASSUME CountInv, Eligible # {}, \A w \in Workers : pc[w] = "wait"
               PROVE  Signalled
    BY DEF NoLostWakeup
  <2>1. queue # {}
    BY DEF Eligible, QueueOf
  <2> QED
    BY <2>1 DEF CountInv, Awake
<1> QED
  BY CountInvariance, <1>1, PTL

----------------------------------------------------------------------------------
(* The limits on executing tasks.                                          *)

(* Only workers have completed tasks: no Cancel call got as far, and no    *)
(* task expired in the queue.                                              *)
OnlyWorkersComplete == \A p \in Cancellers \cup {Reaper} : pc[p] # "complete"

Holders == {w \in Workers : Holding(w)}

(* The counters are exact.                                                 *)
ExactCounts ==
  /\ \A a \in Agents : inflight[a] = Cardinality(HoldingFor(a))
  /\ SumFunction(inflight) = Cardinality(Holders)

LEMMA HoldersFinite == IsFiniteSet(Holders) /\ Cardinality(Holders) \in Nat
<1>1. IsFiniteSet(Holders)
  BY SchedulerAssumption, FS_Subset DEF Holders
<1> QED
  BY <1>1, FS_CardinalityType

(* While only workers complete tasks, a counter moves exactly with the     *)
(* holders of its agent's tasks.                                           *)
LEMMA ExactStep ==
  IInv /\ OnlyWorkersComplete /\ ExactCounts /\ [Next]_vars => ExactCounts'
<1> SUFFICES ASSUME IInv, ProcsTypeOK, QueueTypeOK, OnlyWorkersComplete, ExactCounts,
                    [Next]_vars
             PROVE  ExactCounts'
  BY DEF IInv, TypeOK, DataTypeOK
<1>1. CASE UNCHANGED inflight /\ HoldersKept
  <2>1. Holders' = Holders
    BY <1>1 DEF HoldersKept, Holders
  <2> QED
    BY <1>1, <2>1, KeptHolds DEF ExactCounts
<1>2. ASSUME NEW w \in Workers, NEW t \in queue, Takes(w, t) PROVE ExactCounts'
  <2> DEFINE a == AgentOf[t]
  <2>1. a \in Agents /\ inflight' = [inflight EXCEPT ![a] = inflight[a] + 1]
    BY <1>2, QueueAssumption DEF Takes, Dequeue, QueueTypeOK
  <2>2. ASSUME NEW b \in Agents PROVE inflight'[b] = Cardinality(HoldingFor(b))'
    BY <1>2, <2>1, TakesHolds, HoldingForFinite DEF ExactCounts, QueueTypeOK
  <2>3. Holders' = Holders \cup {w} /\ w \notin Holders
    BY <1>2 DEF ProcsTypeOK, Procs, Takes, Holders, Holding
  <2>4. Cardinality(Holders') = Cardinality(Holders) + 1
    BY <2>3, HoldersFinite, FS_AddElement
  <2> HIDE DEF a
  <2>5. SumFunction(inflight') = SumFunction(inflight) + (inflight[a] + 1) - inflight[a]
    <3>1. inflight \in [Agents -> Nat] /\ inflight[a] + 1 \in Nat
      BY <2>1 DEF QueueTypeOK
    <3> QED
      BY <2>1, <3>1, InflightSum
  <2>6. SumFunction(inflight') = Cardinality(Holders')
    BY <2>1, <2>4, <2>5, HoldersFinite DEF ExactCounts, QueueTypeOK
  <2> QED
    BY <2>2, <2>6 DEF ExactCounts
<1>3. ASSUME NEW p \in Procs, Completes(p) PROVE ExactCounts'
  <2> DEFINE a == AgentOf[cur[p]]
  <2>1. p \in Workers
    BY <1>3 DEF OnlyWorkersComplete, Completes, ProcsTypeOK, ProcTypeOK, SubmitLabels,
       StopLabels, Procs
  <2>2. a \in Agents /\ p \in HoldingFor(a)
    BY <1>3, <2>1, Working, QueueAssumption DEF Completes, Taskless, HoldingFor, Holding
  <2>3. inflight[a] > 0 /\ inflight[a] - 1 \in Nat
    BY <2>2, HoldingForFinite, FS_EmptySet DEF ExactCounts, QueueTypeOK
  <2>4. inflight' = [inflight EXCEPT ![a] = inflight[a] - 1]
    BY <1>3, <2>2, <2>3 DEF Completes, Complete, QueueTypeOK
  <2>5. ASSUME NEW b \in Agents PROVE inflight'[b] = Cardinality(HoldingFor(b))'
    BY <1>3, <2>1, <2>2, <2>4, CompletesHolds, HoldingForFinite DEF ExactCounts, QueueTypeOK
  <2>6. Holders' = Holders \ {p} /\ p \in Holders
    BY <1>3, <2>1 DEF ProcsTypeOK, Procs, Completes, Holders, Holding
  <2>7. Cardinality(Holders') = Cardinality(Holders) - 1
    BY <2>6, HoldersFinite, FS_RemoveElement
  <2> HIDE DEF a
  <2>8. SumFunction(inflight') = SumFunction(inflight) + (inflight[a] - 1) - inflight[a]
    BY <2>2, <2>3, <2>4, InflightSum DEF QueueTypeOK
  <2>9. SumFunction(inflight') = Cardinality(Holders')
    BY <2>2, <2>7, <2>8, HoldersFinite DEF ExactCounts, QueueTypeOK
  <2> QED
    BY <2>5, <2>9 DEF ExactCounts
<1> QED
  BY <1>1, <1>2, <1>3, HoldersMove

(* Exact counters within the limits mean running tasks within the limits.  *)
LEMMA ExactMeansLimited == CountersWithinLimits /\ ExactCounts => RunningWithinLimits
<1> SUFFICES ASSUME CountersWithinLimits, ExactCounts PROVE RunningWithinLimits
  OBVIOUS
<1>1. Cardinality(Executing) <= MaxInflight
  <2>1. Executing \subseteq Holders
    BY DEF Executing, Holders, Holding
  <2>2. Cardinality(Executing) <= Cardinality(Holders) /\ Cardinality(Executing) \in Nat
    BY <2>1, HoldersFinite, FS_Subset, FS_CardinalityType
  <2> QED
    BY <2>2, HoldersFinite, QueueAssumption DEF CountersWithinLimits, ExactCounts
<1>2. ASSUME NEW a \in Agents
      PROVE  Cardinality({w \in Executing : AgentOf[cur[w]] = a}) <= MaxPerAgentFlight
  <2> DEFINE mine == {w \in Executing : AgentOf[cur[w]] = a}
  <2>1. mine \subseteq HoldingFor(a)
    BY DEF Executing, HoldingFor, Holding
  <2>2. Cardinality(mine) <= Cardinality(HoldingFor(a)) /\ Cardinality(mine) \in Nat
    BY <2>1, HoldingForFinite, FS_Subset, FS_CardinalityType
  <2> QED
    BY <2>2, HoldingForFinite, QueueAssumption DEF CountersWithinLimits, ExactCounts
<1> QED
  BY <1>1, <1>2 DEF RunningWithinLimits

LEMMA InitExact == Init => ExactCounts
<1> SUFFICES ASSUME Init PROVE ExactCounts
  OBVIOUS
<1>1. inflight \in [Agents -> Nat] /\ \A a \in Agents : inflight[a] = 0
  BY DEF Init, QueueInit
<1>2. Holders = {} /\ \A a \in Agents : HoldingFor(a) = {}
  BY SchedulerAssumption DEF Init, Holders, HoldingFor, Holding, Procs
<1>3. SumFunction(inflight) = 0
  BY <1>1, SumOfZeros, QueueAssumption
<1> QED
  BY <1>1, <1>2, <1>3, FS_EmptySet DEF ExactCounts

(* The documented limits on executing tasks hold in every behaviour in     *)
(* which only workers complete tasks: the counters are then exact, and     *)
(* Dequeue keeps them within the limits.                                   *)
THEOREM LimitsUntilCancelled == Spec /\ []OnlyWorkersComplete => []RunningWithinLimits
<1>1. CountInv /\ OnlyWorkersComplete /\ ExactCounts /\ [Next]_vars => ExactCounts'
  BY ExactStep DEF CountInv
<1>2. CountInv /\ ExactCounts => RunningWithinLimits
  BY ExactMeansLimited DEF CountInv
<1> QED
  BY CountInvariance, InitExact, <1>1, <1>2, PTL DEF Spec

(* An idle reaper of an instance in which nothing expires.                 *)
QuietReaper == batch = {} /\ pc[Reaper] \in {"reap", "exited"}

(* Without Cancel calls and deadlines only workers complete tasks.         *)
LEMMA QuietStep ==
  Cancellers = {} /\ Expiring = {} /\ TypeOK /\ QuietReaper /\ [Next]_vars => QuietReaper'
<1> SUFFICES ASSUME Cancellers = {}, Expiring = {}, ProcsTypeOK, QuietReaper, [Next]_vars
             PROVE  QuietReaper'
  BY DEF TypeOK
<1> USE SchedulerAssumption DEF QuietReaper, ProcsTypeOK, Procs, Goto, Store, Finish,
      queueVars, taskVars, storeVars, cancelVars, lifeVars, hookVars, procVars
<1>1. ASSUME NEW t \in Tasks, SubmitEnqueue(t) \/ SubmitReject(t) \/ SubmitInsert(t) \/ Evict(t)
      PROVE  QuietReaper'
  BY <1>1 DEF SubmitEnqueue, SubmitReject, SubmitInsert, Evict
<1>2. ASSUME NEW p \in Procs, StoreStep(p) \/ FinishStep(p) PROVE QuietReaper'
  BY <1>2 DEF StoreStep, StoreAtOnce, StoreSnap, StorePut, FinishStep, FinishComplete,
     FinishForget
<1>3. ASSUME NEW w \in Workers, WorkerStep(w) PROVE QuietReaper'
  BY <1>2, <1>3 DEF WorkerStep, WorkerDequeue, WorkerIdle, WorkerPark, WorkerWake, WorkerExit,
     WorkerAssign, WorkerRegister, WorkerRun, WorkerExec, WorkerSettle, WorkerUnregister,
     Advance
<1>4. ASSUME ReaperScan \/ ReaperFinishes PROVE QuietReaper'
  BY <1>2, <1>4 DEF ReaperScan, ReaperFinishes, ReaperExpire, ReaperExit
<1>5. ASSUME StopClose \/ StopReturns PROVE QuietReaper'
  BY <1>2, <1>5 DEF StopClose, StopReturns, StopJoin, StopCancels, StopUnlist, StopSkips,
     StopDone
<1>6. ASSUME Start \/ WebhookReturns \/ UNCHANGED vars PROVE QuietReaper'
  BY <1>6 DEF Start, WebhookReturns, vars
<1> QED
  BY <1>1, <1>2, <1>3, <1>4, <1>5, <1>6 DEF Next, SubmitReturns

(* In an instance without cancellation and queue deadlines the documented  *)
(* limits hold: what the run "limits" checks.                              *)
COROLLARY Limits ==
  ASSUME Cancellers = {}, Expiring = {}
  PROVE  Spec => []RunningWithinLimits
<1>1. Init => QuietReaper
  BY SchedulerAssumption DEF Init, QuietReaper, Procs
<1>2. TypeOK /\ QuietReaper /\ [Next]_vars => QuietReaper'
  BY QuietStep
<1>3. QuietReaper => OnlyWorkersComplete
  BY DEF QuietReaper, OnlyWorkersComplete
<1> QED
  BY TypeCorrect, LimitsUntilCancelled, <1>1, <1>2, <1>3, PTL DEF Spec

==================================================================================

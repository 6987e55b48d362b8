------------------------------- MODULE MCScheduler -------------------------------
(***************************************************************************)
(* Small instances of the scheduler for TLC.                               *)
(***************************************************************************)
EXTENDS SchedulerProperties, TLC

CONSTANTS t1, t2, t3, a1, a2

(* The last task belongs to another agent, or all to one.                  *)
TwoAgents == [t \in Tasks |-> IF t = t3 THEN a2 ELSE a1]
OneAgent == [t \in Tasks |-> a1]

(* The second task is more urgent than the first.                          *)
Priorities == [t \in Tasks |-> IF t = t2 THEN 0 ELSE 1]

(* The workers are interchangeable, and tasks of one agent and priority.   *)
WorkerSymmetry == Permutations(Workers)
Level == [t \in Tasks |-> 0]
Symmetry == Permutations(Workers) \cup Permutations(Tasks)

==================================================================================

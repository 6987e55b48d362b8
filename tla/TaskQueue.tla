-------------------------------- MODULE TaskQueue --------------------------------
(***************************************************************************)
(* TaskQueue (internal/scheduler/queue.go): the bounded priority queue of  *)
(* the scheduler, with one heap and one in-flight counter per agent.  Each *)
(* operation is one critical section of q.mu, and is written as an action  *)
(* over the queue's variables that the scheduler conjoins to its own.      *)
(*                                                                         *)
(* The heaps are one set of tasks, split by agent.  A map entry that the   *)
(* code deletes (no task, nothing in flight) is the same as an empty one.  *)
(* Creation times are not modelled: of an agent's tasks with the lowest    *)
(* priority number any may be the oldest.  The send on notify, made after  *)
(* the unlock, is part of the operation: until the code makes it the       *)
(* sender has it still to make.  It follows the rule of Go channels: a     *)
(* receiver that is parked is handed the token, and only when there is     *)
(* none is the token left in the buffer, or dropped.                       *)
(*                                                                         *)
(* A definition named ...Slip is what a plausible mistake would make of    *)
(* the one below it; no specification uses it.                             *)
(***************************************************************************)
EXTENDS Integers, FiniteSets, Functions

CONSTANTS
  Tasks,              \* the tasks that may be submitted
  Agents,             \* the agents that submit them
  AgentOf,            \* the agent of each task
  Workers,            \* the goroutines that receive from q.notify
  Priority,           \* the priority of each task: lower runs first
  MaxQueueSize,       \* queued tasks overall
  MaxPerAgent,        \* queued tasks of one agent
  MaxInflight,        \* dispatched tasks overall
  MaxPerAgentFlight   \* dispatched tasks of one agent

ASSUME QueueAssumption ==
  /\ AgentOf \in [Tasks -> Agents]
  /\ Priority \in [Tasks -> Int]
  /\ IsFiniteSet(Tasks) /\ IsFiniteSet(Agents)
  /\ {MaxQueueSize, MaxPerAgent, MaxInflight, MaxPerAgentFlight} \subseteq Nat \ {0}

VARIABLES
  queue,        \* the queued tasks, of all agents
  totalCount,   \* q.totalCount, maintained beside the heaps
  inflight,     \* aq.inflight of each agent
  notify,       \* whether the one-slot channel q.notify holds a token
  select        \* each worker's select: "away" unless it is parked there, or
                \* was woken by a send ("sent") or by the close of stopCh

channel == <<notify, select>>
queueVars == <<queue, totalCount, inflight, channel>>

QueueInit ==
  /\ queue = {}
  /\ totalCount = 0
  /\ inflight = [a \in Agents |-> 0]
  /\ notify = FALSE
  /\ select = [w \in Workers |-> "away"]

Parked == {w \in Workers : select[w] = "parked"}

(* A token is under way to a worker.                                       *)
Signalled == notify \/ \E w \in Workers : select[w] = "sent"

Send ==
  IF Parked = {}
    THEN notify' = TRUE /\ UNCHANGED select
    ELSE \E w \in Parked : select' = [select EXCEPT ![w] = "sent"] /\ UNCHANGED notify

QueueOf(a) == {t \in queue : AgentOf[t] = a}

HasRoomSlip(t) ==
  /\ totalCount <= MaxQueueSize
  /\ Cardinality(QueueOf(AgentOf[t])) <= MaxPerAgent

HasRoom(t) ==
  /\ totalCount < MaxQueueSize
  /\ Cardinality(QueueOf(AgentOf[t])) < MaxPerAgent

EnqueueSlip(t) ==
  /\ HasRoom(t)
  /\ queue' = queue \cup {t}
  /\ totalCount' = totalCount + 1
  /\ UNCHANGED <<inflight, channel>>

Enqueue(t) ==
  /\ HasRoom(t)
  /\ queue' = queue \cup {t}
  /\ totalCount' = totalCount + 1
  /\ Send
  /\ UNCHANGED inflight

EligibleSlip ==
  IF SumFunction(inflight) < MaxInflight
    THEN {a \in Agents : QueueOf(a) # {} /\ inflight[a] <= MaxPerAgentFlight}
    ELSE {}

(* The agents Dequeue may serve: none when the global limit is reached.    *)
Eligible ==
  IF SumFunction(inflight) < MaxInflight
    THEN {a \in Agents : QueueOf(a) # {} /\ inflight[a] < MaxPerAgentFlight}
    ELSE {}

DequeueSlip(t) ==
  /\ t \in queue
  /\ AgentOf[t] \in Eligible
  /\ inflight' = [inflight EXCEPT ![AgentOf[t]] = @ + 1]
  /\ UNCHANGED <<queue, totalCount, channel>>

(* Dequeue serves an eligible agent with the fewest tasks in flight, and   *)
(* of its tasks one with the lowest priority number.                       *)
Dequeue(t) ==
  /\ t \in queue
  /\ AgentOf[t] \in Eligible
  /\ \A a \in Eligible : inflight[AgentOf[t]] <= inflight[a]
  /\ \A u \in QueueOf(AgentOf[t]) : Priority[t] <= Priority[u]
  /\ queue' = queue \ {t}
  /\ totalCount' = totalCount - 1
  /\ inflight' = [inflight EXCEPT ![AgentOf[t]] = @ + 1]
  /\ UNCHANGED channel

CompleteSlip(a) ==
  /\ inflight' = [inflight EXCEPT ![a] = @ - 1]
  /\ IF QueueOf(a) # {} THEN Send ELSE UNCHANGED channel
  /\ UNCHANGED <<queue, totalCount>>

CompleteIdleSlip(a) ==
  /\ inflight' = [inflight EXCEPT ![a] = IF QueueOf(a) # {} /\ @ > 0 THEN @ - 1 ELSE @]
  /\ IF QueueOf(a) # {} THEN Send ELSE UNCHANGED channel
  /\ UNCHANGED <<queue, totalCount>>

(* Complete wakes a worker only if the same agent has more queued work.    *)
Complete(a) ==
  /\ inflight' = [inflight EXCEPT ![a] = IF @ > 0 THEN @ - 1 ELSE @]
  /\ IF QueueOf(a) # {} THEN Send ELSE UNCHANGED channel
  /\ UNCHANGED <<queue, totalCount>>

(* Remove and ExpireDeadlined both take tasks out of the heaps; neither    *)
(* touches inflight.                                                       *)
Take(ts) ==
  /\ queue' = queue \ ts
  /\ totalCount' = totalCount - Cardinality(queue \cap ts)
  /\ UNCHANGED <<inflight, channel>>

Remove(t) == Take({t})

ExpireDeadlined(ts) == ts \subseteq queue /\ Take(ts)

QueueTypeOK ==
  /\ queue \subseteq Tasks
  /\ totalCount \in Int
  /\ inflight \in [Agents -> Nat]

SelectTypeOK == select \in [Workers -> {"away", "parked", "sent", "closed"}]

==================================================================================

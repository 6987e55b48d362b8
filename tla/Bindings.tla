--------------------------------- MODULE Bindings ---------------------------------
(***************************************************************************)
(* The orchestrator's memory of which instance served an identity last: a  *)
(* map for sessions, whose end is reported, and a map for agents, whose    *)
(* end is not, so that idle ones are pruned.  Each operation runs under    *)
(* the map's lock.  An agent's last access is abstracted to whether it is  *)
(* longer ago than the idle time; the limit of 10000 agents is left out.   *)
(***************************************************************************)

CONSTANTS Sessions, Agents, None

VARIABLES
  session,   \* the instance of each session, or None
  agent,     \* the instance of each agent, or None
  idle       \* the agents not seen for the idle time

BindingsInit ==
  /\ session = [s \in Sessions |-> None]
  /\ agent = [a \in Agents |-> None]
  /\ idle = {}

BindSession(s, i) == session' = [session EXCEPT ![s] = i] /\ UNCHANGED <<agent, idle>>

BindAgent(a, i) ==
  /\ agent' = [agent EXCEPT ![a] = i]
  /\ idle' = idle \ {a}
  /\ UNCHANGED session

(* ResolveAgent renews the access time of a bound agent.                   *)
Seen(a) == idle' = (IF agent[a] = None THEN idle ELSE idle \ {a}) /\ UNCHANGED <<session, agent>>

ClearSession(s) == session' = [session EXCEPT ![s] = None] /\ UNCHANGED <<agent, idle>>

Without(map, i) == [x \in DOMAIN map |-> IF map[x] = i THEN None ELSE map[x]]

ClearInstanceSlip(i) == session' = Without(session, i) /\ UNCHANGED <<agent, idle>>

ClearInstance(i) ==
  /\ session' = Without(session, i)
  /\ agent' = Without(agent, i)
  /\ idle' = {a \in idle : agent[a] # i}

Rest(a) ==
  /\ agent[a] # None /\ a \notin idle
  /\ idle' = idle \cup {a}
  /\ UNCHANGED <<session, agent>>

PruneAgents ==
  /\ idle # {}
  /\ agent' = [a \in Agents |-> IF a \in idle THEN None ELSE agent[a]]
  /\ idle' = {}
  /\ UNCHANGED session
=============================================================================

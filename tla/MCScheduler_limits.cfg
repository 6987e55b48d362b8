SPECIFICATION Spec
CONSTANTS
  t1 = t1
  t2 = t2
  t3 = t3
  a1 = a1
  a2 = a2
  Tasks = {t1, t2, t3}
  Agents = {a1, a2}
  AgentOf <- TwoAgents
  Priority <- Priorities
  MaxQueueSize = 2
  MaxPerAgent = 1
  MaxInflight = 2
  MaxPerAgentFlight = 1
  Workers = {w1, w2}
  Cancellers = {}
  Reaper = reaper
  Stopper = stopper
  Callbacks = {}
  Expiring = {}
  Evictable = {}
  Stopping = FALSE
  WebhookSlots = 1
  SplitStore = FALSE
  NoTask = NoTask
SYMMETRY WorkerSymmetry
INVARIANTS
  RunningWithinLimits
  CountMatchesQueue
CHECK_DEADLOCK FALSE

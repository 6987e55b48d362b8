SPECIFICATION FairSpec
CONSTANTS
  t1 = t1
  t2 = t2
  t3 = t3
  a1 = a1
  a2 = a2
  Tasks = {t1, t2}
  Agents = {a1}
  AgentOf <- OneAgent
  Priority <- Priorities
  MaxQueueSize = 2
  MaxPerAgent = 2
  MaxInflight = 2
  MaxPerAgentFlight = 1
  Workers = {w1}
  Cancellers = {}
  Reaper = reaper
  Stopper = stopper
  Callbacks = {}
  Expiring = {}
  Evictable = {t1}
  Stopping = TRUE
  WebhookSlots = 1
  SplitStore = TRUE
  NoTask = NoTask
INVARIANTS
  StoredEndIsTrue
PROPERTIES
  AdmittedEnds
  StopTerminates
  StopLeavesNothing
CHECK_DEADLOCK FALSE

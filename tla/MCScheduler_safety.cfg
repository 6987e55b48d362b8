SPECIFICATION Spec
CONSTANTS
  t1 = t1
  t2 = t2
  t3 = t3
  a1 = a1
  a2 = a2
  Tasks = {t1, t2}
  Agents = {a1}
  AgentOf <- OneAgent
  Priority <- Level
  MaxQueueSize = 2
  MaxPerAgent = 2
  MaxInflight = 2
  MaxPerAgentFlight = 2
  Workers = {w1, w2}
  Cancellers = {c1}
  Reaper = reaper
  Stopper = stopper
  Callbacks = {t1, t2}
  Expiring = {t1, t2}
  Evictable = {}
  Stopping = FALSE
  WebhookSlots = 1
  SplitStore = FALSE
  NoTask = NoTask
SYMMETRY Symmetry
INVARIANTS
  TypeOK
  SingleOwner
  NoTaskLost
  AcceptedIsFindable
  InflightNeverOvercounts
  NoLostWakeup
PROPERTIES
  LiveDropsOnlyTerminal
  ImplementsLifecycle
CHECK_DEADLOCK FALSE

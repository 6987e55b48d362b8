CONSTANTS
  NumCalls = 3
  NumTargets = 3
  Configs <- Features
  None = None
SPECIFICATION Spec
INVARIANTS
  ExcessCovered
  ContextsOwned
  OneIdleTimer
  PopupsInHand
CHECK_DEADLOCK FALSE

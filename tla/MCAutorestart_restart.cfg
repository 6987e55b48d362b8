SPECIFICATION Spec
CONSTANTS
  Instances = {i1, i2, i3, i4}
  MaxRestarts = 2
  InitBackoff = 2
  MaxBackoff = 3
  Width = 4
  Starter = Starter
  NoInstance = NoInstance
INVARIANTS
  OneRestart
  RestartBudget
  NoneAbandoned
PROPERTIES
  WaitsBeforeRestart
  RestartSettles
CHECK_DEADLOCK FALSE

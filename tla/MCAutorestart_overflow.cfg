SPECIFICATION Spec
CONSTANTS
  Instances = {i1, i2, i3, i4}
  MaxRestarts <- Unlimited
  InitBackoff = 2
  MaxBackoff = 3
  Width = 4
  Starter = Starter
  NoInstance = NoInstance
PROPERTIES
  WaitsBeforeRestart
CHECK_DEADLOCK FALSE

CONSTANTS
  s1 = s1
  a1 = a1
  i1 = i1
  i2 = i2
  r1 = r1
  r2 = r2
  Sessions = {s1}
  Agents = {a1}
  AgentOf <- OneAgent
  Instances = {i1, i2}
  Requests = {r1, r2}
  MaxHooks = 1
  MaxRestarts = 1
  Configs <- Features
  None = None
SPECIFICATION Spec
INVARIANTS
  EndedUnbound
  StoppedForgotten
PROPERTIES
  RevokedStaysOut
  StrictMoves
CHECK_DEADLOCK FALSE

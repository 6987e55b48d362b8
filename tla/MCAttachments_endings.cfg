SPECIFICATION TableSpec
CONSTANTS
  l1 = l1
  s1 = s1
  s2 = s2
  b1 = b1
  b2 = b2
  c1 = c1
  d1 = d1
  PortStart = 1
  PortEnd = 3
  Launches = {l1}
  Stoppers = {s1, s2}
  Profiles = {n1}
  Requests = {0, 2, 9}
  Foreign = {3}
  NoInstance = NoInstance
  Bridges = {b1, b2}
  Browsers = {c1}
  Detachers = {d1}
  Origins = {u1, u2}
  Scenarios <- Calls
  NoOrigin = NoOrigin
INVARIANTS
  RegisteredIsTracked
  BridgesWatched
PROPERTIES
  StoppingOnlyEnds
  ImplementsLifecycle
  StartingSettles
  StopResolves
  ExitAnnounced
  DeadBridgeLeaves
CHECK_DEADLOCK FALSE

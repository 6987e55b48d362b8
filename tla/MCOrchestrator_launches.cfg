SPECIFICATION Spec
CONSTANTS
  PortStart = 1
  PortEnd = 3
  Launches = {l1, l2}
  Stoppers = {s1}
  Profiles = {n1, n2}
  Requests = {0, 2, 9}
  Foreign = {}
  NoInstance = NoInstance
SYMMETRY Symmetry
INVARIANTS
  TypeOK
  NoPortLost
  PortsExclusive
  ExhaustionIsReal
  NoOrphan
CHECK_DEADLOCK FALSE

SPECIFICATION Spec
CONSTANTS
  PortStart = 1
  PortEnd = 4
  Launches = {l1, l2}
  Stoppers = {s1}
  Profiles = {n1}
  Requests = {0}
  Foreign = {}
  NoInstance = NoInstance
SYMMETRY Symmetry
INVARIANTS
  OneActivePerProfile
CHECK_DEADLOCK FALSE

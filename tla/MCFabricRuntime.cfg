SPECIFICATION Spec
CONSTANTS
  p1 = p1
  p2 = p2
  NoOwner = NoOwner
  Procs = {p1, p2}
  OwnerIds = {p1, p2}
  OwnerOf <- DistinctOwners
  TTL = 1
  HeartbeatTTL = 1
  Healths = {TRUE}
  MaxFailures = 1
  MaxGeneration = 2
  MaxTime = 1
INVARIANTS
  GateMeansHolder
PROPERTIES
  LossIsFinal
  NoOpenAfterStop
CHECK_DEADLOCK FALSE
SYMMETRY Symmetry

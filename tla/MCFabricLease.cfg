SPECIFICATION Spec
CONSTANTS
  p1 = p1
  p2 = p2
  NoOwner = NoOwner
  Procs = {p1, p2}
  OwnerIds = {p1, p2}
  OwnerOf <- DistinctOwners
  TTL = 2
  MaxAttempts = 2
  MaxGeneration = 4
  MaxTime = 5
INVARIANTS
  OneBeliever
  TokenNamesOneOwner
PROPERTIES
  ImplementsFencedLease

SPECIFICATION SafetySpec
CONSTANTS
  a = a
  b = b
  s = s
  t = t
  Nobody = Nobody
  Ordinary = {a, b}
  Subscriptions = {s, t}
  MaxPending = 2
  MaxQueue = 2
  MaxQueued = 3
  MaxProcs = 2
INVARIANTS
  TypeOK
  Accounting
  Attended
  NotesToOwner
  NoOrphan
SYMMETRY Symmetry
CHECK_DEADLOCK FALSE

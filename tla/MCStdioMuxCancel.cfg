SPECIFICATION Spec
CONSTANTS
  a = a
  b = b
  s = s
  t = t
  Nobody = Nobody
  Ordinary = {a}
  Subscriptions = {s}
  MaxPending = 2
  MaxQueue = 2
  MaxQueued = 3
  MaxProcs = 2
PROPERTIES
  CancelLeavesOthers
CHECK_DEADLOCK FALSE

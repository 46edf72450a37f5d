SPECIFICATION Spec
CONSTANTS
  m1 = m1
  m2 = m2
  a1 = a1
  a2 = a2
  w1 = w1
  w2 = w2
  Members = {m1, m2}
  Agents = {a1, a2}
  Workers = {w1, w2}
  MemberTTL = 1
  Tries = 2
  Window = 1
  Limit = 1
  BaseSeconds = 1
  Factor = 2
  MaxSeconds = 2
  DenyWindow = 1
  MaxTime = 2
  MaxCalls = 4
INVARIANTS
  TypeOK
  RateKept
  CooldownEnds
PROPERTIES
  ImplementsMembership
SYMMETRY Symmetry
CHECK_DEADLOCK FALSE

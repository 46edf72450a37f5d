SPECIFICATION Spec
CONSTANTS
  w1 = w1
  w2 = w2
  a = a
  Ids = {a}
  Workers = {w1, w2}
  Free = Free
  Second = 2
  Overlap = 4
  TTLs = {6}
  Grants = {6, 9}
  Limits = {0, 2}
  MaxTokens = 2
  MaxUses = 3
  MaxTime = 11
INVARIANTS
  BudgetKept
  TokenLifetime
  OverlapHonoured
PROPERTIES
  RevocationFinal
  RemovedWhenDead
SYMMETRY Symmetry

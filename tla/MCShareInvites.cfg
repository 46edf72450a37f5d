CONSTANTS
  i1 = i1
  i2 = i2
  o1 = o1
  o2 = o2
  Invites = {i1}
  Operators = {o1, o2}
  Crashes = TRUE
SPECIFICATION Spec
INVARIANTS RevokedForGood FilesInOrder
SYMMETRY Idents
CHECK_DEADLOCK FALSE

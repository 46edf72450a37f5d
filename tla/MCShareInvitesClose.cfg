CONSTANTS
  i1 = i1
  i2 = i2
  o1 = o1
  o2 = o2
  Invites = {i1, i2}
  Operators = {o1, o2}
  Crashes = FALSE
SPECIFICATION Spec
PROPERTIES CloseRevokesInvites
CHECK_DEADLOCK FALSE

CONSTANTS
  r1 = r1
  r2 = r2
  A = A
  B = B
  X = X
  none = none
  broken = broken
  nobody = nobody
  Requests = {r1, r2}
  Upstreams = {1}
  Versions = {A, B, X}
  Absent = none
  Layouts <- MCLayouts1
  Broken = broken
  Threshold = 1
  Nobody = nobody
  MaxTables = 3
  MaxLeaks = 0
  MaxEdits = 1
SPECIFICATION Spec
PROPERTIES RequestsEnd FollowsFile
CHECK_DEADLOCK FALSE

CONSTANTS
  r1 = r1
  r2 = r2
  A = A
  B = B
  X = X
  none = none
  broken = broken
  nobody = nobody
  Requests = {r1, r2}
  Upstreams = {1, 2}
  Versions = {A, B, X}
  Absent = none
  Layouts <- MCLayouts
  Broken = broken
  Threshold = 2
  Nobody = nobody
  MaxTables = 3
  MaxLeaks = 1
  MaxEdits = 1
SPECIFICATION Spec
INVARIANTS TypeOK SnapshotStands NoTableLeft NotBlamed
PROPERTIES ReloadOrder
SYMMETRY Idents
CHECK_DEADLOCK FALSE

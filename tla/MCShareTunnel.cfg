SPECIFICATION Spec
CONSTANTS
  RestartInitial = 1
  RestartMax = 3
  MaxAttempts = 3
  ResetAfter = 3
  MaxStarts = 3
INVARIANTS
  TypeOK
  OneTunnel
PROPERTIES
  StopStands
  Recovers
  DrainEnds

SPECIFICATION SessionSpec
CONSTANTS
  a = a
  b = b
  sub = sub
  web = web
  tools = tools
  prompts = prompts
  Nobody = Nobody
  NotYet = NotYet
  Nothing = Nothing
  Bad = Bad
  CR = CR
  LF = LF
  Data = Data
  Other = Other
  Ordinary = {a, b}
  Subscriptions = {sub}
  Remote = {web}
  Listens = {sub, web}
  Slow = {b, web}
  Changes = {tools, prompts}
  MaxPending = 2
  MaxQueue = 1
  MaxQueued = 2
  MaxProcs = 1
  MaxEvents = 2
  ByteLimit = 6
  FrameLimit = 4
  MaxChunk = 3
INVARIANTS
  StreamTypeOK
  EventsWhole
  OneTerminal
  AcknowledgedFirst
PROPERTIES
  SessionsEnd
  NoStarvation
CHECK_DEADLOCK FALSE

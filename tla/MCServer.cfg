SPECIFICATION FairSpec
CONSTANTS
  c1 = c1  c2 = c2  id1 = id1
  NoTraceId = NoTraceId
  Call <- MCCall
  TraceId <- MCTraceId
  Start <- MCStart
INVARIANTS
  Precedence
  ReportsTheFileItRead
  LoadedFilesAreWhole
  CallsAreAccountedFor
  LevelIsConfigured
  LoggersStayAlive
PROPERTIES
  EveryCallEnds
CHECK_DEADLOCK FALSE

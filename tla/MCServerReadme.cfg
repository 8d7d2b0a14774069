SPECIFICATION Spec
CONSTANTS
  c1 = c1  c2 = c2  id1 = id1
  NoTraceId = NoTraceId
  Call <- MCCall
  TraceId <- MCTraceId
  Start <- MCReadmeStart
INVARIANTS
  FileOfTheReadmeIsFound
CHECK_DEADLOCK FALSE

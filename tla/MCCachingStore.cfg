SPECIFICATION FairSpec
CONSTANTS
  t1 = t1  t2 = t2  k1 = k1  v1 = v1  v2 = v2
  Absent = Absent  Failed = Failed
  Thread <- MCThread
  Key <- MCKey
  Value <- MCValue
  Capacity = 1
  Ttl = 2
  MaxFetch = 2
INVARIANTS
  StalenessBounded
PROPERTIES
  NotFoundIsFresh
  StaleEntriesDieOut

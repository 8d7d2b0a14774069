SPECIFICATION Spec
CONSTANTS
  k1 = k1
  k2 = k2
  Key <- MCKey
  Neighbor <- MCNeighbor
  Score <- MCScore
  Data <- MCData
  ReplaceExisting = TRUE
  Expire = TRUE
  BatchSize = 1
  MaxWriteAttempts = 2
  Thread = {t1, t2}
  NoId = NoId
  SingleIds <- MCSingleIds
  Requests <- MCRequests
  MaxNeighbors = 2
  PoolSize = 1
  MaxAttempts = 2
INVARIANTS
  FinishedJobLeavesItsData
  NoMixedNeighbors
  AnswersAreWhole
  RetriesAreUsed

SPECIFICATION FairSpec
CONSTANTS
  t1 = t1  t2 = t2
  h1 = h1
  NoLease = NoLease
  NoDeadline = NoDeadline
  Thread <- MCThread
  Resource <- MCResource
  Lease <- MCLease
  Timeouts <- MCTimeouts
  AcquireTimeout = 1
  RequestTimeout = 2
  AcquireMaxAttempts = 2
  ConnectMaxAttempts = 2
  RequestMaxAttempts = 2
  AcquireDelay = 1
  ConnectDelay = 1
  RequestDelay = 1
INVARIANTS
  HandleOnlyWhileInUse
  DeadlineBoundsBlocking
  TransfersAreBounded
  ResultIsJustified
PROPERTIES
  NoTransferAfterDeadline
  ExecuteReturns

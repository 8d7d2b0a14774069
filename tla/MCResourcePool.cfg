SPECIFICATION PoolFairSpec
CONSTANTS
  t1 = t1  t2 = t2  t3 = t3
  r1 = r1  r2 = r2
  a1 = a1  a2 = a2  b1 = b1  b2 = b2  c1 = c1
  NoResource = NoResource
  NoLease = NoLease
  Thread <- MCThread
  Resource <- MCResource
  Lease <- MCLease
  Owner <- MCOwner
INVARIANTS
  InductiveInv
  ExclusiveUse
  NoLostWakeup
PROPERTIES
  ImplementsHandlePool
  AcquireReturns

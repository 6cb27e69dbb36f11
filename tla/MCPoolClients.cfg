CONSTANTS
  Size = 2
  t1 = t1
  t2 = t2
  t3 = t3
  t4 = t4
  Threads <- MCThreads
SPECIFICATION Spec
INVARIANTS
  CountMatchesFreeList
  OneLeasePerContext
  NoLostWakeup
PROPERTIES
  BlockedAcquireReturns

SPECIFICATION FairSpec
CONSTANTS
  t1 = t1
  t2 = t2
  t3 = t3
  t4 = t4
  t5 = t5
  k1 = k1
  k2 = k2
  NoConn = NoConn
  NoThread = NoThread
  Threads <- FiveThreads
  Connections <- TwoConnections
  Timed <- TwoTimed
INVARIANTS
  Exclusive
  Conserved
  NoLostWakeup
PROPERTIES
  ImplementsResourcePool
  AcquireReturns
  StopDrains

\* Four threads on two pools with three permits and room for two idle connections
\* each, and two instants: what was used at the first has expired at the second.
CONSTANTS
  t1 = t1
  t2 = t2
  t3 = t3
  t4 = t4
  p1 = p1
  p2 = p2
  c1 = c1
  c2 = c2
  c3 = c3
  NoConn = NoConn
  Thread <- MCThread
  PoolName <- MCPool
  Conn <- MCConn
  MaxIdle = 2
  MaxTotal = 3
  MaxIdleTime = 0
  CleanupInterval = 0
  Epoch = 1
  MaxClock = 2
SPECIFICATION Spec
SYMMETRY MCSymmetry
VIEW MCView
INVARIANTS
  TypeOK
  CountsMatch
  LimitsKept
  NoSharing
  IdleOldestFirst
PROPERTIES
  LeasesKept
  OnlyExpiredDropped

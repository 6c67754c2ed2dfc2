SPECIFICATION LimiterSpec
CONSTANTS
  c1 = c1
  c2 = c2
  t1 = t1
  t2 = t2
  b1 = b1
  b2 = b2
  b3 = b3
  NoBucket = NoBucket
  Buckets = {b1, b2, b3}
  Clients = {c1, c2}
  Callers = {t1, t2}
  Unit = 2
  Burst = 1
  IdleTTL = 3
  MaxStall = 1
  JanitorLag = 1
  MaxTime = 8
SYMMETRY LimiterSymmetry
INVARIANTS LimiterTypeOK NoStaleBucket IdleEvicted
PROPERTY ActsAsOneBucket
CHECK_DEADLOCK FALSE

CONSTANTS
  p1 = p1
  p2 = p2
  HistorySize = 2
  Lifetime = 2
  MemoryMetaTTL = 1
  RedisMetaTTL = 2
  MaxEpochs = 1
  MaxNow = 3
  MaxPubs = 3
  Publishers = {p1, p2}
  QueueCap = 2
  Radixes = {2}
  Nobody = Nobody
SPECIFICATION Spec
INVARIANTS RecoveryTypeOK RecoveredIsComplete RecoveredIsFresh JoinedIsComplete NoGap InOrderOnRedis
SYMMETRY Symmetry
CHECK_DEADLOCK FALSE

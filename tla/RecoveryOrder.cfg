CONSTANTS
  p1 = p1
  p2 = p2
  HistorySize = 2
  Lifetime = 1
  MemoryMetaTTL = 0
  RedisMetaTTL = 0
  MaxEpochs = 0
  MaxNow = 1
  MaxPubs = 2
  Publishers = {p1, p2}
  QueueCap = 2
  Radixes = {4}
  Nobody = Nobody
SPECIFICATION Spec
INVARIANT NoOffsetGap
CHECK_DEADLOCK FALSE

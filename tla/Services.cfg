CONSTANTS
  kid = kid
  encryption = encryption
  plain = plain
  full = full
  unknown = unknown
  none = none
  HistorySize = 2
  Lifetime = 2
  MemoryMetaTTL = 3
  RedisMetaTTL = 1
  MaxNow = 8
  MaxPubs = 5
  MaxEpochs = 4
  Keys = {kid, encryption}
  Usable = {kid}
  Refresh = 2
  Latency = 1
  Channels = {plain, full}
  WithPresence = {full}
  WithHistory = {full}
  Unknown = unknown
  NoChannel = none
  MaxBroadcast = 2
  MaxBatch = 2
  Letters = {"a", "b"}
  MaxPattern = 5
  MaxText = 4
SPECIFICATION Spec
INVARIANTS KeysFollow BatchIsPlanned GlobAgrees
PROPERTIES StreamPromise PositionSurvives RedisPromise PublishedIsAccepted
CHECK_DEADLOCK FALSE

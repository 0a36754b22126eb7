CONSTANTS
  n1 = n1
  n2 = n2
  c1 = c1
  None = None
  Nodes = {n1, n2}
  Watched = {n1}
  Clients = {c1}
  NodeOf <- AtFirst
  PingEvery = 1
  CleanEvery = 1
  MaxAge = 1
  MaxLate = 1
  MaxUnread = 1
  MaxLagging = 1
  PresencePing = 1
  PresenceExpire = 3
  MaxTroubles = 2
  PingTroubles = 1
  LagTroubles = 0
  MaxRequests = 2
SPECIFICATION FairSpec
INVARIANTS ClusterTypeOK RegistryTruthful ExactlyOnce PresenceTruthful
PROPERTY ListensAgain
CHECK_DEADLOCK FALSE

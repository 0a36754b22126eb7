CONSTANTS
  room = room
  news = news
  u1 = u1
  u2 = u2
  none = none
  Channels = {room}
  Known = {room}
  PresenceOn = {room}
  JoinLeave = {room}
  ServerOnly = {}
  Private = {}
  Users = {u1, u2, none}
  Anonymous = none
  TokenChannels <- NoChannels
  RefreshProxy = FALSE
  ChannelLimit = 0
  Grace = 1
  Period = 2
  Lookahead = 2
  TTLs = {1}
  CtrlQueue = 1
  MaxBatch = 2
  MaxNow = 1
SPECIFICATION Spec
INVARIANT AllFound
CHECK_DEADLOCK FALSE

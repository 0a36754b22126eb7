CONSTANTS
  room = room
  news = news
  u1 = u1
  u2 = u2
  none = none
  Channels = {room, news}
  Known = {room, news}
  PresenceOn = {room, news}
  JoinLeave = {room, news}
  ServerOnly = {news}
  Private = {room}
  Users = {u1, none}
  Anonymous = none
  TokenChannels <- NewsOrNone
  RefreshProxy = FALSE
  ChannelLimit = 1
  Grace = 1
  Period = 2
  Lookahead = 1
  TTLs = {1}
  CtrlQueue = 1
  MaxBatch = 2
  MaxNow = 6
SPECIFICATION Spec
INVARIANTS Settled LimitHolds LapsedIsClosed ReplyFirst
CHECK_DEADLOCK FALSE

CONSTANTS
  room = room
  news = news
  u1 = u1
  u2 = u2
  none = none
  Channels = {room}
  Known = {room}
  PresenceOn = {room}
  JoinLeave = {room}
  ServerOnly = {}
  Private = {}
  Users = {u1, none}
  Anonymous = none
  TokenChannels <- RoomTwice
  RefreshProxy = TRUE
  ChannelLimit = 0
  Grace = 1
  Period = 2
  Lookahead = 2
  TTLs = {1}
  CtrlQueue = 2
  MaxBatch = 1
  MaxNow = 4
SPECIFICATION FairSpec
INVARIANT MembersAgree
PROPERTY DisconnectTakesEffect
CHECK_DEADLOCK FALSE

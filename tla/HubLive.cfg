CONSTANTS
  c1 = c1
  c2 = c2
  u1 = u1
  ch1 = ch1
  ch2 = ch2
  p1 = p1
  p2 = p2
  none = none
  Conns = {c1}
  Users = {u1, none}
  UserOf <- MCUserOf
  Anonymous = none
  Channels = {ch1, ch2}
  JoinLeave = {ch1}
  Publishers = {p1, p2}
  QueueCap = 1
  UserLimit = 0
  NoConn = NoConn
SPECIFICATION FairSpec
PROPERTIES BroadcastEnds DroppedIsClosed WriterEnds
CHECK_DEADLOCK FALSE

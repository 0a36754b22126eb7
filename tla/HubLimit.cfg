CONSTANTS
  c1 = c1
  c2 = c2
  u1 = u1
  ch1 = ch1
  ch2 = ch2
  p1 = p1
  p2 = p2
  none = none
  Conns = {c1, c2}
  Users = {u1, none}
  UserOf <- MCUserOf
  Anonymous = none
  Channels = {ch1}
  JoinLeave = {ch1}
  Publishers = {p1}
  QueueCap = 1
  UserLimit = 1
  NoConn = NoConn
SPECIFICATION Spec
INVARIANT WithinUserLimit
CHECK_DEADLOCK FALSE

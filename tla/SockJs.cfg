SPECIFICATION FairSpec
CONSTANTS
  MaxSessions = 2
  MaxPolls = 2
  MaxSends = 1
  WriteQueue = 1
  IncomingQueue = 1
  MaxMessages = 1
CHECK_DEADLOCK FALSE
INVARIANT OpenIsReachable
PROPERTY ClosedStaysClosed
PROPERTY OrphanEnds

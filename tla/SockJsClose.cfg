SPECIFICATION Spec
CONSTANTS
  MaxSessions = 2
  MaxPolls = 2
  MaxSends = 1
  WriteQueue = 2
  IncomingQueue = 1
  MaxMessages = 1
CHECK_DEADLOCK FALSE
PROPERTY CloseIsReported

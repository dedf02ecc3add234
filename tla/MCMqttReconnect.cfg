SPECIFICATION FairSpec
CONSTANTS
  MaxConn = 3
  MaxFd = 2
  Secure = TRUE
  Faults <- MCLost
  Subscribes = TRUE
  Commands = TRUE
  MaxSend = 0
  MaxJoin = 2
  PingLimit = 0
INVARIANTS
  TypeOK
  NeverStuck
  NeverUsesNullSock
PROPERTIES
  AttemptEnds
CHECK_DEADLOCK FALSE

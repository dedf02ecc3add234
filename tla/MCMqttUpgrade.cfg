SPECIFICATION Spec
CONSTANTS
  MaxConn = 3
  MaxFd = 2
  Secure = TRUE
  Faults = {}
  Subscribes = TRUE
  Commands = TRUE
  MaxSend = 0
  MaxJoin = 1
  PingLimit = 0
PROPERTY StaysDisconnected
CHECK_DEADLOCK FALSE

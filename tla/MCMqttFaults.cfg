SPECIFICATION Spec
CONSTANTS
  MaxConn = 3
  MaxFd = 2
  Secure = FALSE
  Faults <- MCWritten
  Subscribes = TRUE
  Commands = FALSE
  MaxSend = 2
  MaxJoin = 2
  PingLimit = 1
INVARIANTS
  OwnsItsDescriptor
  RegistersOwnDescriptor
  KnowsItsSession
PROPERTIES
  CompletesOnce
CHECK_DEADLOCK FALSE

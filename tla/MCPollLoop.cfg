SPECIFICATION FairSpec
CONSTANTS
  f1 = f1
  f2 = f2
  t1 = t1
  Fd <- MCOneFd
  Task <- MCTask
  LoopCalls <- MCNotifyCancel
  TaskCalls <- MCNotify
  Replaces = FALSE
  HasTimers = TRUE
  MaxReg = 2
INVARIANTS
  Accounted
  CancelledAnnounced
PROPERTIES CancelAnswered ReadyAnswered TimeoutAnswered

SPECIFICATION Spec
CONSTANTS
  f1 = f1
  f2 = f2
  t1 = t1
  Fd <- MCFd
  Task <- MCTask
  LoopCalls <- MCNotifyCancel
  TaskCalls <- MCNotify
  Replaces = FALSE
  HasTimers = TRUE
  MaxReg = 2
PROPERTIES
  CancelledMeansCancelled

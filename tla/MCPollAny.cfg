SPECIFICATION FairSpec
CONSTANTS
  f1 = f1
  f2 = f2
  t1 = t1
  Fd <- MCOneFd
  Task <- MCTask
  LoopCalls <- MCAll
  TaskCalls <- MCAll
  Replaces = TRUE
  HasTimers = TRUE
  MaxReg = 2
INVARIANTS
  SelectSeesList
  AnsweredAtMostOnce
PROPERTIES
  CancelledLeavesUnlessStranded

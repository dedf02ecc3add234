\* A queue that fills: nothing is lost or reordered, and the cyclic wait, and
\* nothing else, stops the loop.
CONSTANTS
  c1 = c1
  c2 = c2
  main = main
  Thread <- MCOneClient
  Value <- MCOneClientValue
  Loop = main
  MaxSize = 2
  MaxInvoke = 2
  MaxSignal = 1
  PushExpires = FALSE
SPECIFICATION FairLoopSpec
INVARIANT NothingLostOrReordered
PROPERTIES
  RunsUnlessCyclicWait
  CyclicWaitIsForever
CHECK_DEADLOCK FALSE

\* The queue, its refinement of the bounded FIFO, and its wake-ups.
CONSTANTS
  t1 = t1
  t2 = t2
  t3 = t3
  v1 = v1
  v2 = v2
  Thread <- MCThread
  Value <- MCValue
  MaxSize = 2
SPECIFICATION FairSpec
INVARIANTS
  SlotsAccounted
  NeverErasesEmpty
PROPERTIES
  ImplementsFifo
  NoStrandedValue

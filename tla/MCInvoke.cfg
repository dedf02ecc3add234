\* Two clients and the loop share a queue that fills, and a wait may run out.
CONSTANTS
  c1 = c1
  c2 = c2
  main = main
  Thread <- MCTwoClients
  Value <- MCTwoClientsValue
  Loop = main
  MaxSize = 3
  MaxInvoke = 2
  MaxSignal = 1
  PushExpires = TRUE
SPECIFICATION LoopSpec
INVARIANTS
  Announced
  DrainNeverMisses
  ConfirmSucceeds
PROPERTIES
  TriggerIsWakeup

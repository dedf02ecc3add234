CONSTANTS
  scan = scan
  QueueMax = 2
  Name <- MCName
  Default = scan
  Provisions <- MCProvisions
  MaxIp = 2
  MaxMqtt = 1
  MaxMessage = 1
SPECIFICATION Spec
INVARIANTS
  Guarded
  StoppedIsGone
PROPERTIES
  BootEnds
  ProvisioningEnds
  KeepsScanning
CHECK_DEADLOCK FALSE

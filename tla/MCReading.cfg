CONSTANTS
  Increase = 3
  MaxBuffer = 6
  Byte <- MCByte
  Zero <- MCZero
  Base = 2
  Modulus = 8
  Sendings <- MCSendings
  MaxConn = 2
  Chunk = 2
  Piece = 3
  Responses <- MCResponses
  Timeouts = {TRUE, FALSE}
SPECIFICATION Spec
INVARIANTS
  HandlesWhatWasSent
  CommitsWholeBody
PROPERTIES
  BufferIsByteQueue
  UpdateEnds
CHECK_DEADLOCK FALSE

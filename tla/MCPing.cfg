CONSTANTS
  MaxPayload = 6
  Pingers <- MCPingers
  Echoers <- MCEchoers
  InRange <- MCInRange
  Target <- MCTarget
  Count = 3
  MaxRead = 4
  Noise <- MCNoise
  MaxNoise = 1
  MaxEchoes = 3
SPECIFICATION Spec
INVARIANTS
  TypeOK
  CountedWasEchoed
  ReplyInTimeCounts
CHECK_DEADLOCK FALSE

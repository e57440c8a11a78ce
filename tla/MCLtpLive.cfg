SPECIFICATION FairSpec
CONSTANTS
  a = a
  b = b
  c = c
  X = X
  Y = Y
  Engines = {a, b}
  Hears <- PairHears
  Blocks = {X}
  BlockLen <- TwoByteBlocks
  Zero = Zero
  Gap = Gap
  MaxBlock = 2
  Mtu = 1
  MaxExport = 1
  MaxImport = 1
  MaxTimers = 2
  MaxClaims = 2
  MaxRetries = 2
  Cancellers = {}
  Timely = TRUE
  Faulty = {}
  MaxSessions <- OneWayOne
  MaxSerial = 20
  MaxInbox = 4
INVARIANTS
  DeliveredIntact
  SuccessMeansDelivered
PROPERTIES
  SendRunEnds
  TimersDieOut
CHECK_DEADLOCK FALSE

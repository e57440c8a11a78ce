SPECIFICATION RestartSpec
CONSTANTS
  a = a
  b = b
  c = c
  X = X
  Y = Y
  Engines = {a, b}
  Hears <- PairHears
  Blocks = {X}
  BlockLen <- ThreeByteBlocks
  Zero = Zero
  Gap = Gap
  MaxBlock = 3
  Mtu = 1
  MaxExport = 1
  MaxImport = 1
  MaxTimers = 2
  MaxClaims = 2
  MaxRetries = 2
  Cancellers = {a, b}
  Timely = FALSE
  Faulty = {a}
  MaxSessions <- OneWayOne
  MaxSerial = 2
  MaxInbox = 3
  Restarting = {b}
INVARIANTS
  DeliveredIntact
  SuccessMeansSettled
CHECK_DEADLOCK FALSE

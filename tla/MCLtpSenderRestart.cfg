SPECIFICATION RestartSpec
CONSTANTS
  a = a
  b = b
  c = c
  X = X
  Y = Y
  Engines = {a, b}
  Hears <- PairHears
  Blocks = {X, Y}
  BlockLen <- TwoByteBlocks
  Zero = Zero
  Gap = Gap
  MaxBlock = 2
  Mtu = 1
  MaxExport = 1
  MaxImport = 1
  MaxTimers = 3
  MaxClaims = 2
  MaxRetries = 2
  Cancellers = {}
  Timely = FALSE
  Faulty = {}
  MaxSessions <- OneWayOne
  MaxSerial = 3
  MaxInbox = 3
  Restarting = {a}
INVARIANT
  DeliveredIntact
CHECK_DEADLOCK FALSE

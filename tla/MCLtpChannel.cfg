SPECIFICATION Spec
CONSTANTS
  a = a
  b = b
  c = c
  X = X
  Y = Y
  Engines = {a, b, c}
  Hears <- StarHears
  Blocks = {X, Y}
  BlockLen <- TwoByteBlocks
  Zero = Zero
  Gap = Gap
  MaxBlock = 2
  Mtu = 1
  MaxExport = 1
  MaxImport = 2
  MaxTimers = 3
  MaxClaims = 2
  MaxRetries = 1
  Cancellers = {}
  Timely = TRUE
  Faulty = {}
  MaxSessions <- TwoSenders
  MaxSerial = 2
  MaxInbox = 2
INVARIANT
  SuccessMeansDelivered
CHECK_DEADLOCK FALSE

SPECIFICATION Spec
CONSTANTS
  a = a
  b = b
  c = c
  X = X
  Y = Y
  Engines = {a, b}
  Hears <- PairHears
  Blocks = {X, Y}
  BlockLen <- MixedBlocks
  Zero = Zero
  Gap = Gap
  MaxBlock = 5
  Mtu = 2
  MaxExport = 2
  MaxImport = 1
  MaxTimers = 3
  MaxClaims = 1
  MaxRetries = 2
  Cancellers = {}
  Timely = FALSE
  Faulty = {}
  MaxSessions <- OneWayTwo
  MaxSerial = 3
  MaxInbox = 3
INVARIANTS
  TypeOK
  DeliveredIntact
  SuccessMeansSettled
  OpenSessionIsTimed
  CheckpointSerialsAscend
  ClaimsAreHeld
PROPERTIES
  ClaimedBytesStay
  ImplementsTransfer
CHECK_DEADLOCK FALSE

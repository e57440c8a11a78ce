CONSTANTS
  Fds <- MCFds
  FirstFd = 0
  Payloads <- MCPayloads
  MaxFrames = 2
  MaxUnplugs = 1
  MaxSegments = 2
  MaxBuf = 3
SPECIFICATION Spec
INVARIANTS
  TypeOK
  PublishedIsOpen
  WrittenOnceInOrder
  HandedAsHeard
  OneFrameSpoiledPerLoss
PROPERTIES
  EndsUnlessReading
CHECK_DEADLOCK FALSE

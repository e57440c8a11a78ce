CONSTANTS
  Fds <- MCFds
  FirstFd = 0
  Payloads <- MCPayloads
  MaxFrames = 1
  MaxUnplugs = 1
  MaxSegments = 1
  MaxBuf = 4
SPECIFICATION Spec
INVARIANTS
  RxUsesNewPort
CHECK_DEADLOCK FALSE

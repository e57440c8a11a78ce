SPECIFICATION Spec
CONSTANTS
  Frames <- ThreeFrames
  SsidOctets = {2}
  MinOctets = 1
  MaxOctets = 2
  MaxBits = 45
  Preamble = 2
  Closing = 3
  SPB = 4
  Noises <- TwoNoises
  MaxSent = 2
  MaxFaults = 2
CHECK_DEADLOCK FALSE
INVARIANTS
  TypeOK
  ComesThrough
  NothingElseHeard

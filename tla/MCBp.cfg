SPECIFICATION Spec
CONSTANTS
  a = a
  b = b
  c = c
  X = X
  Y = Y
  Z = Z
  Stations = {a, b, c}
  Reach <- StarReach
  Adus = {X, Y, Z}
  AduLen <- Lengths
  FragmentSize = 2
  SingleMax = 1
  MaxFragments = 2
  MaxAdu = 3
  Hole = Hole
  Clockless = {}
  Interruptible = {c}
  Restarting = {b}
  MaxSends <- TwoOne
  MaxDeliveries = 4
  MaxRestarts = 1
INVARIANTS
  TypeOK
  ReassembledIntact
  EachHandoverTakesEveryBlock
  SentMeansArrived
SYMMETRY PayloadSymmetry
CHECK_DEADLOCK FALSE

SPECIFICATION Spec
CONSTANTS
  a = a
  b = b
  c = c
  X = X
  Y = Y
  Z = Z
  Stations = {a, b, c}
  Reach <- StarReach
  Adus = {X, Y, Z}
  AduLen <- Lengths
  FragmentSize = 2
  SingleMax = 1
  MaxFragments = 2
  MaxAdu = 3
  Hole = Hole
  Clockless = {}
  Interruptible = {}
  Restarting = {}
  MaxSends <- TwoOne
  MaxDeliveries = 4
  MaxRestarts = 0
INVARIANT
  AllArrivedMeansReceived
CHECK_DEADLOCK FALSE

SPECIFICATION FairSpec
CONSTANTS
  Programs <- Known
  Interval = 3
  Duration = 2
  MaxRetries = 2
  MaxTimers = 2
  Airtime = 1
  BeaconAir = 1
  Burst = 1
  MaxBatch = 1
  MaxQueue = 1
  Heard <- MCHeard
  Forever = Forever
INVARIANTS
  TypeOK
  BeaconInTime
  TimersInTime
  GivenUpAfterAllRetries
PROPERTIES
  StopsOnSignal
  SendEnds
CHECK_DEADLOCK FALSE

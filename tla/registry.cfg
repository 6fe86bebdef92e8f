SPECIFICATION FairSpec
CONSTANTS
  p1 = p1
  w1 = w1
  Procs = {p1}
  Id <- OneProc
  Target = w1
  Interval = 3
  Threshold = 3
  Unit = 1
  Delay = 1
  ConnectLimit = 1
  CallLimit = 2
  MaxTries = 3
  StopTimeout = 3
  MaxDown = 1
  MaxLost = 1
CHECK_DEADLOCK FALSE
INVARIANTS
    RegistryInv
    LiveNotStale
PROPERTIES
    LeftIsReported

SPECIFICATION PartsSpec
CONSTANTS
    N = 3
    Final <- GitAroundS3
    OnFinalError = "fail"
    StopTimeout = 2
    Extra = 3
    Lag = 1
    MayEscape = FALSE
CHECK_DEADLOCK FALSE
INVARIANTS
    ProcessesInv
    NothingLeft
    FinalPassKept
PROPERTIES
    WaitsEnd
    UnconfirmedEnds

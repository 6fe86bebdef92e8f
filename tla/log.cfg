SPECIFICATION FairSpec
CONSTANTS
    Streams = {stdout, stderr}
    MaxLines = 3
    QueueSize = 1
    BatchSize = 2
    Removable = TRUE
CHECK_DEADLOCK FALSE
INVARIANTS
    LogInv
    FollowerComplete
    PrintedAsWritten
PROPERTIES
    OutputEnds
    OutputAccepted

SPECIFICATION FairSpec
CONSTANTS
    Channels = {ch0, ch1, ch2}
    Initial = {ch0}
    Callers = {c1, c2}
    Reuse = FALSE
    AddSize = 1
    RemoveSize = 1
    QueueSize = 1
    MaxBacklog = 2
    Faults = {"permanent", "timeout"}
    None = None
CHECK_DEADLOCK FALSE
INVARIANTS
    NotifierInv
PROPERTIES
    AddEnds
    CloseEnds

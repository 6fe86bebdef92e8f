SPECIFICATION FairSpec
CONSTANTS
    Tasks = {t1}
    Workers = {w1}
    Clients = {c1}
    None = None
    Faults = {"listener"}
    MaxStamp = 1
CHECK_DEADLOCK FALSE
PROPERTY
    PendingClaimed

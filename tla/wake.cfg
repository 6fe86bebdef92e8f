SPECIFICATION FairSpec
CONSTANTS
    Tasks = {t1}
    Workers = {w1, w2}
    Clients = {c1}
    None = None
    Faults = {}
    MaxStamp = 3
CHECK_DEADLOCK FALSE
PROPERTY
    PendingClaimed

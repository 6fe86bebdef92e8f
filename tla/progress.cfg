SPECIFICATION FairSpec
CONSTANTS
    Tasks = {t1}
    Workers = {w1, w2}
    None = None
    dir = dir
    Dirs <- MCDirs
    WorkdirOf <- MCWorkdirOf
    Accepts <- MCAccepts
    Once = {w1}
    ExitIfIdle <- MCNone
    RemovesDir <- MCAll
    MaxStamp = 2
CHECK_DEADLOCK FALSE
PROPERTIES
    StopTerminates
    RequestObeyed
    RecoveryEnds

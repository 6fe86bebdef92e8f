SPECIFICATION Spec
CONSTANTS
    Tasks = {t1}
    Workers = {w1, w2}
    None = None
    dir = dir
    Dirs <- MCDirs
    WorkdirOf <- MCWorkdirOf
    Accepts <- MCAccepts
    Once <- MCNone
    ExitIfIdle <- MCAll
    RemovesDir <- MCAll
    MaxStamp = 4
SYMMETRY Symmetry
CONSTRAINT OneStopFirstCancel
CHECK_DEADLOCK FALSE
INVARIANTS
    IInv
    AtMostOnce
    ResultDurable
    DiscardedIsObsolete
    PayloadOwnsDir
    FilesKeptUntilJournaled
PROPERTIES
    QueueSpec

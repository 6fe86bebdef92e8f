SPECIFICATION FairSpec
CONSTANTS
    t1 = t1
    t2 = t2
    Tasks = {t1, t2}
    Commands <- AllCommands
    Ends = {"deadline"}
    MaxBorn = 1
    MaxFaults = 1
    None = None
CHECK_DEADLOCK FALSE
INVARIANTS
    WaitInv
    SuccessIsReal
PROPERTIES
    WaitEnds

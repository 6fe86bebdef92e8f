SPECIFICATION Spec
CONSTANTS
    Tasks = {t1, t2}
    Workers = {w1}
    Clients = {c1, c2}
    None = None
    Faults = {"listener", "command"}
    MaxStamp = 3
SYMMETRY Symmetry
CONSTRAINT OneTaskOrClient
CHECK_DEADLOCK FALSE
INVARIANTS
    ControlInv
    CancelledWasRequested

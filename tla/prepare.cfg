SPECIFICATION PartsSpec
CONSTANTS
    e1 = e1
    e2 = e2
    e3 = e3
    t1 = t1
    t2 = t2
    r1 = r1
    Nobody = Nobody
    Enqueues = {e1, e2, e3}
    Tasks = {t1, t2}
    Refs = {r1}
    TaskOf <- TwoRows
    RefOf <- OneRef
    With <- Wrappers
    Texts <- MCTexts
    MaxForeign = 2
    MaxFaults = 2
CHECK_DEADLOCK FALSE
INVARIANTS
    PrepareInv
    OwnSnapshot
    LayersRespected
PROPERTIES
    EnqueuesEnd

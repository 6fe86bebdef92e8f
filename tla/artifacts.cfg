SPECIFICATION ArtifactsSpec
CONSTANTS
    Syncs = {"plain", "skips", "refuses"}
    Fetches = {"folded", "nested"}
    Watched = {"skips"}
    Settings <- MCSettings
    f1 = f1
    f2 = f2
    u1 = u1
    u2 = u2
    g1 = g1
    g2 = g2
    p1 = p1
    p2 = p2
    NoFile = NoFile
CHECK_DEADLOCK FALSE
INVARIANTS
    ArtifactsInv
    SuccessIsComplete
PROPERTIES
    NothingOverwritten
    UploadsProgress

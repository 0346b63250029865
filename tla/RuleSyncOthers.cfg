CONSTANTS
    Width = 3
    MinSlot = 1
    ChainBase = 3
    r1 = r1
    r2 = r2
    A1 = A1
    A2 = A2
    B1 = B1
    X1 = X1
    Tcr = {A1, A2, X1}
    StaticTcr = S
    NoTcr = NoTcr
    Decoded <- SomeUnlike
    Route = {r1}
    Target = {}
    Pointer = {}
    Wants <- OneRouteWants
    WithStatic = TRUE
    MaxOps = 1
    MaxExt = 1
    MaxLost = 1
    MaxScans = 1
SPECIFICATION FairSpec
INVARIANTS
    RefsCovered
    QueuedOnce
    OKMeansInstalled
PROPERTY ComesToRest
CHECK_DEADLOCK FALSE

CONSTANTS
    Width = 4
    MinSlot = 1
    ChainBase = 4
    r1 = r1
    r2 = r2
    A1 = A1
    A2 = A2
    B1 = B1
    X1 = X1
    Tcr = {A1, A2, B1}
    StaticTcr = S
    NoTcr = NoTcr
    Decoded <- AsWritten
    Route = {r1, r2}
    Target = {}
    Pointer = {}
    Wants <- RoutesWant
    WithStatic = FALSE
    MaxOps = 2
    MaxExt = 0
    MaxLost = 0
    MaxScans = 1
SPECIFICATION Spec
INVARIANTS
    TypeOK
    RefsCovered
    QueuedOnce
    Coherent
    OKMeansInstalled
    LostAndFound
PROPERTY
    OKStays
CHECK_DEADLOCK FALSE

CONSTANTS
    Width = 3
    MinSlot = 1
    ChainBase = 3
    r1 = r1
    r2 = r2
    A1 = A1
    A2 = A2
    B1 = B1
    X1 = X1
    Tcr = {A1, A2}
    StaticTcr = S
    NoTcr = NoTcr
    Decoded <- AsWritten
    Route = {r1}
    Target = {}
    Pointer = {}
    Wants <- OneRouteWants
    WithStatic = TRUE
    MaxOps = 2
    MaxExt = 0
    MaxLost = 0
    MaxScans = 0
SPECIFICATION Spec
PROPERTY StaticStays
CHECK_DEADLOCK FALSE

CONSTANTS
    Width = 8
    MinSlot = 1
    ChainBase = 5
    d1 = d1
    d2 = d2
    v1 = v1
    v2 = v2
    g1 = g1
    g2 = g2
    m1 = m1
    m2 = m2
    Tcr <- GraphTcr
    StaticTcr = S
    NoTcr = NoTcr
    Decoded <- AsWritten
    Route = {d1, d2}
    Target = {n1, n2, n3, n4}
    Pointer = {v1, v2}
    Wants <- GraphWants
    WithStatic = FALSE
    MaxOps = 0
    MaxExt = 0
    MaxLost = 0
    MaxScans = 1
    Gateway = {g1, g2}
    Info = {vlan}
    NoVlan = NoVlan
    Lladdr = {m1, m2}
    Zero = Zero
    None = None
    Via <- RoutesVia
    Boot <- BusyWorlds
    MaxEvents = 2
SPECIFICATION GraphSpec
INVARIANTS
    GraphTypeOK
    RefsCovered
    CountsMatch
    RuleHoldsTarget
    RulesFresh
    RoutesRequested
    GraphCoherent
    ServedAtRest
PROPERTY StaysServed
CHECK_DEADLOCK FALSE

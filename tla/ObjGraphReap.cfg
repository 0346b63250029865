CONSTANTS
    Width = 7
    MinSlot = 1
    ChainBase = 4
    d1 = d1
    d2 = d2
    v1 = v1
    v2 = v2
    g1 = g1
    g2 = g2
    m1 = m1
    m2 = m2
    Tcr <- GraphTcr
    StaticTcr = S
    NoTcr = NoTcr
    Decoded <- AsWritten
    Route = {d1}
    Target = {n1, n2, n3}
    Pointer = {v1}
    Wants <- GraphWants
    WithStatic = FALSE
    MaxOps = 0
    MaxExt = 0
    MaxLost = 0
    MaxScans = 0
    Gateway = {g1, g2}
    Info = {vlan}
    NoVlan = NoVlan
    Lladdr = {m1, m2}
    Zero = Zero
    None = None
    Via <- OneVia
    Boot <- Worlds
    MaxEvents = 1
SPECIFICATION GraphSpec
INVARIANT TargetUnused
CHECK_DEADLOCK FALSE

CONSTANTS
    Text <- Texts
    File <- Files
    NoFile = NoFile
    ListName = {"onload", "other"}
    Catalogue <- Others
    Forward <- Forwards
    Dest <- Dests
    Width = 16
    TrapBase = 10
    RouteBase = 11
    ChainBase = 5
    MaxOptions = 4
SPECIFICATION Spec
INVARIANTS
    StartupTypeOK
    TrapsInOrder
    TrapsFirst
    NothingOverlooked
PROPERTY OwnIsRecognized
CHECK_DEADLOCK FALSE

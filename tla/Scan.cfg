CONSTANTS
    Chain = {0, 4}
    OneOff = {FALSE, TRUE}
    Timeout = TRUE
    MaxRounds = 1
    MaxFails = 2
    MaxRules = 1
    MaxChanges = 1
SPECIFICATION FairSpec
INVARIANTS
    TypeOK
    OneTurn
    WalksInBounds
    RoundInOrder
    OneOffWaits
PROPERTIES
    EveryRoundEnds
CHECK_DEADLOCK FALSE

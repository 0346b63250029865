CONSTANTS
    Item = {i1, i2, i3, i4}
    NoItem = NoItem
    MaxParts = 2
SPECIFICATION FairSpec
INVARIANTS
    TypeOK
    QueueAsserts
    NoUseAfterFree
    ReplyOwed
    OwnReply
PROPERTIES
    RefinesSerialQueue
    EveryItemCompletes
CHECK_DEADLOCK FALSE

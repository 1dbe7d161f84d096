SPECIFICATION FairSpec
CONSTANTS
    BROADCAST_CAPACITY = 2
    SocketRoom = 1
    Setups <- PageSetups
INVARIANTS
    TypeOK
    NothingInTheGap
PROPERTIES
    UnsavedKept
    EventuallyShown
CHECK_DEADLOCK FALSE

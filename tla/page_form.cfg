SPECIFICATION Spec
CONSTANTS
    BROADCAST_CAPACITY = 2
    SocketRoom = 1
    Setups <- FormSetups
PROPERTY UnsavedKept
CHECK_DEADLOCK FALSE

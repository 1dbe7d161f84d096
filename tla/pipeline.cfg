SPECIFICATION FairSpec
CONSTANTS
    MaxEntries = 2
    Setups <- PipelineSetups
INVARIANTS
    TypeOK
    Accounted
    InOrder
    Stamped
    StoreKeepsNewest
PROPERTY EventuallyDelivered
CHECK_DEADLOCK FALSE

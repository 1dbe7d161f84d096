SPECIFICATION FairSpec
CONSTANTS
    b1 = b1
    b2 = b2
    b3 = b3
    Build = {b1, b2, b3}
    None = None
    Torn = Torn
    Rejects = {b3}
    Legacy = {}
    Unlisted = {}
    Dist = {b1, b3}
    Setups <- ChannelSetups
INVARIANTS
    TypeOK
    PathLoads
    Recoverable
    DownOnlyMidSwap
PROPERTIES
    BackupDiffers
    InstallsWhatWasChecked
    UnattendedOnlyOfficial
    EventuallyCurrent
CHECK_DEADLOCK FALSE

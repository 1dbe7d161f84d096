SPECIFICATION Spec
CONSTANTS
    Client = {p1, p2}
    Sync = Sync
    None = None
    Torn = Torn
    c1 = c1
    c2 = c2
    a1 = a1
    a2 = a2
    Content = {c1, c2}
    Bind = {a1, a2}
    Thread = {t1, t2}
    Version = {1, 3}
    Start <- One
    Setups <- DisconnectSetups
INVARIANT ListensWhereDiskSays
CHECK_DEADLOCK FALSE

CONSTANTS
    a = a
    b = b
    c1 = c1
    c2 = c2
    None = None
    Calls <- TwoCalls
    Clients <- OneClient
    Ids = {1, 2}
    LastConn = 2
    MaxReloads = 1
    MaxConcurrent <- OneThenUnlimited
SPECIFICATION OrderedSpec
INVARIANTS TypeOK NoLostWakeup
PROPERTIES ImplementsAtMostOnce EveryCallEnds
CHECK_DEADLOCK FALSE

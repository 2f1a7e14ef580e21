CONSTANTS
    a = a
    b = b
    c1 = c1
    c2 = c2
    None = None
    Calls <- TwoCalls
    Clients <- TwoClients
    Ids = {1}
    LastConn = 2
    MaxReloads = 1
    MaxConcurrent <- OneThenUnlimited
SPECIFICATION Spec
PROPERTY SilencedByItsClient
CHECK_DEADLOCK FALSE

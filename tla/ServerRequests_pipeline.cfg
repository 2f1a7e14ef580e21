CONSTANTS
    n1 = n1
    c1 = c1
    c2 = c2
    NoConn = NoConn
    Names <- OneName
    Conns <- TwoConns
    NameOf <- Successive
    Ids = {1}
    SubBuf = 1
SPECIFICATION Spec
INVARIANTS TypeOK AtMostOneResponse DeadlineCovers NoStaleParked NoSplitDelivery
PROPERTIES OwedReachesAsker RefinesRequestReply
CHECK_DEADLOCK FALSE

CONSTANTS
    c1 = c1
    c2 = c2
    p1 = p1
    p2 = p2
    Nobody = Nobody
    Conns <- OneConn
    Runners <- TwoRunners
    MaxVersion = 2
SPECIFICATION Safety
INVARIANT QuietMeansFresh
CHECK_DEADLOCK FALSE

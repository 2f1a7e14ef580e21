CONSTANTS
    n1 = n1
    c1 = c1
    c2 = c2
    NoConn = NoConn
    Names <- OneName
    Conns <- TwoConns
    NameOf <- Successive
    Ids = {1}
    SubBuf = 1
SPECIFICATION Safety
INVARIANT OnlyTheAskerIsAnswered

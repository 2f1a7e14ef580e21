CONSTANTS
    c1 = c1
    c2 = c2
    p1 = p1
    p2 = p2
    Nobody = Nobody
    Conns <- TwoConns
    Runners <- TwoRunners
    MaxVersion = 1
SPECIFICATION OrderedSpec
INVARIANTS TypeOK SingleFlight NoSilentChange
PROPERTIES NeverOlder WritesAreCurrent HeardGetsListed
CHECK_DEADLOCK FALSE

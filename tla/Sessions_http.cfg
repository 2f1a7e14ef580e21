CONSTANTS
    s1 = s1
    s2 = s2
    t1 = t1
    t2 = t2
    p1 = p1
    p2 = p2
    r1 = r1
    r2 = r2
    Nobody = Nobody
    GivenUp = GivenUp
    Ids <- TwoIds
    Streams <- TwoStreams
    Posts <- OnePost
    Requests <- OneRequest
    MaxSessions = 2
    MaxStreams = 1
    StreamBuffer = 1
SPECIFICATION OrderedSpec
INVARIANTS TypeOK NoneStranded
PROPERTIES NoResurrection ImplementsUnicast SettledOrAwaited
CHECK_DEADLOCK FALSE

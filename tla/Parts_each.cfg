CONSTANTS
    Names <- Pair
    Order <- ListedOrder
    Configs <- ChangeThenSwap
    MaxAttempts = 1
    MaxChildren = 4
    Callers = {"a"}
    CallKinds = {"tool", "list"}
    MaxSessions = 2
    MaxFailures = 1
    MaxEvents = 2
    OffersStream = TRUE
    MaxSaves = 3
    MaxSignals = 1
    MaxRetries = 2
    Tools = {"x", "y"}
    Uris = {101, 102}
    Facing <- TwoFilters
    Listed <- OneShared
    Matched <- OneShape
    PageSize = 1
    Keys = {"a"}
    CallRecord = "call"
    Threads = {"t"}
    Wanted = {"a"}
    LastOnly = 1
    MaxNotes = 3
    MaxTruncations = 1
    ClientFrames <- Frames
    MaxFrames = 2
    MaxPushes = 1
    NotifBuf = 1
SPECIFICATION PartsSpec
INVARIANTS Typed ConnectionIsFaithful ChildrenAreAccounted CatalogIsHonest
    JournalIsFaithful HandshakeFirst
PROPERTIES CloseReturns EditIsJudged Serves
CHECK_DEADLOCK FALSE

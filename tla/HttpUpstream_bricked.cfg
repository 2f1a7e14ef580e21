CONSTANTS
    a = a
    Callers <- OneCaller
    Kinds <- ToolsAndLists
    MaxSessions = 3
    MaxFailures = 0
    MaxEvents = 0
    OffersStream = TRUE
SPECIFICATION Spec
PROPERTIES LostSessionIsReplaced
CHECK_DEADLOCK FALSE

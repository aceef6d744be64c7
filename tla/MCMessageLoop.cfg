SPECIFICATION MCSpec
CONSTANTS
    Handles = {3, 4, 5, 6}
    RouteDoublings = 2
    SynCapacity = 2
    WatchCapacity = 1
    MaxDepth = 2
    MaxCreates = 2
    MaxSdl = 2
    PostedCapacity = 2
    TranslatedCapacity = 1
    MaxCalls = 4
    MaxEvents = 3
    MaxSignals = 1
    EventCalls = 2
    ShutdownCalls = 4
    PostCalls = 4
INVARIANTS PostsKept MessagesTaken
PROPERTY ShutdownCloses
CHECK_DEADLOCK FALSE

SPECIFICATION MCSpec
CHECK_DEADLOCK FALSE
CONSTANTS
    t1 = t1
    t2 = t2
    t3 = t3
    Halves = {"objects"}
    Callers <- OneThread
    Kinds = {"event"}
    GuestHandles <- AnyHandle
    HANDLE_TABLE_SIZE = 5
    MAX_REF = 2
    MAX_EVENTS = 2
    MAX_MUTEXES = 1
    MAX_SEMAPHORES = 1
    SectionThreads <- ThreeThreads
    EventSlots = 2
    MaxDepth = 2
INVARIANT StartsAsRequested

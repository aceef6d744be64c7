SPECIFICATION MCSectionSpec
CHECK_DEADLOCK FALSE
CONSTANTS
    t1 = t1
    t2 = t2
    t3 = t3
    Halves = {"section"}
    Callers <- OneThread
    Kinds = {"event", "mutex", "semaphore"}
    GuestHandles <- AnyHandle
    HANDLE_TABLE_SIZE = 5
    MAX_REF = 2
    MAX_EVENTS = 2
    MAX_MUTEXES = 1
    MAX_SEMAPHORES = 1
    SectionThreads <- TwoThreads
    EventSlots = 1
    MaxDepth = 1
PROPERTY NoLostWakeup

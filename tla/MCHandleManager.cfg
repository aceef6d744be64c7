SPECIFICATION MCFairSpec
CHECK_DEADLOCK FALSE
CONSTANTS
    t1 = t1
    t2 = t2
    Threads <- MCThreads
    Types <- MCTypes
    Objects <- MCObjects
    Inputs <- MCInputs
    HANDLE_TABLE_SIZE = 5
    MAX_REF = 2
    Delays <- WholeUs
    MAX_SLEEP_US = 3
    Interrupts = TRUE
INVARIANTS
    RefCountExact SlicesAddUp
PROPERTIES
    AllocFresh AtomicCalls LockProgress UncutWaitReturns

SPECIFICATION MCSpec
CONSTANTS
    Pages = 7
    PAGE = 1024
    MMAP_THRESHOLD = 1200
    MaxRequest = 20000
    MAX_HEAP_HANDLES = 2
    Requests = {24, 2000, 6000}
    Resizes = {24, 2000, 9000}
    Alignments = {64}
    MaxHeapOps = 5
    MaxRareOps = 2
    VmPages = 4
    VmSizes = {1, 2}
    SectionSizes = {1, 2}
    MAX_VM_ALLOCS = 3
    MAX_SECTIONS = 2
    SectionHandles = {3}
    Descriptors = {3, 4}
    Contents = {"f", "g"}
    Careful = TRUE
    MaxVmOps = 5
    Names = {"a", "b"}
    OtherNames = {"c"}
    Files = {1, 2, 3}
    FileHandles = {3, 4}
    MaxFds = 4
    MAX_CREATEFILE = 2
    MAX_REG_VALUES = 2
    Keys <- MCKeys
    MaxSize = 2
    Beyond = 100
    CarefulFiles = TRUE
    MaxFileOps = 4
    PathNames <- MCPathNames
    Lower <- MCLower
    Extended <- MCExtended
    Trees <- MCTrees
    Orders <- MCOrders
    PePaths <- MCPePaths
    HostCwd <- MCHostCwd
    GuestPathsAsked <- MCAsked
    Lists <- MCLists
    Patterns <- MCPatterns
    Texts <- MCTexts
    MaxPathOps = 2
    t1 = t1
    t2 = t2
    t3 = t3
    Callers <- OneThread
    Kinds = {"event", "mutex"}
    GuestHandles <- AnyHandle
    HANDLE_TABLE_SIZE = 5
    MAX_REF = 1
    MAX_EVENTS = 2
    MAX_MUTEXES = 1
    MAX_SEMAPHORES = 1
    SectionThreads <- ThreeThreads
    EventSlots = 2
    MaxDepth = 2
INVARIANTS
    HeapIntact ContentsKept RegionsKept HandlesKeepMeaning PathsResolve
    AllOrNothing OwnEntryUnlessRecycled OneThreadInside RecursionExact
CHECK_DEADLOCK FALSE

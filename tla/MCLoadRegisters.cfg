SPECIFICATION MCSpec
CHECK_DEADLOCK FALSE
CONSTANTS
    Halves = {"dispatch"}
    Dlls <- MCDlls
    Graphs <- MCGraphs
    MAX_MODULES = 4
    MAX_IMPORT_DEPTH = 4
    LastBase = 5
    MaxHeld = 2
    Files <- MCFiles
    Callers <- MCCallers
    Half = 8
    PageUnits = 2
    PE32_DEFAULT_IMAGE_BASE = 8
    AnyBase = {40}
    Images <- MCImages
    Tables <- MCTables
    Dynamic <- MCDynamic
    Exports <- MCExports
    OrdinalTable <- MCOrdinals
    LowerCase <- MCLower
    MaxName = 4
    HighBit = 100
    FirstAddress = 200
    MAX_EXPORT_NAMES = 2
    MAX_EXPORT_FUNCTIONS = 2
    MAX_THUNK_TARGETS = 3
    MAX_FLAT_IMPORTS = 3
    FileSystems <- MCFileSystems
    MainPaths <- MCMainPaths
    WinePaths <- MCWinePaths
    Requests <- MCRequests
    Loaders = {"t1"}
    UpperOf <- MCUpper
    DLL_PATH_MAX_SEGMENTS = 2
    MaxLoads = 2
    Programs <- MCPrograms
    CrtImages <- MCCrtImages
    ReadAs <- MCReadAs
    Within <- MCWithin
    AddressSpace = 1024
    Archs = {"x86_64", "i386"}
    Syscalls <- MCSyscalls
    Pointers = {0, 8, 12, 10}
    Results = {0}
    GuestLimit = 9000
    MaxCalls = 1
INVARIANT CalleeSavedKept

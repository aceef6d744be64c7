SPECIFICATION MCSpec
CONSTANTS
    Handles = {3, 4, 5, 6, 7, 8, 9, 10, 11, 12}
    SynCapacity = 2
    MaxSdl = 3
    RouteDoublings = 3
    WatchCapacity = 1
    MaxDepth = 3
    MaxCreates = 2
    MaxModals = 2
    DialogHandles = {1}
    ListIds = {1}
    SpinIds = {2}
    Texts = {"a", "b"}
    MaxItems = 2
    MaxRows = 2
    MaxSerial = 3
INVARIANTS WindowsInStep ControlsConsistent
PROPERTIES DiesAfterNcDestroy BoxClosesDialog
CHECK_DEADLOCK FALSE

SPECIFICATION MCSpec
CONSTANTS
    DSObjects = {1, 2}
    SoundBuffers = {1, 2}
    Rates = {1, 2}
    Levels = {1}
    Frames = 2
    FP = 2
    OutFrames = 2
    MaxOps = 3
    Buffers <- MCBuffers
    Volumes = {2}
    StreamSlots = {1}
    MaxEvents = 2
    MaxCalls = 2
    Slots = {1, 2, 3, 4}
    Pixels = {1, 2, 3}
    LowPixels = {1, 2}
    Surfwnds = {1, 2}
    Ink = {1}
    DDs = {1}
    Surfaces = {1, 2, 3}
    Palettes = {1, 2}
    Clippers = {1}
    GuestWnd = 1
    Widths = {1}
    FullPalette = 2
    MaxDraw = 7
    ObjectCalls = 5
INVARIANTS SoundConsistent EventsHandedOver SurfacesConsistent NothingShared
PROPERTIES PlaybackEnds WorkerAnswers FlipShows
CHECK_DEADLOCK FALSE

SPECIFICATION Spec
CONSTANTS
    Bins = {0}
    Hangover = 2
    MaxFrames = 4
    BlockSizes = {0, 1, 3, 4}
    MaxClock = 8
INVARIANTS
    EmissionsAreBursts
    BasebandIsWhole
    BufferBound
PROPERTIES
    NothingIsReturnedTwice
    KeepsPromise
CHECK_DEADLOCK FALSE

SPECIFICATION Spec
CONSTANTS
    NumBins = 4
    DcGuard = 1
    EdgeGuard = 0
    Hangover = 1
    MaxFrames = 9
    BlockSizes = {1, 2}
    MaxClock = 4
    MinFrames = 2
    MinOccupancy = 60
    NumSinks = 2
INVARIANTS
    EachKeptInOneReport
    GoodSinksHoldReports
    RecordingIsExhausted
CHECK_DEADLOCK FALSE

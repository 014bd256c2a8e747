SPECIFICATION FairSpec
CONSTANTS
    NumBins = 4
    DcGuard = 2
    EdgeGuard = 0
    Hangover = 1
    MaxFrames = 3
    BlockSizes = {1, 2}
    MaxClock = 8
    MinFrames = 2
    MinOccupancy = 60
    NumSinks = 1
PROPERTIES
    OverIsReported
CHECK_DEADLOCK FALSE

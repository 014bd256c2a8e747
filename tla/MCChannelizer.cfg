SPECIFICATION Spec
CONSTANTS
    D = 2
    P = 2
    K = 3
    FoldChunk = 2
    BlockSizes = {0, 1, 3, 8, 17}
    MaxSamples = 60
INVARIANTS
    BlockInvariance
    FramesMatchDefinition
CHECK_DEADLOCK FALSE

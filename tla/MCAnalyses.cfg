SPECIFICATION Spec
CONSTANTS
    ProductTolerance = 2
    LevelMargin = 10
    FrequencyTolerance = 3
    ToneTolerance = 1
    Hour = 4
    MatchTolerance = 1
    ExclusionFactor = 4
    Spacing = 4
    ChannelCount = 3
    ChannelTolerance = 1
    LnaStep = 8
    LnaMax = 40
    VgaStep = 2
    VgaMax = 62
    Pad = 10
    SlopeParts = 4
    OffsetParts = 2
    RangeStep = 5
    Smoothing = 3
    Below = 10
    Occupied = 11
    Slack = 2
    NotchDepth = 3
    NotchWidth = 4
    TuningAway = 5
    Span = 7
    Search = 4
    Contrast = 8
    VoteRatio = 60
    MinWindows = 2
    Archives <- MCArchives
    Scenes <- MCTimedScenes
    Blocks <- MCBlocks
    Tunings <- MCTunings
    Chains <- MCChains
    SweepSeqs <- MCSweepSeqs
    Recordings <- MCRecordings
    References <- MCReferences
    Windows <- MCWindows
    CallSeqs <- MCCallSeqs
    Captures <- MCCaptures
INVARIANTS
    OrderOfBattleAddsUp
    ScoreIsFair
    DetectorIsLocal
    ReceiverIsSound
    ErrorsAreFound
    TonesAreVoted
    RegisterIsHistory
    RecordingsAreReadWhole
CHECK_DEADLOCK FALSE

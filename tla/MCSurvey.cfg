SPECIFICATION FairSpec
CONSTANTS
    Points = 2
    GiveUpAfter = 2
    Budget = 4
    MaxNights = 2
INVARIANTS
    SurrenderIsEarned
    StatusTellsOutcome
    ChunkRecordsAgree
PROPERTIES
    MachineGoesOff
CHECK_DEADLOCK FALSE

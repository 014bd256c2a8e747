SPECIFICATION Spec
CONSTANTS
    BatchSizes = {1, 2}
    MaxReports = 4
    MaxCuts = 2
INVARIANTS
    DamageIsBounded
    NothingTwice
    StoredIsKept
    BatchesAreWhole
    RowsFitTheTable
CHECK_DEADLOCK FALSE

SPECIFICATION Spec
CONSTANTS
    BatchSizes = {1, 2}
    MaxReports = 3
    MaxCuts = 2
INVARIANTS
    WrittenIsReadable
CHECK_DEADLOCK FALSE

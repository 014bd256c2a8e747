SPECIFICATION Spec
CONSTANTS
    Emitters = {1}
    StaleS = 3
    Percentiles = {95}
    WithRange = TRUE
    StartDelay = 1
    MaxWire = 3
    MaxTime = 7
INVARIANTS
    MapShowsTheAir
    RingsAreMeasured
    StampErrorIsLogged
CHECK_DEADLOCK FALSE

SPECIFICATION LinkFairSpec
CONSTANTS
    BackoffStart = 1
    BackoffMax = 5
    Timeout = 2
    MaxEvents = 2
INVARIANTS
    NoEarlyRetry
    OutageEndsInTime
PROPERTIES
    ComesBack

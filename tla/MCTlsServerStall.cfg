SPECIFICATION FairSpec
CONSTANTS
    Clients = {c1, c2}
    Nobody = Nobody
    MaxBroadcasts = 2
PROPERTIES
    PublishReturns
CHECK_DEADLOCK FALSE

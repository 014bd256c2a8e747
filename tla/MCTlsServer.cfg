SPECIFICATION FairPeersSpec
CONSTANTS
    Clients = {c1, c2}
    Nobody = Nobody
    MaxBroadcasts = 2
INVARIANTS
    ListedMissNothing
    EveryConnectionIsKept
PROPERTIES
    KeepsFanOut
    PublishReturns
    CloseReturns
    DialIsAnswered
CHECK_DEADLOCK FALSE

SPECIFICATION FairSpec
CONSTANTS
    p1 = p1
    p2 = p2
    Procs <- MCProcs
    Refreshers <- MCNoProcs
    Ids <- MCTwoIds
    CacheSize = 1
    RecentLimit = 2
    MaxTools = 0
    MaxSaves = 3
    AutoSaveEvery = 2
    Faults = FALSE
PROPERTIES
    ImplementsRepository
    CallsReturn
CHECK_DEADLOCK FALSE

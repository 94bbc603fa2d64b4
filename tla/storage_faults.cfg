SPECIFICATION Spec
CONSTANTS
    p1 = p1
    p2 = p2
    Procs <- MCProcs
    Refreshers <- MCProcs
    Ids <- MCTwoIds
    CacheSize = 1
    RecentLimit = 2
    MaxTools = 1
    MaxSaves = 3
    AutoSaveEvery = 1
    Faults = TRUE
SYMMETRY Symmetry
INVARIANTS
    IInv
CHECK_DEADLOCK FALSE

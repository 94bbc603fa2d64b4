SPECIFICATION FairSpec
CONSTANTS
    SaveOps = {s1, s2}
    DeleteOps = {d1}
    UpdateOps = {u1}
    WorkerCount = 1
    QueueSize = 2
    BatchSize = 2
    MaxRetries = 1
    BatchQueueSize = 1
    MaxStarts = 1
INVARIANTS
    OperationsAreKept
PROPERTIES
    EverythingEnds
CHECK_DEADLOCK FALSE

SPECIFICATION Spec
CONSTANTS
    k1 = k1
    k2 = k2
    k3 = k3
    k4 = k4
    r1 = r1
    Root = Root
    Nil = Nil
    Keys = {k1, k2, k3, k4}
    Readers = {r1}
    MaxSize = 3
    i1 = i1
    i2 = i2
    i3 = i3
    Ids = {i1, i2, i3}
    Statuses = {"completed", "error"}
    RecentLimit = 2
    req1 = req1
    req2 = req2
    req3 = req3
    c1 = c1
    c2 = c2
    LoadRequests = {req1, req2, req3}
    LazyIds = {c1, c2}
    Stored = {c1, c2}
    QueueSize = 2
    IdleLimit = 1
    HeapLevels = {0, 80, 90, 96}
    HeapWarning = 90
    MaxAlerts = 2
    MaxSamples = 3
    MaxStarts = 2
    u1 = u1
    Updaters = {u1}
    Profiles = {"secure"}
    Environments = {"testing"}
    FieldUpdates <- MCFields
    FileSettings <- MCFiles
    InitialFiles <- MCInitialFiles
    EnvSettings <- MCEnv
    MaxListeners = 2
    MaxUpdates = 2
    MaxWrites = 1
    NoFile = NoFile
    Unreadable = Unreadable
    mine = mine
    v1 = v1
    v2 = v2
    Builtins = {"debug", "secure"}
    Names = {mine}
    Contents = {v1, v2}
    Paths = {"global", "local"}
    Blank = Blank
    MaxEdits = 3
    MaxSeconds = 1
    Histories <- MCHistories
    Selections <- MCSelections
    MaxArchives = 2
    MaxBackupTime = 4
    None = None
INVARIANTS
    RingIsRecency
    ScreenFollowsStorage
    LimitFollowsPressure
    ChangesArrive
    ProfilesMatchFiles
    OriginalIsKept
    RoundTripKeepsConversations
    BackupSurvives
PROPERTIES
    ShutdownDrains
    SavedLoadsAsSaved
CHECK_DEADLOCK FALSE

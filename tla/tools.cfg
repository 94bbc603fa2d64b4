SPECIFICATION Spec
CONSTANTS
    Texts <- MCTexts
    Edits <- MCEdits
    NoFile = NoFile
    MaxSecond = 2
    MaxCalls = 2
    MaxFaults = 2
    f1 = f1
    f2 = f2
    x = x
    y = y
    Paths = {f1, f2}
    StoredAs <- MCStoredAs
    Contents = {x, y}
    Empty = Empty
    Absent = Absent
    MaxBackups = 1
    RetentionTime = 0
    RenamedTo <- MCRenamedTo
    BatchFiles <- MCBatchFiles
    MaxNow = 2
    MaxMade = 3
    MaxErrors = 1
    Root = root
    Dirs = {d1, d2}
    KernelQueue = 2
    EventBuffer = 1
    MaxMoves = 3
    MaxWanted = 2
    MaxGets = 1
    MaxEntries <- MCMaxEntries
    MaxIds = 3
    MaxLogFaults = 1
    Workspaces <- MCWorkspaces
    Queries <- MCQueries
    Limits = {1, 3}
    MaxDepth = 2
    FileLines = {"a", "b"}
    MaxLines = 5
    LookAhead = 3
    ContextLines = 1
    Entries = {1, 2, 3, 4}
    ParentOf <- MCParentOf
    IsDir = {1, 3}
    Modes <- MCModes
    FirstModes <- MCFirstModes
    MaxChanged = 2
INVARIANTS
    TextIsKept
    BackupsCoverChanges
    WatchesFollowTheTree
    EndedIsNotPending
    SearchesAreRight
    PreviewIsExact
    UnchangedIsReported
SYMMETRY MCSymmetry
CHECK_DEADLOCK FALSE

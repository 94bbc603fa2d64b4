SPECIFICATION Spec
CONSTANTS
    Users = {u1}
    NoUser = NoUser
    MinLevel = "warning"
    BufferSize = 2
    MaxFileSize = 2
    MaxFiles = 1
    MaxEvents = 3
    MaxFaults = 1
    AnalysisInterval = 1
    RetentionPeriod = 0
    AutoMitigation = TRUE
    SearchLimit = 4
    FailureThreshold = 2
    ErrorRate = 1
    Inputs <- MCInputs
    Overloads <- MCOverloads
    Verdicts <- MCVerdicts
    MaxTime = 3
    c1 = c1
    c2 = c2
    u1 = u1
    t1 = t1
    ip1 = ip1
    None = None
    Callers = {c1, c2}
    Enforcers = {c2}
    MaxChanges = 1
    Configs <- MCConfigs
    Requests <- MCRequests
    IdleTime = 1
    MaxClock = 3
    Modes = {"enforcing", "permissive"}
    Askers = {c1, c2}
    Operations <- MCOperations
    Lines = {"", "3", "n"}
    MaxLines = 2
    MaxReaders = 2
    Executors = {c1, c2}
    MaxRuns = 3
    Shells = {c1}
    PipeSize = 1
    MaxOutputSize = 2
    MaxWritten = 4
INVARIANTS
    LogIsKept
    ThreatsAreSeen
    OvershootBounded
    InvalidIsBlocked
    RunsOnItsOwnLine
    RunsAndWatchersEnd
    OutputIsComplete
PROPERTIES
    LimitsAreKept
CHECK_DEADLOCK FALSE

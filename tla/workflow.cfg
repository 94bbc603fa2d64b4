SPECIFICATION FairSpec
CONSTANTS
    c1 = c1
    t1 = t1
    a = a
    b = b
    None = None
    Calls = {a, b}
    HighRisk = {a}
    Conversations = {c1}
    Retriers = {t1}
    CallsOf <- OneConversation
    MaxRetries = 1
    MaxConcurrentOps = 2
    MaxTotalOperations = 5
    MayCancel = TRUE
INVARIANTS
    NoTrackerLeaks
    ResultsAreReturned
PROPERTIES
    RunsEnd
CHECK_DEADLOCK FALSE

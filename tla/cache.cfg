SPECIFICATION CacheSpec
CONSTANTS
    c1 = c1
    c2 = c2
    c3 = c3
    c4 = c4
    t1 = t1
    t2 = t2
    ConvIds <- MCConvIds
    ToolIds <- MCToolIds
    Sizes <- MCSizes
    Limits <- MCLimits
    MaxConversations = 3
    MaxToolExecutions = 1
    MaxAccess = 3
SYMMETRY Symmetry
INVARIANTS
    CacheIsConsistent
PROPERTIES
    EvictionFollowsPolicy

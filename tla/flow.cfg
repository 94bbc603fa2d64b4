SPECIFICATION FairSpec
CONSTANTS
    Inputs = {u1, u2, u3}
    MayUseTools = TRUE
INVARIANTS
    ScreenFollowsMessages
PROPERTIES
    MessagesEnd
CHECK_DEADLOCK FALSE

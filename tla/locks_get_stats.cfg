SPECIFICATION FairSpec
CONSTANTS
    Callers = {1,2}
    Operations = {"Get", "GetStats"}
    MaxEvictions = 2
PROPERTIES CallsReturn
CHECK_DEADLOCK FALSE

SPECIFICATION Spec
CONSTANTS
    Procs = {i1, i2}
    Latest = 2
    MaxRows = 5
INVARIANTS
    IInv
    ReadyAtTarget
    ReadyIsBuilt
CHECK_DEADLOCK FALSE

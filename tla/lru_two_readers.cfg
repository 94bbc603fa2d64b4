SPECIFICATION ListSpec
CONSTANTS
    Root = Root
    Nil = Nil
    Keys = {k1, k2, k3, k4}
    Readers = {r1, r2}
    MaxSize = 3
INVARIANTS RingIntact

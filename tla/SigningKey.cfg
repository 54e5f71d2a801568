CONSTANTS
    Workers = {w1, w2}
    Requests = {r1, r2, r3}
    Keys = {k1, k2, k3}
    NoKey = NoKey
    Empty = Empty
SPECIFICATION Spec
INVARIANTS
    OneKeyPerProcess
    LocalKeyIsShared
PROPERTIES
    WedgedStays
CHECK_DEADLOCK FALSE

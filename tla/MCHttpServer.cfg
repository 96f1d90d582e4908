SPECIFICATION Spec
CONSTANTS
    Conns = {c1, c2, c3}
    NoConn = NoConn
    Endpoints = {e1, e2}
    NoEndpoint = NoEndpoint
    Acceptors = {a1, a2}
    MaxStarts = 3
SYMMETRY Symmetry
INVARIANTS
    HeldOnce
    PoolKeyIsId
    NothingLost
    QueuedIsFinished
CHECK_DEADLOCK FALSE

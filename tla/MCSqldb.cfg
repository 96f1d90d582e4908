SPECIFICATION Spec
CONSTANTS
    Conns = {c1, c2, c3}
    NoConn = NoConn
    Tasks = {t1, t2}
    MaxTransactions = 2
    MaxExecs = 2
SYMMETRY Symmetry
INVARIANTS
    OneOwner
    PooledIsIdle
    CommitKeepsAll
    AllOrNothing
CHECK_DEADLOCK FALSE

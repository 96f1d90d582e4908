SPECIFICATION FairSpec
CONSTANTS
    Conns = {c1}
    NoConn = NoConn
    Tasks = {t1}
    MaxTransactions = 1
    MaxExecs = 1
PROPERTY ConnectTimeoutEnds
CHECK_DEADLOCK FALSE

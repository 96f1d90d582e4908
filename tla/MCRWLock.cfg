SPECIFICATION FairSpec
CONSTANTS
    Threads = {t1, t2, t3}
    Attempts = 2
INVARIANTS
    MutualExclusion
PROPERTIES
    ImplementsRWLock
    TryLockReturns
    FreshReaderAdmitted

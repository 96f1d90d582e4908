SPECIFICATION FairSpec
CONSTANTS
    Publishers = {p1, p2}
    Subscribers = {s1, s2}
    Capacity = 2
    MaxPushes = 5
INVARIANTS
    IndexFollowsLastPop
    AvailableIsPromise
PROPERTIES
    ImplementsLog
    Drained

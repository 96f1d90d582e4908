SPECIFICATION FairSpec
CONSTANTS
    MaxRequests = 2
    MaxSessions = 2
INVARIANTS
    AnsweredInOrder
    CloseIsLast
    OkIsInTime
PROPERTIES
    EachSentIsServed
    StopEndsLoop
CHECK_DEADLOCK FALSE

SPECIFICATION Spec
CONSTANTS
    MaxRequests = 3
    MaxSessions = 1
INVARIANT NoRequestSkipped
CHECK_DEADLOCK FALSE

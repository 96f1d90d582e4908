SPECIFICATION Spec
CONSTANTS
    Rules <- MCRules
    Schemes <- MCSchemes
    Requests <- MCRequests
    MaxRules = 3
    MaxRequests = 2
INVARIANTS
    ParsedIsSent
    CutUrlIsTail
    RouteIsChosen
CHECK_DEADLOCK FALSE

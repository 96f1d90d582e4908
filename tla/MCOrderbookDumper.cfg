SPECIFICATION Spec
CONSTANTS
    Listeners = 2
    MaxFaults = 3
    MaxMessages = 1
INVARIANTS
    ReplayIsLive
PROPERTIES
    ComesBack
CHECK_DEADLOCK FALSE

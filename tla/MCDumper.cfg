SPECIFICATION Spec
CONSTANTS
    FileSize = 16
    SizeMod = 8
    Sizes = {1, 4, 9}
    ControlSize = 1
    MaxRecords = 3
    MaxRuns = 3
INVARIANTS
    HandledIsRecorded
    NothingDropped
    ReplayInOrder
PROPERTIES
    ImplementsLog
CHECK_DEADLOCK FALSE

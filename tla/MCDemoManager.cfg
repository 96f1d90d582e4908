SPECIFICATION Spec
CONSTANTS
    Books <- MCBooks
    Refused <- MCRefused
    Alias <- MCAlias
    Grain = 4
    Workers = {w1, w2}
    Capacity = 2
    HalfColumn = 2
    MaxPosts = 3
    MaxDraws = 1
    MaxRuns = 2
INVARIANTS
    InOrder
    NoSilentLoss
    PreloadedIsNewest
    LoadedIsRounded
    DrawnByPrice
PROPERTIES
    WorkEnds
CHECK_DEADLOCK FALSE

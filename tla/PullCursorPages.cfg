SPECIFICATION FairSpec
CONSTANTS
    Row = {1, 2, 3}
    Limit = 2
    Millisecond = 2
    Kinds = {"split", "given", "default", "resolve"}
    MaxTime = 3
    MaxWrites = 2
INVARIANTS
    TypeOK
    SeenUpToCursor
    StateAgrees
PROPERTIES
    ShortPageIsComplete
    CatchesUp
CHECK_DEADLOCK FALSE

SPECIFICATION FairSpec
CONSTANTS
    Row = {1, 2, 3}
    Limit = 2
    Millisecond = 1
    Kinds = {"split"}
    MaxTime = 3
    MaxWrites = 1
PROPERTIES
    GetsEverything
CHECK_DEADLOCK FALSE

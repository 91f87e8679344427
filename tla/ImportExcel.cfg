CONSTANTS
    Process = {p1, p2}
    Home = p1
    Import = {i1, i2}
    Files <- MCFiles
    Catalogs = {TRUE, FALSE}
    MaxCommits = 1
    MaxFaults = 1
    Nil = Nil
SPECIFICATION FairSpec
INVARIANTS ImportTypeOK AllOrNothing OneOfAName NothingIsSkipped
PROPERTY MaintenanceEnds
CHECK_DEADLOCK FALSE

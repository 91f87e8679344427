CONSTANTS
    Release <- MCRelease
    Client <- MCClient
    Refused <- MCRefused
    MaxEdits = 5
    NaN = NaN
    Nil = Nil
SPECIFICATION FairSpec
PROPERTIES NeverDowngrades InstallsLatest
CHECK_DEADLOCK FALSE

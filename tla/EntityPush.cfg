SPECIFICATION Spec
CONSTANTS
    one = one  two = two  id = id  Null = Null  Default = Default
    Sessions <- MCSessions
    MaxAttempts = 2
    MaxRedelivered = 1
INVARIANTS
    PushTypeOK
    ServedAsPushed
    OrderedJobIsAccepted
    OrphansArePending
PROPERTIES
    InOrderIsStored
CHECK_DEADLOCK FALSE

CONSTANTS
    q1 = q1  q2 = q2  q3 = q3
    u1 = u1  d1 = d1  b1 = b1
    Nil = Nil
    Request = {q1, q2, q3}
    UserId <- MCUserId
    DeviceId <- MCDeviceId
    Branch = {b1}
    Name = {"ana", "eva"}
    Password = {"old", "new", "file"}
    Address = {"m1", "m2"}
    Plans <- MCPlans
    Worlds <- MCWorlds
    MaxPushes = 1
SPECIFICATION FairSpec
INVARIANTS AuthTypeOK OneDevicePerMac ResetSticks AnsweredMaySync
PROPERTY ProvisionEnds
CHECK_DEADLOCK FALSE

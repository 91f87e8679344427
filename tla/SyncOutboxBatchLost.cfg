SPECIFICATION BatchSpec
CONSTANTS
    c1 = c1  c2 = c2  h1 = h1  h2 = h2  h3 = h3  p1 = p1  b1 = b1  b2 = b2
    r1 = r1  r2 = r2  s1 = s1  w1 = w1  w2 = w2  Nil = Nil
    Chunk = {c1, c2}
    Payload = {h1, h2, h3}
    Record = {r1, r2}
    Request = {}
    Worker = {w1, w2}
    Workload <- MCNone
    Touches <- MCTouches
    BaseVersion <- MCBase
    InitVersion <- MCInit
    Blind = {h3}
    MaxAttempts = 2
    MaxStalled = 1
    KeepCompleted = 0
    FaultKinds = {"crash"}
    MaxFaults = 1
    BatchRequest = {b1}
    BatchOf <- MCBatch
    Session = {s1}
    SessionOf <- MCSession
INVARIANTS
    JobDoneIsApplied
CHECK_DEADLOCK FALSE

SPECIFICATION Spec
CONSTANTS
    c1 = c1  c2 = c2  h1 = h1  h2 = h2  h3 = h3  p1 = p1  p2 = p2
    r1 = r1  r2 = r2  r3 = r3  w1 = w1  w2 = w2  Nil = Nil
    Chunk = {c1, c2}
    Payload = {h1, h2, h3}
    Record = {r1, r2, r3}
    Request = {p1, p2}
    Worker = {w1, w2}
    Workload <- MCPush
    Touches <- MCTouches
    BaseVersion <- MCBase
    InitVersion <- MCInit
    Blind = {h3}
    MaxAttempts = 2
    MaxStalled = 1
    KeepCompleted = 1
    FaultKinds = {"crash", "stall", "outbox", "request"}
    MaxFaults = 1
SYMMETRY WorkerSymmetry
INVARIANTS
    TypeOK
    CompletedImpliesApplied
    ToldIsDurable
    AcceptedAtMostOnce
PROPERTIES
    PromiseSpec
CHECK_DEADLOCK FALSE

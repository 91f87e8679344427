SPECIFICATION FairSpec
CONSTANTS
    a = a  b = b  d = d  q1 = q1  q2 = q2  r1 = r1  r2 = r2  Nil = Nil  Seed = Seed
    Record = {r1, r2}
    Stored = {r1}
    Client = {a, b, d}
    RecordsOf <- MCRecordsOf
    Author <- MCAuthor
    Deletes = {a}
    Resolver = {q1, q2}
    Writes = {q1, q2}
    Expects = {q2}
    MaxAttempts = 2
INVARIANTS
    TypeOK
    IndexNeverFires
    LogIsChain
PROPERTIES
    AcceptedSawCurrent
    ResolvesWhatIsOpen
    RequestsEnd
CHECK_DEADLOCK FALSE

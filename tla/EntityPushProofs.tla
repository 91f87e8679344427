-------------------------- MODULE EntityPushProofs --------------------------
(***************************************************************************)
(* Theorems of EntityPush, for every set of sessions and any order of the      *)
(* workers: the tables stay as the schema admits them; a job whose references  *)
(* are stored, or come first in it, is accepted; the tables serve what was     *)
(* pushed last; and an orphan is explained by a job that is not stored.        *)
(***************************************************************************)
EXTENDS EntityPush, WellFoundedInduction, TLAPS

-----------------------------------------------------------------------------
(* The transaction of a job is a run through its chunks *)

\* What is true of 0, and of a number after each one it is true of, is true of all.
LEMMA LeastOf ==
    ASSUME NEW T \in SUBSET Nat, T # {}
    PROVE  \E k \in T : \A j \in T : k <= j
<1>1. PICK k \in T : \A j \in T : ~(<<j, k>> \in OpToRel(<, Nat))
  BY NatLessThanWellFounded, WFMin
<1>2. \A j \in T : ~(j < k)
  BY <1>1 DEF OpToRel
<1> QED BY <1>2

LEMMA ReachesAll ==
    ASSUME NEW n \in Nat, NEW T, 0 \in T, \A m \in 0 .. n : m # 0 /\ m - 1 \in T => m \in T
    PROVE  \A m \in 0 .. n : m \in T
<1> DEFINE Bad == {m \in 0 .. n : m \notin T}
<1> SUFFICES ASSUME Bad # {} PROVE FALSE
  OBVIOUS
<1>1. Bad \in SUBSET Nat
  OBVIOUS
<1>2. PICK k \in Bad : \A j \in Bad : k <= j
  BY <1>1, LeastOf
<1>3. k # 0 /\ k - 1 \in 0 .. n /\ k - 1 \notin Bad
  BY <1>2
<1> QED BY <1>2, <1>3

\* f is the sequence of states of a transaction that goes through n chunks.
Run(f, n, first, chunks) ==
    f = [m \in 0 .. n |-> IF m = 0 THEN first ELSE Step(f[m - 1], chunks[m])]

LEMMA RunExists ==
    ASSUME NEW first, NEW chunks, NEW n \in Nat
    PROVE  \E f : Run(f, n, first, chunks)
<1> DEFINE T == {m \in Nat : \E f : Run(f, m, first, chunks)}
<1>1. 0 \in T
  <2> DEFINE f == [m \in 0 .. 0 |-> first]
  <2>1. Run(f, 0, first, chunks)
    BY DEF Run
  <2> QED BY <2>1
<1>2. ASSUME NEW k \in 0 .. n, k # 0, k - 1 \in T PROVE k \in T
  <2>1. PICK f : Run(f, k - 1, first, chunks)
    BY <1>2
  <2> DEFINE g == [m \in 0 .. k |-> IF m = k THEN Step(f[k - 1], chunks[k]) ELSE f[m]]
  <2>2. ASSUME NEW m \in 0 .. k
        PROVE  g[m] = IF m = 0 THEN first ELSE Step(g[m - 1], chunks[m])
    <3>1. CASE m = k
      <4>1. g[m] = Step(f[k - 1], chunks[k]) /\ g[m - 1] = f[k - 1]
        BY <1>2, <3>1
      <4> QED BY <1>2, <3>1, <4>1
    <3>2. CASE m # k
      <4>1. m \in 0 .. k - 1 /\ g[m] = f[m]
        BY <1>2, <3>2
      <4>2. f[m] = IF m = 0 THEN first ELSE Step(f[m - 1], chunks[m])
        BY <2>1, <4>1 DEF Run
      <4>3. m # 0 => g[m - 1] = f[m - 1]
        BY <1>2, <4>1
      <4> HIDE DEF g
      <4> QED BY <4>1, <4>2, <4>3
    <3> QED BY <3>1, <3>2
  <2>3. g = [m \in 0 .. k |-> g[m]]
    OBVIOUS
  <2> HIDE DEF g
  <2>4. Run(g, k, first, chunks)
    BY <2>2, <2>3 DEF Run
  <2> QED BY <1>2, <2>4
<1> HIDE DEF T
<1>3. n \in T
  BY <1>1, <1>2, ReachesAll
<1> QED BY <1>3 DEF T

\* The state in which the transaction of a job starts.
First == [db |-> db, error |-> "none"]

LEMMA OutcomeRuns ==
    ASSUME NEW j, Len(session.jobs[j]) \in Nat
    PROVE  \E f : /\ Run(f, Len(session.jobs[j]), First, session.jobs[j])
                  /\ Outcome(j) = f[Len(session.jobs[j])]
<1> DEFINE n == Len(session.jobs[j])
           f == CHOOSE f : Run(f, n, First, session.jobs[j])
<1>1. \E g : Run(g, n, First, session.jobs[j])
  BY RunExists
<1>2. Run(f, n, First, session.jobs[j])
  BY <1>1
<1>3. Outcome(j) = f[n]
  BY DEF Outcome, Run, First
<1> QED BY <1>2, <1>3

-----------------------------------------------------------------------------
(* One chunk: the upsert and its rejection *)

Reasons == {"none", "null", "unique", "reference"}

LEMMA RejectionReasons ==
    ASSUME NEW d, NEW e, NEW i, NEW r
    PROVE  Rejection(d, e, i, r) \in Reasons
BY DEF Rejection, Reasons

LEMMA InsertedShape ==
    ASSUME NEW e, NEW r
    PROVE  /\ Inserted(e, r) = [c \in Columns(e) |-> Inserted(e, r)[c]]
           /\ \A c \in Columns(e) : Inserted(e, r)[c] =
                IF c \in DOMAIN r THEN r[c]
                ELSE IF c \in TableOf[e].defaults THEN Default ELSE Null
BY DEF Inserted

LEMMA UpdatedShape ==
    ASSUME NEW e, NEW row, NEW r
    PROVE  /\ Updated(e, row, r) = [c \in Columns(e) |-> Updated(e, row, r)[c]]
           /\ \A c \in Columns(e) : Updated(e, row, r)[c] =
                IF e = "sync_conflicto" THEN IF c \in DOMAIN r THEN r[c] ELSE row[c]
                ELSE IF c \in Kept(e) THEN row[c] ELSE Inserted(e, r)[c]
BY DEF Updated

\* What is not rejected has no null where none may be, or leaves the column alone.
LEMMA NotNullAccepted ==
    ASSUME NEW d, NEW e, NEW i, NEW r, Rejection(d, e, i, r) = "none",
           NEW c \in NotNull(e), Inserted(e, r)[c] = Null
    PROVE  /\ e = "sync_conflicto" /\ c \notin DOMAIN r
           /\ \E s \in d : s.entity = e /\ s.id = i
BY DEF Rejection

\* The row of the chunk after the upsert: inserted, or the old one updated.
UpsertedRow(d, e, i, r, s) ==
    /\ s.entity = e /\ s.id = i
    /\ \/ /\ \A o \in d : ~(o.entity = e /\ o.id = i)
          /\ s = [entity |-> e, id |-> i, version |-> 1, row |-> Inserted(e, r)]
       \/ \E o \in d : /\ o.entity = e /\ o.id = i
                       /\ s = [entity |-> e, id |-> i, version |-> o.version + 1,
                               row |-> Updated(e, o.row, r)]

LEMMA UpsertRows ==
    ASSUME NEW d, WellFormed(d), NEW e, NEW i, NEW r, NEW s \in Upsert(d, e, i, r)
    PROVE  \/ s \in d /\ ~(s.entity = e /\ s.id = i)
           \/ UpsertedRow(d, e, i, r, s)
<1> DEFINE old == {o \in d : o.entity = e /\ o.id = i}
           inserted == [entity |-> e, id |-> i, version |-> 1, row |-> Inserted(e, r)]
           U(o) == [o EXCEPT !.version = @ + 1, !.row = Updated(e, o.row, r)]
<1>1. \/ s \in d \ old
      \/ old = {} /\ s = inserted
      \/ \E o \in old : s = U(o)
  BY DEF Upsert
<1>2. CASE s \in d \ old
  BY <1>2
<1>3. CASE old = {} /\ s = inserted
  BY <1>3 DEF UpsertedRow
<1>4. ASSUME NEW o \in old, s = U(o) PROVE UpsertedRow(d, e, i, r, s)
  <2> DEFINE v == o.version
             w == o.row
  <2>1. /\ o = [entity |-> e, id |-> i, version |-> v, row |-> w]
        /\ o \in d /\ o.entity = e /\ o.id = i
    BY DEF WellFormed
  <2>2. s = [o EXCEPT !.version = v + 1, !.row = Updated(e, w, r)]
    BY <1>4
  <2> HIDE DEF v, w
  <2>3. s = [entity |-> e, id |-> i, version |-> v + 1, row |-> Updated(e, w, r)]
    BY <2>1, <2>2
  <2> QED BY <2>1, <2>3 DEF UpsertedRow, v, w
<1> QED BY <1>1, <1>2, <1>3, <1>4

LEMMA UpsertWellFormed ==
    ASSUME NEW d, WellFormed(d), NEW e \in Entity, NEW i, NEW r, Rejection(d, e, i, r) = "none"
    PROVE  WellFormed(Upsert(d, e, i, r))
<1>1. ASSUME NEW s, UpsertedRow(d, e, i, r, s)
      PROVE  /\ s = [entity |-> s.entity, id |-> s.id, version |-> s.version, row |-> s.row]
             /\ s.entity = e /\ s.id = i /\ s.version \in Nat
             /\ s.row = [c \in Columns(e) |-> s.row[c]]
             /\ \A c \in NotNull(e) : s.row[c] # Null
  <2>c. \A c \in NotNull(e) : c \in Columns(e)
    BY DEF Columns
  <2>1. CASE /\ \A o \in d : ~(o.entity = e /\ o.id = i)
             /\ s = [entity |-> e, id |-> i, version |-> 1, row |-> Inserted(e, r)]
    <3>1. \A c \in NotNull(e) : Inserted(e, r)[c] # Null
      BY <2>1, NotNullAccepted
    <3>2. s.row = Inserted(e, r) /\ s.entity = e /\ s.id = i /\ s.version = 1
      BY <2>1
    <3> QED BY <2>1, <3>1, <3>2, InsertedShape
  <2>2. ASSUME NEW o \in d, o.entity = e, o.id = i,
               s = [entity |-> e, id |-> i, version |-> o.version + 1,
                    row |-> Updated(e, o.row, r)]
        PROVE  /\ s = [entity |-> s.entity, id |-> s.id, version |-> s.version, row |-> s.row]
               /\ s.entity = e /\ s.id = i /\ s.version \in Nat
               /\ s.row = [c \in Columns(e) |-> s.row[c]]
               /\ \A c \in NotNull(e) : s.row[c] # Null
    <3>1. o.version \in Nat /\ \A c \in NotNull(e) : o.row[c] # Null
      BY <2>2 DEF WellFormed
    <3>2. /\ s.row = Updated(e, o.row, r) /\ s.entity = e /\ s.id = i
          /\ s.version = o.version + 1
      BY <2>2
    <3>3. ASSUME NEW c \in NotNull(e) PROVE s.row[c] # Null
      <4>1. /\ s.row[c] = IF e = "sync_conflicto" THEN IF c \in DOMAIN r THEN r[c] ELSE o.row[c]
                          ELSE IF c \in Kept(e) THEN o.row[c] ELSE Inserted(e, r)[c]
            /\ c \in DOMAIN r => Inserted(e, r)[c] = r[c]
        BY <2>c, <3>2, UpdatedShape, InsertedShape
      <4> QED BY <3>1, <4>1, NotNullAccepted
    <3> QED BY <2>2, <3>1, <3>2, <3>3, UpdatedShape
  <2> QED BY <1>1, <2>1, <2>2 DEF UpsertedRow
<1>2. \A s \in Upsert(d, e, i, r) :
        \/ s \in d /\ ~(s.entity = e /\ s.id = i)
        \/ UpsertedRow(d, e, i, r, s)
  BY UpsertRows
<1>3. ASSUME NEW s \in Upsert(d, e, i, r)
      PROVE  /\ s = [entity |-> s.entity, id |-> s.id, version |-> s.version, row |-> s.row]
             /\ s.entity \in Entity /\ s.version \in Nat
             /\ s.row = [c \in Columns(s.entity) |-> s.row[c]]
             /\ \A c \in NotNull(s.entity) : s.row[c] # Null
  <2>1. CASE s \in d
    BY <2>1 DEF WellFormed
  <2>2. CASE UpsertedRow(d, e, i, r, s)
    BY <1>1, <2>2
  <2> QED BY <1>2, <2>1, <2>2
<1>4. ASSUME NEW s \in Upsert(d, e, i, r), NEW t \in Upsert(d, e, i, r),
             s.entity = t.entity, s.id = t.id
      PROVE  s = t
  <2>1. CASE s \in d /\ ~(s.entity = e /\ s.id = i)
    <3>1. t \in d
      BY <1>2, <1>4, <2>1 DEF UpsertedRow
    <3> QED BY <1>4, <2>1, <3>1 DEF WellFormed
  <2>2. CASE UpsertedRow(d, e, i, r, s)
    <3>1. UpsertedRow(d, e, i, r, t)
      BY <1>2, <1>4, <2>2 DEF UpsertedRow
    <3>2. \A o, q \in d : o.entity = q.entity /\ o.id = q.id => o = q
      BY DEF WellFormed
    <3> QED BY <2>2, <3>1, <3>2 DEF UpsertedRow
  <2> QED BY <1>2, <2>1, <2>2
<1> QED BY <1>3, <1>4 DEF WellFormed
\* No row goes away, and that of the chunk is there.
Has(d, e, i) == \E s \in d : s.entity = e /\ s.id = i

LEMMA UpsertKeeps ==
    ASSUME NEW d, WellFormed(d), NEW e, NEW i, NEW r
    PROVE  /\ Has(Upsert(d, e, i, r), e, i)
           /\ \A a, k : Has(d, a, k) => Has(Upsert(d, e, i, r), a, k)
<1> DEFINE old == {o \in d : o.entity = e /\ o.id = i}
           inserted == [entity |-> e, id |-> i, version |-> 1, row |-> Inserted(e, r)]
           U(o) == [o EXCEPT !.version = @ + 1, !.row = Updated(e, o.row, r)]
           new == Upsert(d, e, i, r)
<1>1. /\ \A s \in d \ old : s \in new
      /\ old = {} => inserted \in new
      /\ \A o \in old : U(o) \in new
  BY DEF Upsert
<1>2. Has(new, e, i)
  <2>1. CASE old = {}
    <3>1. inserted.entity = e /\ inserted.id = i
      OBVIOUS
    <3> QED BY <1>1, <2>1, <3>1 DEF Has
  <2>2. ASSUME NEW o \in old PROVE Has(new, e, i)
    <3> DEFINE v == o.version
               w == o.row
    <3>1. o = [entity |-> e, id |-> i, version |-> v, row |-> w]
      BY DEF WellFormed
    <3> HIDE DEF v, w
    <3>2. U(o).entity = e /\ U(o).id = i
      BY <3>1
    <3> HIDE DEF U
    <3> QED BY <1>1, <3>2 DEF Has
  <2> QED BY <2>1, <2>2
<1>3. ASSUME NEW a, NEW k, Has(d, a, k) PROVE Has(new, a, k)
  <2>1. PICK s \in d : s.entity = a /\ s.id = k
    BY <1>3 DEF Has
  <2>2. CASE s \in d \ old
    BY <1>1, <2>1, <2>2 DEF Has
  <2>3. CASE s \in old
    BY <1>2, <2>1, <2>3
  <2> QED BY <2>2, <2>3
<1> QED BY <1>2, <1>3

-----------------------------------------------------------------------------
(* The tables stay well-formed, and the outbox counts the attempts *)

\* The state of a transaction.
Result(x) == x = [db |-> x.db, error |-> x.error] /\ WellFormed(x.db) /\ x.error \in Reasons

\* A step stores the chunk, refuses it, or leaves everything as it is.
LEMMA StepCases ==
    ASSUME NEW x, Result(x), NEW c, c.entity \in Entity
    PROVE  /\ Result(Step(x, c))
           /\ \/ /\ x.error # "none" \/ Conflicts(x.db, c.entity, c.id, c.base)
                 /\ Step(x, c) = x
              \/ /\ x.error = "none"
                 /\ Rejection(x.db, c.entity, c.id, c.record) # "none"
                 /\ Step(x, c).db = x.db
                 /\ Step(x, c).error = Rejection(x.db, c.entity, c.id, c.record)
              \/ /\ x.error = "none"
                 /\ Rejection(x.db, c.entity, c.id, c.record) = "none"
                 /\ Step(x, c).error = "none"
                 /\ Step(x, c).db = Upsert(x.db, c.entity, c.id, c.record)
<1> DEFINE why == Rejection(x.db, c.entity, c.id, c.record)
           up == Upsert(x.db, c.entity, c.id, c.record)
           skip == x.error # "none" \/ Conflicts(x.db, c.entity, c.id, c.base)
           d == x.db
           e == x.error
<1>1. why \in Reasons
  BY RejectionReasons
<1>2. why = "none" => WellFormed(up)
  BY UpsertWellFormed DEF Result
<1>3. Step(x, c) = IF skip THEN x
                   ELSE IF why # "none" THEN [x EXCEPT !.error = why]
                   ELSE [x EXCEPT !.db = up]
  BY DEF Step
<1>4. x = [db |-> d, error |-> e] /\ WellFormed(d) /\ e \in Reasons
  BY DEF Result
<1>5. skip <=> e # "none" \/ Conflicts(x.db, c.entity, c.id, c.base)
  OBVIOUS
<1> HIDE DEF why, up, skip
<1>6. CASE skip
  BY <1>3, <1>5, <1>6
<1>7. CASE ~skip /\ why # "none"
  <2>1. Step(x, c) = [db |-> d, error |-> why]
    <3> HIDE DEF d, e
    <3> QED BY <1>3, <1>4, <1>7
  <2>2. e = "none"
    BY <1>5, <1>7
  <2> QED BY <1>1, <1>4, <1>7, <2>1, <2>2 DEF Result, why
<1>8. CASE ~skip /\ why = "none"
  <2>1. Step(x, c) = [db |-> up, error |-> e]
    <3> HIDE DEF d, e
    <3> QED BY <1>3, <1>4, <1>8
  <2>2. e = "none"
    BY <1>5, <1>8
  <2> QED BY <1>2, <1>4, <1>8, <2>1, <2>2 DEF Result, why, up
<1> QED BY <1>6, <1>7, <1>8

\* The chunks of a job of a session.
LEMMA JobChunks ==
    ASSUME session \in Sessions, NEW j \in Job
    PROVE  /\ Len(session.jobs[j]) \in Nat
           /\ DOMAIN session.jobs[j] = 1 .. Len(session.jobs[j])
           /\ \A n \in 1 .. Len(session.jobs[j]) : session.jobs[j][n].entity \in Entity
BY SessionsAssumption DEF Job

\* Each state of the transaction of job j follows from the one before.
LEMMA RunSteps ==
    ASSUME NEW n \in Nat, NEW first, NEW chunks, NEW f, Run(f, n, first, chunks)
    PROVE  f[0] = first /\ \A m \in 0 .. n : m # 0 => f[m] = Step(f[m - 1], chunks[m])
BY DEF Run

LEMMA RunResults ==
    ASSUME session \in Sessions, WellFormed(db), NEW j \in Job, NEW f,
           Run(f, Len(session.jobs[j]), First, session.jobs[j])
    PROVE  \A m \in 0 .. Len(session.jobs[j]) : Result(f[m])
<1> DEFINE n == Len(session.jobs[j])
           chunks == session.jobs[j]
           T == {m \in 0 .. n : Result(f[m])}
<1>1. n \in Nat /\ \A m \in 1 .. n : chunks[m].entity \in Entity
  BY JobChunks
<1>2. f[0] = First /\ \A m \in 0 .. n : m # 0 => f[m] = Step(f[m - 1], chunks[m])
  BY <1>1, RunSteps
<1>3. Result(First)
  BY DEF Result, First, Reasons
<1> HIDE DEF n, chunks
<1>4. 0 \in T
  BY <1>1, <1>2, <1>3
<1>5. ASSUME NEW m \in 0 .. n, m # 0, m - 1 \in T PROVE m \in T
  <2>1. m \in 1 .. n /\ Result(f[m - 1])
    BY <1>1, <1>5
  <2>2. chunks[m].entity \in Entity /\ f[m] = Step(f[m - 1], chunks[m])
    BY <1>1, <1>2, <2>1, <1>5
  <2> HIDE DEF T
  <2>3. Result(f[m])
    BY <2>1, <2>2, StepCases
  <2> QED BY <2>3 DEF T
<1> HIDE DEF T
<1>6. \A m \in 0 .. n : m \in T
  BY <1>1, <1>4, <1>5, ReachesAll
<1> QED BY <1>6 DEF T, n

LEMMA OutcomeResult ==
    ASSUME session \in Sessions, WellFormed(db), NEW j \in Job
    PROVE  Result(Outcome(j))
<1>1. Len(session.jobs[j]) \in Nat
  BY JobChunks
<1>2. PICK f : /\ Run(f, Len(session.jobs[j]), First, session.jobs[j])
               /\ Outcome(j) = f[Len(session.jobs[j])]
  BY <1>1, OutcomeRuns
<1>3. Len(session.jobs[j]) \in 0 .. Len(session.jobs[j])
  BY <1>1
<1> QED BY <1>2, <1>3, RunResults

JobState ==
    [status : {"QUEUED", "FAILED", "DEAD_LETTER", "STORED", "COMPLETED"},
     attempts : Nat, redelivered : Nat, error : Reasons]

\* A job that is not dead has attempts left.
AttemptsLeft(q) ==
    /\ q \in JobState
    /\ q.attempts <= MaxAttempts /\ q.redelivered <= MaxRedelivered
    /\ q.status # "DEAD_LETTER" => q.attempts < MaxAttempts

PushInv ==
    /\ session \in Sessions /\ WellFormed(db)
    /\ DOMAIN job = Job /\ job = [j \in Job |-> job[j]]
    /\ \A j \in Job : AttemptsLeft(job[j])

\* A job that becomes q, the others staying, keeps the invariant.
LEMMA JobBecomes ==
    ASSUME PushInv, UNCHANGED session, WellFormed(db'), NEW j \in Job, NEW q, AttemptsLeft(q),
           job' = [job EXCEPT ![j] = q]
    PROVE  PushInv'
<1>1. DOMAIN job' = Job /\ job' = [i \in Job |-> job'[i]]
  BY DEF PushInv
<1>2. \A i \in Job : AttemptsLeft(job'[i])
  BY DEF PushInv
<1>3. Job' = Job
  BY DEF Job
<1>4. \A i \in Job : AttemptsLeft(job[i])'
  BY <1>2 DEF AttemptsLeft
<1> QED BY <1>1, <1>3, <1>4 DEF PushInv

LEMMA PushStep == PushInv /\ [Next]_vars => PushInv'
<1> SUFFICES ASSUME PushInv, [Next]_vars PROVE PushInv'
  OBVIOUS
<1>1. CASE UNCHANGED vars
  BY <1>1 DEF vars, PushInv, Job, AttemptsLeft
<1> SUFFICES ASSUME NEW j \in Job, Store(j) \/ Reject(j) \/ MarkCompleted(j) \/ Redeliver(j)
             PROVE  PushInv'
  BY <1>1 DEF Next
<1> DEFINE q == job[j]
<1>2. /\ q = [status |-> q.status, attempts |-> q.attempts, redelivered |-> q.redelivered,
              error |-> q.error]
      /\ q.attempts \in Nat /\ q.redelivered \in Nat /\ q.error \in Reasons
      /\ q.redelivered <= MaxRedelivered
      /\ q.status # "DEAD_LETTER" => q.attempts < MaxAttempts
  BY DEF PushInv, AttemptsLeft, JobState
<1>3. Result(Outcome(j)) /\ MaxAttempts \in Nat /\ MaxRedelivered \in Nat /\ WellFormed(db)
  BY OutcomeResult, AttemptsAssumption DEF PushInv
<1>4. CASE Store(j)
  <2>1. q.status # "DEAD_LETTER" /\ job' = [job EXCEPT ![j] = [q EXCEPT !.status = "STORED"]]
    BY <1>4 DEF Store
  <2> DEFINE p == [q EXCEPT !.status = "STORED"]
  <2> HIDE DEF q
  <2>2. AttemptsLeft(p)
    BY <1>2, <1>3, <2>1 DEF AttemptsLeft, JobState
  <2>3. WellFormed(db')
    BY <1>3, <1>4 DEF Store, Result
  <2>4. job' = [job EXCEPT ![j] = p] /\ UNCHANGED session
    BY <1>4, <2>1 DEF Store
  <2> HIDE DEF p
  <2> QED BY <2>2, <2>3, <2>4, JobBecomes
<1>5. CASE Reject(j)
  <2> DEFINE s == IF q.attempts + 1 >= MaxAttempts THEN "DEAD_LETTER" ELSE "FAILED"
             e == Outcome(j).error
             n == q.attempts + 1
             p == [q EXCEPT !.attempts = n, !.status = s, !.error = e]
  <2>1. q.status # "DEAD_LETTER" /\ job' = [job EXCEPT ![j] = p]
    BY <1>5 DEF Reject
  <2>2. e \in Reasons
    BY <1>3 DEF Result
  <2> HIDE DEF q, e
  <2>3. /\ n \in Nat /\ n <= MaxAttempts /\ s \in {"DEAD_LETTER", "FAILED"}
        /\ s # "DEAD_LETTER" => n < MaxAttempts
    BY <1>2, <1>3, <2>1
  <2> HIDE DEF n, s
  <2>4. AttemptsLeft(p)
    BY <1>2, <2>2, <2>3 DEF AttemptsLeft, JobState
  <2>5. WellFormed(db') /\ UNCHANGED session
    BY <1>3, <1>5 DEF Reject
  <2> HIDE DEF p
  <2> QED BY <2>1, <2>4, <2>5, JobBecomes
<1>6. CASE MarkCompleted(j)
  <2> DEFINE p == [q EXCEPT !.status = "COMPLETED"]
  <2>1. q.status # "DEAD_LETTER" /\ job' = [job EXCEPT ![j] = p]
    BY <1>6 DEF MarkCompleted
  <2> HIDE DEF q
  <2>2. AttemptsLeft(p)
    BY <1>2, <1>3, <2>1 DEF AttemptsLeft, JobState
  <2>3. WellFormed(db') /\ UNCHANGED session
    BY <1>3, <1>6 DEF MarkCompleted
  <2> HIDE DEF p
  <2> QED BY <2>1, <2>2, <2>3, JobBecomes
<1>7. CASE Redeliver(j)
  <2> DEFINE n == q.redelivered + 1
             p == [q EXCEPT !.status = "QUEUED", !.redelivered = n]
  <2>1. /\ q.status # "DEAD_LETTER" /\ q.redelivered < MaxRedelivered
        /\ job' = [job EXCEPT ![j] = p]
    BY <1>7 DEF Redeliver
  <2> HIDE DEF q
  <2>2. n \in Nat /\ n <= MaxRedelivered
    BY <1>2, <1>3, <2>1
  <2> HIDE DEF n
  <2>3. p = [status |-> "QUEUED", attempts |-> q.attempts, redelivered |-> n, error |-> q.error]
    <3> DEFINE a == q.attempts
               r == q.redelivered
               t == q.status
               e == q.error
    <3>1. q = [status |-> t, attempts |-> a, redelivered |-> r, error |-> e]
      BY <1>2
    <3> HIDE DEF a, r, t, e
    <3>2. p = [status |-> "QUEUED", attempts |-> a, redelivered |-> n, error |-> e]
      <4> DEFINE o == [q EXCEPT !.status = "QUEUED"]
      <4>1. o = [status |-> "QUEUED", attempts |-> a, redelivered |-> r, error |-> e]
        BY <3>1
      <4>2. p = [o EXCEPT !.redelivered = n]
        OBVIOUS
      <4> HIDE DEF o, p
      <4> QED BY <4>1, <4>2
    <3> QED BY <3>2 DEF a, e
  <2>a. q.attempts < MaxAttempts
    BY <1>2, <2>1
  <2>b. p \in JobState
    BY <1>2, <2>2, <2>3 DEF JobState
  <2>5. AttemptsLeft(p)
    BY <1>2, <1>3, <2>2, <2>3, <2>a, <2>b DEF AttemptsLeft
  <2>4. WellFormed(db') /\ UNCHANGED session
    BY <1>3, <1>7 DEF Redeliver
  <2> HIDE DEF p
  <2> QED BY <2>1, <2>4, <2>5, JobBecomes
<1> QED BY <1>4, <1>5, <1>6, <1>7

LEMMA PushStart == Init => PushInv
<1> SUFFICES ASSUME Init PROVE PushInv
  OBVIOUS
<1> DEFINE q == [status |-> "QUEUED", attempts |-> 0, redelivered |-> 0, error |-> "none"]
<1>1. session \in Sessions /\ db = session.rows /\ job = [j \in Job |-> q]
  BY DEF Init
<1>2. AttemptsLeft(q)
  BY AttemptsAssumption DEF AttemptsLeft, JobState, Reasons
<1> HIDE DEF q
<1>3. WellFormed(db)
  BY <1>1, SessionsAssumption
<1> QED BY <1>1, <1>2, <1>3 DEF PushInv

LEMMA Pushes == Spec => []PushInv
BY PushStart, PushStep, PTL DEF Spec

\* Whatever a session pushes, in whatever order and however often its jobs are
\* delivered: each table has one row per id and no null where none may be, and no
\* job is tried more often than its attempts.
THEOREM PushTypeCorrect == Spec => []PushTypeOK
<1>1. PushInv => PushTypeOK
  BY AttemptsAssumption DEF PushInv, PushTypeOK, AttemptsLeft, JobState, Reasons
<1> QED BY <1>1, Pushes, PTL

-----------------------------------------------------------------------------
(* References: what is stored, or comes first in the job, can be referred to *)

\* A foreign key is a column without DEFAULT, and a unique column a column.
KeyColumns(table) ==
    /\ \A ref \in table.refs : ref[1] \in (table.needs \cup table.optional) \ table.defaults
    /\ table.unique \subseteq table.needs

LEMMA TableKeyColumns == \A e \in Entity : KeyColumns(TableOf[e])
<1>1. KeyColumns(Cliente) /\ KeyColumns(Vehiculo) /\ KeyColumns(EmpresaGestora)
  BY DEF KeyColumns, Table, Cliente, Vehiculo, EmpresaGestora
<1>2. KeyColumns(PlantillaDocumento) /\ KeyColumns(Presentante) /\ KeyColumns(Tramite)
  BY DEF KeyColumns, Table, PlantillaDocumento, Presentante, Tramite
<1>3. KeyColumns(RepresentanteLegal) /\ KeyColumns(TramiteDetalle)
  BY DEF KeyColumns, Table, RepresentanteLegal, TramiteDetalle
<1>4. KeyColumns(CatalogoTipoTramite) /\ KeyColumns(CatalogoSituacion)
  BY DEF KeyColumns, Table, CatalogoTipoTramite, CatalogoSituacion
<1>5. KeyColumns(PerfilGestor) /\ KeyColumns(MessageTemplate) /\ KeyColumns(SyncConflicto)
  BY DEF KeyColumns, Table, PerfilGestor, MessageTemplate, SyncConflicto
<1>6. KeyColumns(Usuario)
  BY DEF KeyColumns, Table, TableWithoutDates, Usuario
<1>7. KeyColumns(Dispositivo)
  BY DEF KeyColumns, Table, TableWithoutDates, Dispositivo
<1>8. KeyColumns(Sucursal)
  BY DEF KeyColumns, Table, TableWithoutDates, Sucursal
<1> QED BY <1>1, <1>2, <1>3, <1>4, <1>5, <1>6, <1>7, <1>8 DEF Entity, TableOf

LEMMA NoDangling ==
    ASSUME NEW d, NEW c, c.entity \in Entity,
           \A t \in Targets(c) : Has(d, t[1], t[2])
    PROVE  Rejection(d, c.entity, c.id, c.record) # "reference"
<1> DEFINE e == c.entity
           r == c.record
<1> SUFFICES ASSUME Rejection(d, e, c.id, r) = "reference" PROVE FALSE
  OBVIOUS
<1>1. PICK ref \in TableOf[e].refs :
        /\ Inserted(e, r)[ref[1]] # Null
        /\ ~ \E s \in d : s.entity = ref[2] /\ s.id = Inserted(e, r)[ref[1]]
  BY DEF Rejection
<1>2. ref[1] \in Columns(e) /\ ref[1] \notin TableOf[e].defaults
  BY TableKeyColumns DEF KeyColumns, Columns, NotNull
<1>3. ref[1] \in DOMAIN r /\ Inserted(e, r)[ref[1]] = r[ref[1]]
  BY <1>1, <1>2, InsertedShape
<1>4. <<ref[2], r[ref[1]]>> \in Targets(c)
  BY <1>1, <1>3 DEF Targets
<1>5. Has(d, ref[2], r[ref[1]])
  BY <1>4
<1> QED BY <1>1, <1>3, <1>5 DEF Has

\* The hypothesis of OrderedJobIsAccepted.
Ordered(j) ==
    \A n \in DOMAIN session.jobs[j] : \A target \in Targets(session.jobs[j][n]) :
        \/ \E s \in db : target = <<s.entity, s.id>>
        \/ \E m \in 1 .. n - 1 :
                target = <<session.jobs[j][m].entity, session.jobs[j][m].id>>

\* While nothing is rejected, what was stored and the first m chunks have their rows.
Present(x, m, chunks) ==
    /\ \A a, k : Has(db, a, k) => Has(x.db, a, k)
    /\ \A i \in 1 .. m : Has(x.db, chunks[i].entity, chunks[i].id)

LEMMA PresentStep ==
    ASSUME NEW x, Result(x), NEW chunks, NEW m \in Nat \ {0}, chunks[m].entity \in Entity,
           Present(x, m - 1, chunks), Step(x, chunks[m]).error = "none"
    PROVE  Present(Step(x, chunks[m]), m, chunks)
<1> DEFINE c == chunks[m]
           y == Step(x, c)
<1>1. /\ Has(y.db, c.entity, c.id)
      /\ \A a, k : Has(x.db, a, k) => Has(y.db, a, k)
  <2> DEFINE ce == c.entity
             ci == c.id
             cr == c.record
  <2>1. \/ y.error = x.error /\ y = x /\ (x.error # "none" \/ Conflicts(x.db, ce, ci, c.base))
        \/ y.error # "none"
        \/ y.db = Upsert(x.db, ce, ci, cr)
    BY StepCases
  <2>2. CASE y = x /\ Conflicts(x.db, ce, ci, c.base)
    BY <2>2 DEF Conflicts, Has
  <2>3. CASE y.db = Upsert(x.db, ce, ci, cr)
    <3>1. WellFormed(x.db)
      BY DEF Result
    <3> HIDE DEF ce, ci, cr, y
    <3>2. /\ Has(y.db, ce, ci)
          /\ \A a, k : Has(x.db, a, k) => Has(y.db, a, k)
      BY <2>3, <3>1, UpsertKeeps
    <3> QED BY <3>2 DEF ce, ci
  <2> QED BY <2>1, <2>2, <2>3
<1> HIDE DEF y
<1>2. \A i \in 1 .. m : i = m \/ i \in 1 .. m - 1
  OBVIOUS
<1>3. Present(y, m, chunks)
  BY <1>1, <1>2 DEF Present
<1> QED BY <1>3 DEF y

\* With its references in order, no chunk of the job is rejected for one of them.
LEMMA OrderedRun ==
    ASSUME session \in Sessions, WellFormed(db), NEW j \in Job, Ordered(j), NEW f,
           Run(f, Len(session.jobs[j]), First, session.jobs[j])
    PROVE  \A m \in 0 .. Len(session.jobs[j]) :
                /\ f[m].error # "reference"
                /\ f[m].error = "none" => Present(f[m], m, session.jobs[j])
<1> DEFINE n == Len(session.jobs[j])
           chunks == session.jobs[j]
           T == {m \in 0 .. n : /\ f[m].error # "reference"
                                /\ f[m].error = "none" => Present(f[m], m, chunks)}
<1>1. n \in Nat /\ DOMAIN chunks = 1 .. n /\ \A m \in 1 .. n : chunks[m].entity \in Entity
  BY JobChunks
<1>2. f[0] = First /\ \A m \in 0 .. n : m # 0 => f[m] = Step(f[m - 1], chunks[m])
  BY <1>1, RunSteps
<1>3. \A m \in 0 .. n : Result(f[m])
  BY RunResults
<1>4. \A m \in 1 .. n : \A target \in Targets(chunks[m]) :
        \/ \E s \in db : target = <<s.entity, s.id>>
        \/ \E i \in 1 .. m - 1 : target = <<chunks[i].entity, chunks[i].id>>
  BY <1>1 DEF Ordered
<1> HIDE DEF n, chunks
<1>5. 0 \in T
  <2>1. f[0].error = "none" /\ f[0].db = db
    BY <1>2 DEF First
  <2>2. Present(f[0], 0, chunks)
    BY <2>1 DEF Present
  <2> QED BY <1>1, <2>1, <2>2
<1>6. ASSUME NEW m \in 0 .. n, m # 0, m - 1 \in T PROVE m \in T
  <2> DEFINE x == f[m - 1]
             c == chunks[m]
  <2>1. m \in 1 .. n /\ m - 1 \in 0 .. n /\ m \in Nat \ {0} /\ f[m] = Step(x, c)
    BY <1>1, <1>2, <1>6
  <2>2. Result(x) /\ c.entity \in Entity
    BY <1>1, <1>3, <2>1
  <2>3. x.error # "reference" /\ (x.error = "none" => Present(x, m - 1, chunks))
    BY <1>6
  <2>4. \A t \in Targets(c) :
            \/ \E s \in db : t = <<s.entity, s.id>>
            \/ \E i \in 1 .. m - 1 : t = <<chunks[i].entity, chunks[i].id>>
    BY <1>4, <2>1
  <2> HIDE DEF T, x, c
  <2>5. ASSUME x.error = "none" PROVE Rejection(x.db, c.entity, c.id, c.record) # "reference"
    <3>1. \A t \in Targets(c) : Has(x.db, t[1], t[2])
      BY <2>3, <2>4, <2>5 DEF Present, Has
    <3> QED BY <2>2, <3>1, NoDangling
  <2>6. f[m].error # "reference" /\ (f[m].error = "none" => x.error = "none")
    BY <2>1, <2>2, <2>3, <2>5, StepCases
  <2>7. ASSUME f[m].error = "none" PROVE Present(f[m], m, chunks)
    BY <2>1, <2>2, <2>3, <2>6, <2>7, PresentStep DEF c
  <2> QED BY <2>6, <2>7 DEF T
<1> HIDE DEF T
<1>7. \A m \in 0 .. n : m \in T
  BY <1>1, <1>5, <1>6, ReachesAll
<1> QED BY <1>7 DEF T, n, chunks

LEMMA OrderedOutcome ==
    ASSUME session \in Sessions, WellFormed(db), NEW j \in Job, Ordered(j)
    PROVE  Outcome(j).error # "reference"
<1>1. Len(session.jobs[j]) \in Nat
  BY JobChunks
<1>2. PICK f : /\ Run(f, Len(session.jobs[j]), First, session.jobs[j])
               /\ Outcome(j) = f[Len(session.jobs[j])]
  BY <1>1, OutcomeRuns
<1>3. Len(session.jobs[j]) \in 0 .. Len(session.jobs[j])
  BY <1>1
<1> QED BY <1>2, <1>3, OrderedRun

-----------------------------------------------------------------------------
(* Values: every unique value of a table was pushed for that row, or was there *)

Traced(d) ==
    \A s \in d : \A col \in TableOf[s.entity].unique : \E a \in Contents(session) :
        a.entity = s.entity /\ a.id = s.id /\ a.row[col] = s.row[col]

LEMMA ChunkContent ==
    ASSUME NEW j \in Job, NEW n \in DOMAIN session.jobs[j]
    PROVE  LET c == session.jobs[j][n]
           IN  [entity |-> c.entity, id |-> c.id, row |-> Inserted(c.entity, c.record)]
                    \in Contents(session)
BY DEF Contents, Job

LEMMA UpsertTraced ==
    ASSUME NEW d, WellFormed(d), Traced(d), NEW e \in Entity, NEW i, NEW r,
           [entity |-> e, id |-> i, row |-> Inserted(e, r)] \in Contents(session)
    PROVE  Traced(Upsert(d, e, i, r))
<1> DEFINE b == [entity |-> e, id |-> i, row |-> Inserted(e, r)]
<1> SUFFICES ASSUME NEW s \in Upsert(d, e, i, r), NEW col \in TableOf[s.entity].unique
             PROVE  \E a \in Contents(session) :
                        a.entity = s.entity /\ a.id = s.id /\ a.row[col] = s.row[col]
  BY DEF Traced
<1>1. b \in Contents(session) /\ b.entity = e /\ b.id = i /\ b.row = Inserted(e, r)
  OBVIOUS
<1> HIDE DEF b
<1>2. s \in d \/ UpsertedRow(d, e, i, r, s)
  BY UpsertRows
<1>3. CASE s \in d
  BY <1>3 DEF Traced
<1>4. CASE UpsertedRow(d, e, i, r, s)
  <2>1. s.entity = e /\ s.id = i /\ col \in TableOf[e].unique /\ col \in Columns(e)
    BY <1>4, TableKeyColumns DEF UpsertedRow, KeyColumns, Columns, NotNull
  <2>2. CASE s.row = Inserted(e, r)
    BY <1>1, <2>1, <2>2
  <2>3. ASSUME NEW o \in d, o.entity = e, o.id = i, s.row = Updated(e, o.row, r)
        PROVE  \E a \in Contents(session) :
                    a.entity = s.entity /\ a.id = s.id /\ a.row[col] = s.row[col]
    <3>1. PICK a \in Contents(session) : a.entity = e /\ a.id = i /\ a.row[col] = o.row[col]
      BY <2>1, <2>3 DEF Traced
    <3>2. s.row[col] = o.row[col] \/ s.row[col] = Inserted(e, r)[col]
      <4>1. s.row[col] = IF e = "sync_conflicto" THEN IF col \in DOMAIN r THEN r[col] ELSE o.row[col]
                         ELSE IF col \in Kept(e) THEN o.row[col] ELSE Inserted(e, r)[col]
        BY <2>1, <2>3, UpdatedShape
      <4>2. col \in DOMAIN r => Inserted(e, r)[col] = r[col]
        BY <2>1, InsertedShape
      <4> QED BY <4>1, <4>2
    <3> QED BY <1>1, <2>1, <3>1, <3>2
  <2>4. s.row = Inserted(e, r) \/ \E o \in d : /\ o.entity = e /\ o.id = i
                                                /\ s.row = Updated(e, o.row, r)
    BY <1>4 DEF UpsertedRow
  <2> QED BY <2>2, <2>3, <2>4
<1> QED BY <1>2, <1>3, <1>4

LEMMA StepTraced ==
    ASSUME session \in Sessions, NEW x, Result(x), Traced(x.db),
           NEW j \in Job, NEW n \in DOMAIN session.jobs[j]
    PROVE  Traced(Step(x, session.jobs[j][n]).db)
<1> DEFINE c == session.jobs[j][n]
           e == c.entity
           i == c.id
           r == c.record
<1>1. e \in Entity
  BY JobChunks
<1>2. [entity |-> e, id |-> i, row |-> Inserted(e, r)] \in Contents(session)
  BY ChunkContent
<1>3. Step(x, c).db = x.db \/ Step(x, c).db = Upsert(x.db, e, i, r)
  BY <1>1, StepCases
<1>4. WellFormed(x.db)
  BY DEF Result
<1> HIDE DEF e, i, r
<1>5. Traced(Upsert(x.db, e, i, r))
  BY <1>1, <1>2, <1>4, UpsertTraced
<1> QED BY <1>3, <1>5

LEMMA TracedRun ==
    ASSUME session \in Sessions, WellFormed(db), Traced(db), NEW j \in Job, NEW f,
           Run(f, Len(session.jobs[j]), First, session.jobs[j])
    PROVE  \A m \in 0 .. Len(session.jobs[j]) : Traced(f[m].db)
<1> DEFINE n == Len(session.jobs[j])
           T == {m \in 0 .. n : Traced(f[m].db)}
<1>1. n \in Nat /\ DOMAIN session.jobs[j] = 1 .. n
  BY JobChunks
<1>2. f[0] = First /\ \A m \in 0 .. n : m # 0 => f[m] = Step(f[m - 1], session.jobs[j][m])
  BY <1>1, RunSteps
<1>3. \A m \in 0 .. n : Result(f[m])
  BY RunResults
<1> HIDE DEF n
<1>4. 0 \in T
  BY <1>1, <1>2 DEF First
<1>5. ASSUME NEW m \in 0 .. n, m # 0, m - 1 \in T PROVE m \in T
  <2>1. m \in DOMAIN session.jobs[j] /\ m - 1 \in 0 .. n
    BY <1>1, <1>5
  <2>2. Traced(f[m - 1].db)
    BY <1>5
  <2>3. Traced(Step(f[m - 1], session.jobs[j][m]).db)
    BY <1>3, <2>1, <2>2, StepTraced
  <2> QED BY <1>2, <1>5, <2>3
<1> HIDE DEF T
<1>6. \A m \in 0 .. n : m \in T
  BY <1>1, <1>4, <1>5, ReachesAll
<1> QED BY <1>6 DEF T, n

\* A transaction as a whole: its states are results, and its values traced.
LEMMA TracedOutcome ==
    ASSUME session \in Sessions, WellFormed(db), Traced(db), NEW j \in Job
    PROVE  Traced(Outcome(j).db)
<1>1. Len(session.jobs[j]) \in Nat
  BY JobChunks
<1>2. PICK f : /\ Run(f, Len(session.jobs[j]), First, session.jobs[j])
               /\ Outcome(j) = f[Len(session.jobs[j])]
  BY <1>1, OutcomeRuns
<1>3. Len(session.jobs[j]) \in 0 .. Len(session.jobs[j])
  BY <1>1
<1> QED BY <1>2, <1>3, TracedRun

\* With whole records and unique values only a reference can be the reason.
LEMMA OnlyReference ==
    ASSUME WholeRecords, UniqueValues, session \in Sessions, NEW x, Traced(x.db),
           NEW j \in Job, NEW n \in DOMAIN session.jobs[j]
    PROVE  LET c == session.jobs[j][n]
           IN  Rejection(x.db, c.entity, c.id, c.record) \in {"none", "reference"}
<1> DEFINE c == session.jobs[j][n]
           e == c.entity
           i == c.id
           r == c.record
           new == Inserted(e, r)
           b == [entity |-> e, id |-> i, row |-> new]
<1>1. \A col \in NotNull(e) : new[col] # Null
  BY DEF WholeRecords, Job
<1>2. b \in Contents(session)
  BY ChunkContent
<1> HIDE DEF c, e, i, r
<1>3. ASSUME NEW col \in TableOf[e].unique, NEW s \in x.db, s.entity = e, s.row[col] = new[col]
      PROVE  s.id = i
  <2>1. PICK a \in Contents(session) : a.entity = e /\ a.id = s.id /\ a.row[col] = s.row[col]
    BY <1>3 DEF Traced
  <2>2. a.entity = b.entity /\ a.row[col] = b.row[col] /\ col \in TableOf[a.entity].unique
    BY <1>3, <2>1
  <2>3. a.id = b.id
    BY <1>2, <2>2 DEF UniqueValues
  <2> QED BY <2>1, <2>3
<1>4. Rejection(x.db, e, i, r) \in {"none", "reference"}
  BY <1>1, <1>3 DEF Rejection
<1> QED BY <1>4 DEF c, e, i, r

LEMMA ReferenceRun ==
    ASSUME WholeRecords, UniqueValues, session \in Sessions, WellFormed(db), Traced(db),
           NEW j \in Job, NEW f, Run(f, Len(session.jobs[j]), First, session.jobs[j])
    PROVE  \A m \in 0 .. Len(session.jobs[j]) : f[m].error \in {"none", "reference"}
<1> DEFINE n == Len(session.jobs[j])
           T == {m \in 0 .. n : f[m].error \in {"none", "reference"}}
<1>1. n \in Nat /\ DOMAIN session.jobs[j] = 1 .. n
  BY JobChunks
<1>2. f[0] = First /\ \A m \in 0 .. n : m # 0 => f[m] = Step(f[m - 1], session.jobs[j][m])
  BY <1>1, RunSteps
<1>3. \A m \in 0 .. n : Result(f[m]) /\ Traced(f[m].db)
  BY RunResults, TracedRun
<1> HIDE DEF n
<1>4. 0 \in T
  BY <1>1, <1>2 DEF First
<1>5. ASSUME NEW m \in 0 .. n, m # 0, m - 1 \in T PROVE m \in T
  <2> DEFINE c == session.jobs[j][m]
             x == f[m - 1]
  <2>1. m \in DOMAIN session.jobs[j] /\ m - 1 \in 0 .. n /\ c.entity \in Entity
    BY <1>1, <1>5, JobChunks
  <2>2. Result(x) /\ Traced(x.db) /\ x.error \in {"none", "reference"}
    BY <1>3, <1>5, <2>1
  <2>3. Rejection(x.db, c.entity, c.id, c.record) \in {"none", "reference"}
    BY <2>1, <2>2, OnlyReference
  <2>4. f[m] = Step(x, c)
    BY <1>2, <1>5
  <2> HIDE DEF T, c, x
  <2>5. f[m].error \in {"none", "reference"}
    BY <2>1, <2>2, <2>3, <2>4, StepCases
  <2> QED BY <2>5 DEF T
<1> HIDE DEF T
<1>6. \A m \in 0 .. n : m \in T
  BY <1>1, <1>4, <1>5, ReachesAll
<1> QED BY <1>6 DEF T, n

LEMMA ReferenceOutcome ==
    ASSUME WholeRecords, UniqueValues, session \in Sessions, WellFormed(db), Traced(db),
           NEW j \in Job
    PROVE  Outcome(j).error \in {"none", "reference"}
<1>1. Len(session.jobs[j]) \in Nat
  BY JobChunks
<1>2. PICK f : /\ Run(f, Len(session.jobs[j]), First, session.jobs[j])
               /\ Outcome(j) = f[Len(session.jobs[j])]
  BY <1>1, OutcomeRuns
<1>3. Len(session.jobs[j]) \in 0 .. Len(session.jobs[j])
  BY <1>1
<1> QED BY <1>2, <1>3, ReferenceRun

-----------------------------------------------------------------------------
(* The theorems about jobs *)

LEMMA TracedStart == Init => Traced(db)
<1> SUFFICES ASSUME Init PROVE Traced(db)
  OBVIOUS
<1>1. db = session.rows
  BY DEF Init
<1>2. ASSUME NEW s \in db, NEW col \in TableOf[s.entity].unique
      PROVE  \E a \in Contents(session) :
                a.entity = s.entity /\ a.id = s.id /\ a.row[col] = s.row[col]
  <2>1. [entity |-> s.entity, id |-> s.id, row |-> s.row] \in Contents(session)
    BY <1>1 DEF Contents
  <2> QED BY <2>1
<1> QED BY <1>2 DEF Traced

LEMMA TracedStep == PushInv /\ Traced(db) /\ [Next]_vars => Traced(db)'
<1> SUFFICES ASSUME PushInv, Traced(db), [Next]_vars PROVE Traced(db)'
  OBVIOUS
<1>1. session' = session /\ (db' = db \/ \E j \in Job : db' = Outcome(j).db)
  BY DEF Next, vars, Store, Reject, MarkCompleted, Redeliver
<1>2. Traced(db')
  BY <1>1, TracedOutcome DEF PushInv
<1> QED BY <1>1, <1>2 DEF Traced

LEMMA PushesTraced == Spec => [](PushInv /\ Traced(db))
<1>1. Init => PushInv /\ Traced(db)
  BY PushStart, TracedStart
<1>2. PushInv /\ Traced(db) /\ [Next]_vars => PushInv' /\ Traced(db)'
  BY PushStep, TracedStep
<1> QED BY <1>1, <1>2, PTL DEF Spec

\* Whatever the other jobs have done, a job whose references are stored, or stored by
\* its own earlier chunks, is not rejected for a reference.
THEOREM OrderedJobHasItsReferences ==
    Spec => [](\A j \in Job : Ordered(j) => Outcome(j).error # "reference")
<1>1. PushInv => \A j \in Job : Ordered(j) => Outcome(j).error # "reference"
  BY OrderedOutcome DEF PushInv
<1> QED BY <1>1, Pushes, PTL

\* It is accepted altogether when clients send what is NOT NULL and give no two rows
\* the same unique value: what a row has of such a value was pushed for that row, so
\* that no order of the jobs, redelivery or conflict gets one into another's way.
THEOREM OrderedJobAccepted ==
    ASSUME WholeRecords, UniqueValues
    PROVE  Spec => []OrderedJobIsAccepted
<1>1. PushInv /\ Traced(db) => OrderedJobIsAccepted
  <2> SUFFICES ASSUME PushInv, Traced(db), NEW j \in Job, Ordered(j)
               PROVE  Outcome(j).error = "none"
    BY DEF OrderedJobIsAccepted, Ordered
  <2>1. Outcome(j).error \in {"none", "reference"}
    BY ReferenceOutcome DEF PushInv
  <2>2. Outcome(j).error # "reference"
    BY OrderedOutcome DEF PushInv
  <2> QED BY <2>1, <2>2
<1> QED BY <1>1, PushesTraced, PTL

-----------------------------------------------------------------------------
(* One chunk again: what the row of an accepted chunk is, and the other rows *)

\* The row of chunk c has what c pushed, in the version that follows from it: a column
\* that the record leaves out is reset, except in a conflict.
Held(d, c) ==
    \E s \in d :
        /\ SameRow(s, c)
        /\ \A col \in DOMAIN c.record \ Frozen(c.entity) : s.row[col] = c.record[col]
        /\ c.entity # "sync_conflicto" => \A col \in Columns(c.entity) \ Frozen(c.entity) :
                s.row[col] = Inserted(c.entity, c.record)[col]
        /\ c.entity \in Versioned => s.version = c.base + 1

LEMMA KeptIsFrozen == \A e : Kept(e) \subseteq Frozen(e)
BY DEF Kept, Frozen, MaestrosKept, CatalogosKept, TramiteKept, TramiteDetalleKept,
       SeguridadKept, SucursalKept

LEMMA UpsertOthers ==
    ASSUME NEW d, WellFormed(d), NEW e, NEW i, NEW r, NEW s, ~(s.entity = e /\ s.id = i)
    PROVE  s \in Upsert(d, e, i, r) <=> s \in d
<1>1. s \in d => s \in Upsert(d, e, i, r)
  BY DEF Upsert
<1>2. s \in Upsert(d, e, i, r) => s \in d
  BY UpsertRows DEF UpsertedRow
<1> QED BY <1>1, <1>2

LEMMA UpsertHolds ==
    ASSUME NEW d, WellFormed(d), NEW c, c.entity \in Entity,
           DOMAIN c.record \subseteq Columns(c.entity),
           c.entity \in Versioned => Fits(d, c)
    PROVE  Held(Upsert(d, c.entity, c.id, c.record), c)
<1> DEFINE e == c.entity
           i == c.id
           r == c.record
           new == Upsert(d, e, i, r)
<1>1. PICK s \in new : s.entity = e /\ s.id = i
  BY UpsertKeeps DEF Has
<1>2. UpsertedRow(d, e, i, r, s)
  BY <1>1, UpsertRows
<1>3. SameRow(s, c)
  BY <1>1 DEF SameRow
<1>4. ASSUME NEW col \in DOMAIN r \ Frozen(e) PROVE s.row[col] = r[col]
  <2>1. col \in Columns(e) /\ col \notin Kept(e)
    BY <1>4, KeptIsFrozen
  <2>2. Inserted(e, r)[col] = r[col]
    BY <2>1, InsertedShape
  <2>3. s.row = Inserted(e, r) \/ \E o \in d : s.row = Updated(e, o.row, r)
    BY <1>2 DEF UpsertedRow
  <2>4. \A o \in d : Updated(e, o.row, r)[col] = r[col]
    BY <2>1, <2>2, UpdatedShape
  <2> QED BY <2>2, <2>3, <2>4
<1>5. ASSUME e # "sync_conflicto", NEW col \in Columns(e) \ Frozen(e)
      PROVE  s.row[col] = Inserted(e, r)[col]
  <2>1. s.row = Inserted(e, r) \/ \E o \in d : s.row = Updated(e, o.row, r)
    BY <1>2 DEF UpsertedRow
  <2>2. \A o \in d : Updated(e, o.row, r)[col] = Inserted(e, r)[col]
    BY <1>5, KeptIsFrozen, UpdatedShape
  <2> QED BY <2>1, <2>2
<1>6. ASSUME e \in Versioned PROVE s.version = c.base + 1
  <2>1. Fits(d, c)
    BY <1>6
  <2>2. CASE \A o \in d : ~(o.entity = e /\ o.id = i)
    <3>1. s.version = 1
      BY <1>2, <2>2 DEF UpsertedRow
    <3>2. c.base = 0
      BY <2>1, <2>2 DEF Fits, SameRow
    <3> QED BY <3>1, <3>2
  <2>3. ASSUME NEW o \in d, o.entity = e, o.id = i PROVE s.version = c.base + 1
    <3>1. PICK q \in d : q.entity = e /\ q.id = i /\ s.version = q.version + 1
      BY <1>2, <2>3 DEF UpsertedRow
    <3>2. PICK t \in d : SameRow(t, c) /\ t.version = c.base
      BY <2>1, <2>3 DEF Fits, SameRow
    <3>3. t = q
      BY <3>1, <3>2 DEF WellFormed, SameRow
    <3> QED BY <3>1, <3>2, <3>3
  <2> QED BY <2>2, <2>3
<1> QED BY <1>1, <1>3, <1>4, <1>5, <1>6 DEF Held

\* A chunk that raises no error leaves the other rows alone, and holds its own
\* unless it is in conflict.
LEMMA StepHolds ==
    ASSUME NEW x, Result(x), NEW c, c.entity \in Entity,
           DOMAIN c.record \subseteq Columns(c.entity), Step(x, c).error = "none"
    PROVE  /\ x.error = "none"
           /\ \A s : ~SameRow(s, c) => (s \in Step(x, c).db <=> s \in x.db)
           /\ Conflicts(x.db, c.entity, c.id, c.base) => Step(x, c) = x
           /\ (c.entity \in Versioned => Fits(x.db, c)) => Held(Step(x, c).db, c)
<1> DEFINE e == c.entity
           i == c.id
           r == c.record
<1>1. WellFormed(x.db)
  BY DEF Result
<1>3. \A s : ~SameRow(s, c) => (s \in Upsert(x.db, e, i, r) <=> s \in x.db)
  BY <1>1, UpsertOthers DEF SameRow
<1>4. (e \in Versioned => Fits(x.db, c)) => Held(Upsert(x.db, e, i, r), c)
  BY <1>1, UpsertHolds
<1>5. /\ x.error = "none"
      /\ \/ Conflicts(x.db, e, i, c.base) /\ Step(x, c) = x
         \/ Step(x, c).db = Upsert(x.db, e, i, r)
  BY StepCases
<1>6. Conflicts(x.db, e, i, c.base) => Step(x, c) = x
  BY DEF Step
<1>7. (e \in Versioned => Fits(x.db, c)) => ~Conflicts(x.db, e, i, c.base)
  <2> SUFFICES ASSUME e \in Versioned, Fits(x.db, c), NEW s \in x.db, s.entity = e, s.id = i
               PROVE  s.version = c.base
    BY DEF Conflicts
  <2>1. PICK t \in x.db : SameRow(t, c) /\ t.version = c.base
    BY DEF Fits, SameRow
  <2>2. t = s
    BY <1>1, <2>1 DEF WellFormed, SameRow
  <2> QED BY <2>1, <2>2
<1> HIDE DEF e, i, r
<1>8. \A s : ~SameRow(s, c) => (s \in Step(x, c).db <=> s \in x.db)
  BY <1>3, <1>5
<1>9. (e \in Versioned => Fits(x.db, c)) => Held(Step(x, c).db, c)
  BY <1>4, <1>5, <1>7
<1> QED BY <1>5, <1>6, <1>8, <1>9 DEF e, i

-----------------------------------------------------------------------------
(* A transaction that commits: what it leaves alone, and what it holds at its end *)

\* f is the run of a transaction through n chunks that commits.
Commits(f, n, chunks) ==
    /\ n \in Nat /\ DOMAIN chunks = 1 .. n /\ f[0] = First
    /\ \A m \in 1 .. n : /\ chunks[m].entity \in Entity
                         /\ DOMAIN chunks[m].record \subseteq Columns(chunks[m].entity)
                         /\ f[m] = Step(f[m - 1], chunks[m])
    /\ \A m \in 0 .. n : Result(f[m]) /\ f[m].error = "none"

LEMMA CommitRun ==
    ASSUME TableColumns, session \in Sessions, WellFormed(db), NEW j \in Job, NEW f,
           Run(f, Len(session.jobs[j]), First, session.jobs[j]),
           f[Len(session.jobs[j])].error = "none"
    PROVE  Commits(f, Len(session.jobs[j]), session.jobs[j])
<1> DEFINE n == Len(session.jobs[j])
           chunks == session.jobs[j]
<1>1. n \in Nat /\ DOMAIN chunks = 1 .. n /\ \A m \in 1 .. n : chunks[m].entity \in Entity
  BY JobChunks
<1>2. f[0] = First /\ \A m \in 0 .. n : m # 0 => f[m] = Step(f[m - 1], chunks[m])
  BY <1>1, RunSteps
<1>3. \A m \in 0 .. n : Result(f[m])
  BY RunResults
<1>4. \A m \in 1 .. n : DOMAIN chunks[m].record \subseteq Columns(chunks[m].entity)
  BY <1>1 DEF TableColumns, Job
<1>0. f[n].error = "none"
  OBVIOUS
<1> HIDE DEF n, chunks
<1>5. ASSUME NEW k \in 0 .. n PROVE f[k].error = "none"
  <2> DEFINE T == {m \in 0 .. n : m < k \/ f[m].error # "none"}
  <2> SUFFICES ASSUME f[k].error # "none" PROVE FALSE
    OBVIOUS
  <2>1. 0 \in T
    BY <1>1
  <2>2. ASSUME NEW m \in 0 .. n, m # 0, m - 1 \in T PROVE m \in T
    <3> SUFFICES ASSUME ~(m < k), m # k PROVE f[m].error # "none"
      OBVIOUS
    <3>1. m \in 1 .. n /\ m - 1 \in 0 .. n /\ ~(m - 1 < k)
      BY <1>1, <2>2
    <3>2. f[m - 1].error # "none" /\ f[m] = Step(f[m - 1], chunks[m])
      BY <1>2, <2>2, <3>1
    <3> QED BY <1>1, <1>3, <3>1, <3>2, StepCases
  <2> HIDE DEF T
  <2>3. \A m \in 0 .. n : m \in T
    BY <1>1, <2>1, <2>2, ReachesAll
  <2>4. f[n].error # "none"
    BY <1>1, <2>3 DEF T
  <2> QED BY <1>0, <2>4
<1>6. \A m \in 1 .. n : f[m] = Step(f[m - 1], chunks[m])
  BY <1>1, <1>2
<1>7. Commits(f, n, chunks)
  BY <1>1, <1>2, <1>3, <1>4, <1>5, <1>6 DEF Commits
<1> QED BY <1>7 DEF n, chunks

\* A row that the first m chunks are not about is as before.
LEMMA RunUntouched ==
    ASSUME NEW f, NEW n, NEW chunks, Commits(f, n, chunks), NEW m \in 0 .. n,
           NEW s, \A i \in 1 .. m : ~SameRow(s, chunks[i])
    PROVE  s \in f[m].db <=> s \in db
<1> DEFINE T == {k \in 0 .. n : k <= m => (s \in f[k].db <=> s \in db)}
<1>1. /\ n \in Nat /\ f[0] = First
      /\ \A k \in 1 .. n : /\ chunks[k].entity \in Entity
                           /\ DOMAIN chunks[k].record \subseteq Columns(chunks[k].entity)
                           /\ f[k] = Step(f[k - 1], chunks[k])
      /\ \A k \in 0 .. n : Result(f[k]) /\ f[k].error = "none"
  BY DEF Commits
<1>2. 0 \in T
  BY <1>1 DEF First
<1>3. ASSUME NEW k \in 0 .. n, k # 0, k - 1 \in T PROVE k \in T
  <2> SUFFICES ASSUME k <= m PROVE s \in f[k].db <=> s \in db
    OBVIOUS
  <2>1. k \in 1 .. n /\ k - 1 \in 0 .. n /\ k - 1 <= m /\ k \in 1 .. m
    BY <1>1, <1>3
  <2>2. s \in f[k - 1].db <=> s \in db
    BY <1>3, <2>1
  <2>3. s \in f[k].db <=> s \in f[k - 1].db
    <3> DEFINE x == f[k - 1]
               c == chunks[k]
    <3>1. /\ Result(x) /\ f[k] = Step(x, c) /\ f[k].error = "none" /\ c.entity \in Entity
          /\ DOMAIN c.record \subseteq Columns(c.entity) /\ ~SameRow(s, c)
      BY <1>1, <2>1
    <3> HIDE DEF x, c
    <3>2. s \in f[k].db <=> s \in x.db
      BY <3>1, StepHolds
    <3> QED BY <3>2 DEF x
  <2> QED BY <2>2, <2>3
<1> HIDE DEF T
<1>4. m \in T
  BY <1>1, <1>2, <1>3, ReachesAll
<1> QED BY <1>4 DEF T

\* Chunk m is based on what the transaction finds: the row is stored in that version
\* and no chunk before m is about it, or the last chunk before m about it made it.
Ready(chunks, m) ==
    \/ (\A k \in 1 .. m - 1 : ~SameRow(chunks[k], chunks[m])) /\ Fits(db, chunks[m])
    \/ \E k \in 1 .. m - 1 :
            /\ SameRow(chunks[k], chunks[m]) /\ chunks[m].base = chunks[k].base + 1
            /\ \A i \in k + 1 .. m - 1 : ~SameRow(chunks[i], chunks[m])

\* After chunk m its row is held until a later chunk is about it.
LEMMA RunHolds ==
    ASSUME NEW f, NEW n, NEW chunks, Commits(f, n, chunks),
           NEW V, \A m \in 1 .. n : chunks[m].entity \in Versioned /\ chunks[m].entity \in V
                                        => Ready(chunks, m)
    PROVE  \A m \in 0 .. n : \A k \in 1 .. m :
                /\ chunks[k].entity \in Versioned => chunks[k].entity \in V
                /\ \A i \in k + 1 .. m : ~SameRow(chunks[i], chunks[k])
                => Held(f[m].db, chunks[k])
<1> DEFINE Last(k, m) == /\ chunks[k].entity \in Versioned => chunks[k].entity \in V
                         /\ \A i \in k + 1 .. m : ~SameRow(chunks[i], chunks[k])
           T == {m \in 0 .. n : \A k \in 1 .. m : Last(k, m) => Held(f[m].db, chunks[k])}
<1>1. /\ n \in Nat /\ f[0] = First
      /\ \A m \in 1 .. n : /\ chunks[m].entity \in Entity
                           /\ DOMAIN chunks[m].record \subseteq Columns(chunks[m].entity)
                           /\ f[m] = Step(f[m - 1], chunks[m])
      /\ \A m \in 0 .. n : Result(f[m]) /\ f[m].error = "none"
  BY DEF Commits
<1>2. 0 \in T
  BY <1>1
<1>3. ASSUME NEW m \in 0 .. n, m # 0, m - 1 \in T PROVE m \in T
  <2> DEFINE c == chunks[m]
             x == f[m - 1]
  <2>1. m \in 1 .. n /\ m - 1 \in 0 .. n
    BY <1>1, <1>3
  <2>2. /\ Result(x) /\ f[m] = Step(x, c) /\ f[m].error = "none" /\ c.entity \in Entity
        /\ DOMAIN c.record \subseteq Columns(c.entity)
    BY <1>1, <2>1
  <2>3. \A k \in 1 .. m - 1 : Last(k, m - 1) => Held(x.db, chunks[k])
    BY <1>3
  <2> HIDE DEF T, x
  <2>4. \A s : ~SameRow(s, c) => (s \in f[m].db <=> s \in x.db)
    BY <2>2, StepHolds
  <2>5. ASSUME c.entity \in Versioned => c.entity \in V PROVE Held(f[m].db, c)
    <3>1. ASSUME c.entity \in Versioned PROVE Fits(x.db, c)
      <4>1. CASE (\A k \in 1 .. m - 1 : ~SameRow(chunks[k], c)) /\ Fits(db, c)
        <5>1. ASSUME NEW s, SameRow(s, c) PROVE s \in x.db <=> s \in db
          <6>1. \A k \in 1 .. m - 1 : ~SameRow(s, chunks[k])
            BY <4>1, <5>1 DEF SameRow
          <6>2. s \in f[m - 1].db <=> s \in db
            BY <2>1, <6>1, RunUntouched
          <6> QED BY <6>2 DEF x
        <5> QED BY <4>1, <5>1 DEF Fits
      <4>2. ASSUME NEW k \in 1 .. m - 1, SameRow(chunks[k], c), c.base = chunks[k].base + 1,
                   \A i \in k + 1 .. m - 1 : ~SameRow(chunks[i], c)
            PROVE  Fits(x.db, c)
        <5>1. chunks[k].entity = c.entity /\ chunks[k].id = c.id
          BY <4>2 DEF SameRow
        <5>2. \A i \in k + 1 .. m - 1 : ~SameRow(chunks[i], chunks[k])
          BY <4>2, <5>1 DEF SameRow
        <5>3. Held(x.db, chunks[k])
          BY <2>3, <2>5, <5>1, <5>2
        <5>4. PICK s \in x.db : SameRow(s, chunks[k]) /\ s.version = chunks[k].base + 1
          BY <3>1, <5>1, <5>3 DEF Held
        <5> QED BY <4>2, <5>1, <5>4 DEF Fits, SameRow
      <4>3. Ready(chunks, m)
        BY <2>1, <2>5, <3>1
      <4> QED BY <4>1, <4>2, <4>3 DEF Ready
    <3> HIDE DEF c
    <3> QED BY <2>2, <3>1, StepHolds
  <2>6. ASSUME NEW k \in 1 .. m, Last(k, m) PROVE Held(f[m].db, chunks[k])
    <3>1. CASE k = m
      BY <2>5, <2>6, <3>1
    <3>2. CASE k # m
      <4>1. k \in 1 .. m - 1 /\ m \in k + 1 .. m
        BY <2>1, <3>2
      <4>2. Last(k, m - 1)
        BY <2>1, <2>6
      <4>3. Held(x.db, chunks[k])
        BY <2>3, <4>1, <4>2
      <4>4. ~SameRow(c, chunks[k])
        BY <2>6, <4>1
      <4>5. \A s : SameRow(s, chunks[k]) => ~SameRow(s, c)
        BY <4>4 DEF SameRow
      <4> QED BY <2>4, <4>3, <4>5 DEF Held
    <3> QED BY <3>1, <3>2
  <2> HIDE DEF Last
  <2> QED BY <2>1, <2>6 DEF T
<1> HIDE DEF T
<1>4. \A m \in 0 .. n : m \in T
  BY <1>1, <1>2, <1>3, ReachesAll
<1> QED BY <1>4 DEF T, Last

\* A transaction that was stored before does nothing to a row with versions.
LEMMA RunStale ==
    ASSUME NEW f, NEW n, NEW chunks, Commits(f, n, chunks),
           \A m \in 1 .. n : chunks[m].entity \in Versioned =>
                \E s \in db : SameRow(s, chunks[m]) /\ s.version # chunks[m].base,
           NEW s, s.entity \in Versioned
    PROVE  s \in f[n].db <=> s \in db
<1> DEFINE T == {m \in 0 .. n : \A t : t.entity \in Versioned => (t \in f[m].db <=> t \in db)}
<1>1. /\ n \in Nat /\ f[0] = First
      /\ \A m \in 1 .. n : /\ chunks[m].entity \in Entity
                           /\ DOMAIN chunks[m].record \subseteq Columns(chunks[m].entity)
                           /\ f[m] = Step(f[m - 1], chunks[m])
      /\ \A m \in 0 .. n : Result(f[m]) /\ f[m].error = "none"
  BY DEF Commits
<1>2. 0 \in T
  BY <1>1 DEF First
<1>3. ASSUME NEW m \in 0 .. n, m # 0, m - 1 \in T PROVE m \in T
  <2> DEFINE c == chunks[m]
             x == f[m - 1]
  <2>1. m \in 1 .. n /\ m - 1 \in 0 .. n
    BY <1>1, <1>3
  <2>2. /\ Result(x) /\ f[m] = Step(x, c) /\ f[m].error = "none" /\ c.entity \in Entity
        /\ DOMAIN c.record \subseteq Columns(c.entity)
    BY <1>1, <2>1
  <2>3. \A t : t.entity \in Versioned => (t \in x.db <=> t \in db)
    BY <1>3
  <2>4. c.entity \in Versioned => \E t \in db : SameRow(t, c) /\ t.version # c.base
    BY <2>1
  <2> HIDE DEF T, x, c
  <2>5. \A t : ~SameRow(t, c) => (t \in f[m].db <=> t \in x.db)
    BY <2>2, StepHolds
  <2>6. CASE c.entity \in Versioned
    <3>1. Conflicts(x.db, c.entity, c.id, c.base)
      BY <2>3, <2>4, <2>6 DEF Conflicts, SameRow
    <3>2. f[m] = x
      BY <2>2, <3>1, StepHolds
    <3> QED BY <2>3, <3>2 DEF T
  <2>7. CASE c.entity \notin Versioned
    <3>1. \A t : t.entity \in Versioned => ~SameRow(t, c)
      BY <2>7 DEF SameRow
    <3> QED BY <2>3, <2>5, <3>1 DEF T
  <2> QED BY <2>6, <2>7
<1> HIDE DEF T
<1>4. \A m \in 0 .. n : m \in T
  BY <1>1, <1>2, <1>3, ReachesAll
<1> QED BY <1>1, <1>4 DEF T

-----------------------------------------------------------------------------
(* What the tables have of a session: the rows of its last chunks *)

\* Job j has been stored at least once.
Ran(j) == Done(j) \/ job[j].redelivered > 0

\* No chunk of a stored job comes after chunk n of job j and is about the same row.
IsLast(j, n) ==
    \A i \in Job : \A m \in DOMAIN session.jobs[i] :
        Before(j, n, i, m) /\ Ran(i) => ~SameRow(session.jobs[i][m], session.jobs[j][n])

\* A client that waits has completed the jobs before a stored one.
InTurn == session.waits => \A j \in Job : Ran(j) => \A i \in Job : i < j => job[i].status = "COMPLETED"

\* The last chunks of the stored jobs have their rows, ...
LastHeld ==
    \A j \in Job : \A n \in DOMAIN session.jobs[j] :
        Ran(j) /\ IsLast(j, n) => Held(db, session.jobs[j][n])

\* ... the other rows are as they were, and there are no others.
RowsKept ==
    \A s \in session.rows :
        \/ s \in db
        \/ \E j \in Job : Ran(j) /\ \E n \in DOMAIN session.jobs[j] : SameRow(s, session.jobs[j][n])

RowsKnown ==
    \A s \in db :
        \/ s \in session.rows
        \/ \E j \in Job : Ran(j) /\ \E n \in DOMAIN session.jobs[j] : SameRow(s, session.jobs[j][n])

ServedInv == PushInv /\ InTurn /\ LastHeld /\ RowsKept /\ RowsKnown

\* What is assumed of the clients.
Orderly == TableColumns /\ RowsApart /\ BasedOnLast

LEMMA SessionJobs ==
    ASSUME session \in Sessions
    PROVE  /\ Job \subseteq Nat
           /\ \A j \in Job : /\ Len(session.jobs[j]) \in Nat
                             /\ DOMAIN session.jobs[j] = 1 .. Len(session.jobs[j])
BY SessionsAssumption DEF Job

Earlier(i, m, j, n) == Before(i, m, j, n) /\ SameRow(session.jobs[i][m], session.jobs[j][n])

\* What chunk n of job j is based on.
BaseOf(j, n) ==
    /\ session.jobs[j][n].base \in Nat
    /\ \/ /\ \A i \in Job : \A m \in DOMAIN session.jobs[i] : ~Earlier(i, m, j, n)
          /\ Fits(session.rows, session.jobs[j][n])
       \/ \E i \in Job : \E m \in DOMAIN session.jobs[i] :
            /\ Earlier(i, m, j, n)
            /\ session.jobs[j][n].base = session.jobs[i][m].base + 1
            /\ \A k \in Job : \A l \in DOMAIN session.jobs[k] :
                Earlier(k, l, j, n) => session.jobs[k][l].base <= session.jobs[i][m].base

LEMMA ChunkBase ==
    ASSUME Orderly, session \in Sessions, NEW j \in Job, NEW n \in DOMAIN session.jobs[j],
           session.jobs[j][n].entity \in Versioned
    PROVE  BaseOf(j, n)
BY DEF Orderly, BasedOnLast, Job, Earlier, BaseOf

\* From chunk to chunk of the same row the bases grow.
LEMMA BaseGrows ==
    ASSUME Orderly, session \in Sessions, NEW j \in Job, NEW n \in DOMAIN session.jobs[j],
           session.jobs[j][n].entity \in Versioned,
           NEW i \in Job, NEW m \in DOMAIN session.jobs[i], Earlier(i, m, j, n)
    PROVE  /\ session.jobs[i][m].base \in Nat /\ session.jobs[j][n].base \in Nat
           /\ session.jobs[i][m].base < session.jobs[j][n].base
<1>1. session.jobs[i][m].entity \in Versioned
  BY DEF Earlier, SameRow
<1>2. session.jobs[i][m].base \in Nat
  BY <1>1, ChunkBase DEF BaseOf
<1>3. PICK k \in Job : \E l \in DOMAIN session.jobs[k] :
            /\ Earlier(k, l, j, n) /\ session.jobs[j][n].base = session.jobs[k][l].base + 1
            /\ session.jobs[i][m].base <= session.jobs[k][l].base
  BY ChunkBase DEF BaseOf
<1>4. PICK l \in DOMAIN session.jobs[k] :
            /\ Earlier(k, l, j, n) /\ session.jobs[j][n].base = session.jobs[k][l].base + 1
            /\ session.jobs[i][m].base <= session.jobs[k][l].base
  BY <1>3
<1>5. session.jobs[k][l].base \in Nat
  BY <1>4, ChunkBase DEF Earlier, SameRow, BaseOf
<1> DEFINE a == session.jobs[i][m].base
           b == session.jobs[j][n].base
           c == session.jobs[k][l].base
<1>6. a \in Nat /\ c \in Nat /\ b = c + 1 /\ a <= c
  BY <1>2, <1>4, <1>5
<1> HIDE DEF a, b, c
<1>7. a \in Nat /\ b \in Nat /\ a < b
  BY <1>6
<1> QED BY <1>7 DEF a, b

\* No later job about the same row was stored before job i is completed.
LEMMA NoneAhead ==
    ASSUME Orderly, session \in Sessions, InTurn, NEW i \in Job, job[i].status # "COMPLETED",
           NEW m \in DOMAIN session.jobs[i],
           NEW j \in Job, i < j, Ran(j), NEW n \in DOMAIN session.jobs[j]
    PROVE  ~SameRow(session.jobs[j][n], session.jobs[i][m])
<1>1. ~session.waits
  BY DEF InTurn
<1>2. i # j
  BY SessionJobs
<1> QED BY <1>1, <1>2 DEF Orderly, RowsApart, Job

LEMMA FirstReady ==
    ASSUME Orderly, ServedInv, NEW i \in Job, ~Ran(i), Begins(i),
           NEW m \in 1 .. Len(session.jobs[i]), session.jobs[i][m].entity \in Versioned
    PROVE  Ready(session.jobs[i], m)
<1> DEFINE c == session.jobs[i][m]
<1>1. /\ session \in Sessions /\ Job \subseteq Nat /\ InTurn
      /\ DOMAIN session.jobs[i] = 1 .. Len(session.jobs[i]) /\ Len(session.jobs[i]) \in Nat
      /\ job[i].status # "COMPLETED" /\ m \in DOMAIN session.jobs[i] /\ m \in Nat
  BY SessionJobs DEF ServedInv, PushInv, Ran, Done
<1>2. ASSUME NEW j \in Job, Ran(j), NEW n \in DOMAIN session.jobs[j],
             SameRow(session.jobs[j][n], c)
      PROVE  j < i /\ Earlier(j, n, i, m)
  <2>1. ~(i < j)
    BY <1>1, <1>2, NoneAhead
  <2>2. j \in Nat /\ i \in Nat /\ j # i
    BY <1>1, <1>2
  <2> QED BY <1>2, <2>1, <2>2 DEF Earlier, Before
<1>3. ASSUME NEW k \in 1 .. m - 1, SameRow(session.jobs[i][k], c)
      PROVE  k \in DOMAIN session.jobs[i] /\ Earlier(i, k, i, m)
  BY <1>1, <1>3 DEF Earlier, Before
<1>4. CASE /\ \A j \in Job : \A n \in DOMAIN session.jobs[j] : ~Earlier(j, n, i, m)
           /\ Fits(session.rows, c)
  <2>1. \A k \in 1 .. m - 1 : ~SameRow(session.jobs[i][k], c)
    BY <1>3, <1>4
  <2>2. \A j \in Job : Ran(j) => \A n \in DOMAIN session.jobs[j] : ~SameRow(session.jobs[j][n], c)
    BY <1>2, <1>4
  <2>3. ASSUME NEW s, SameRow(s, c) PROVE s \in db <=> s \in session.rows
    BY <2>2, <2>3 DEF ServedInv, RowsKept, RowsKnown, SameRow
  <2>4. Fits(db, c)
    BY <1>4, <2>3 DEF Fits
  <2> QED BY <2>1, <2>4 DEF Ready
<1>5. ASSUME NEW j \in Job, NEW k \in DOMAIN session.jobs[j], Earlier(j, k, i, m),
             c.base = session.jobs[j][k].base + 1,
             \A p \in Job : \A l \in DOMAIN session.jobs[p] :
                Earlier(p, l, i, m) => session.jobs[p][l].base <= session.jobs[j][k].base
      PROVE  Ready(session.jobs[i], m)
  <2>1. SameRow(session.jobs[j][k], c) /\ Before(j, k, i, m) /\ j \in Nat /\ i \in Nat
    BY <1>1, <1>5 DEF Earlier
  <2>2. ASSUME NEW p \in Job, NEW l \in DOMAIN session.jobs[p], Earlier(p, l, i, m)
        PROVE  ~Before(j, k, p, l)
    <3> SUFFICES ASSUME Before(j, k, p, l) PROVE FALSE
      OBVIOUS
    <3>1. SameRow(session.jobs[p][l], c)
      BY <2>2 DEF Earlier
    <3>2. Earlier(j, k, p, l) /\ session.jobs[p][l].entity \in Versioned
      BY <2>1, <3>1 DEF Earlier, SameRow
    <3>3. /\ session.jobs[j][k].base \in Nat /\ session.jobs[p][l].base \in Nat
          /\ session.jobs[j][k].base < session.jobs[p][l].base
      BY <1>1, <3>2, BaseGrows
    <3>4. session.jobs[p][l].base <= session.jobs[j][k].base
      BY <1>5, <2>2
    <3> QED BY <3>3, <3>4
  <2>3. CASE j = i
    <3>1. k \in 1 .. m - 1
      BY <1>1, <2>1, <2>3 DEF Before
    <3>2. ASSUME NEW p \in k + 1 .. m - 1 PROVE ~SameRow(session.jobs[i][p], c)
      <4> SUFFICES ASSUME SameRow(session.jobs[i][p], c) PROVE FALSE
        OBVIOUS
      <4>1. p \in 1 .. m - 1 /\ k < p
        BY <1>1, <3>1
      <4>2. Earlier(i, p, i, m) /\ p \in DOMAIN session.jobs[i]
        BY <1>3, <4>1
      <4> QED BY <2>2, <2>3, <4>1, <4>2 DEF Before
    <3> QED BY <1>5, <2>1, <2>3, <3>1, <3>2 DEF Ready
  <2>4. CASE j # i
    <3>1. j < i
      BY <2>1, <2>4 DEF Before
    <3>2. session.waits
      BY <1>1, <2>1, <2>4 DEF Orderly, RowsApart, Job
    <3>3. Ran(j)
      BY <3>1, <3>2 DEF Begins, Ran, Done
    <3>4. IsLast(j, k)
      <4> SUFFICES ASSUME NEW p \in Job, NEW l \in DOMAIN session.jobs[p],
                          Before(j, k, p, l), Ran(p), SameRow(session.jobs[p][l], session.jobs[j][k])
                   PROVE  FALSE
        BY DEF IsLast
      <4>1. SameRow(session.jobs[p][l], c)
        BY <2>1 DEF SameRow
      <4> QED BY <1>2, <2>2, <4>1
    <3>5. Held(db, session.jobs[j][k])
      BY <3>3, <3>4 DEF ServedInv, LastHeld
    <3>6. Fits(db, c)
      BY <1>5, <2>1, <3>5 DEF Held, Fits, SameRow
    <3>7. ASSUME NEW p \in 1 .. m - 1 PROVE ~SameRow(session.jobs[i][p], c)
      <4> SUFFICES ASSUME SameRow(session.jobs[i][p], c) PROVE FALSE
        OBVIOUS
      <4>1. Earlier(i, p, i, m) /\ p \in DOMAIN session.jobs[i]
        BY <1>3
      <4> QED BY <2>2, <3>1, <4>1 DEF Before
    <3> QED BY <3>6, <3>7 DEF Ready
  <2> QED BY <2>3, <2>4
<1>6. \/ /\ \A j \in Job : \A n \in DOMAIN session.jobs[j] : ~Earlier(j, n, i, m)
         /\ Fits(session.rows, c)
      \/ \E j \in Job : \E k \in DOMAIN session.jobs[j] :
            /\ Earlier(j, k, i, m) /\ c.base = session.jobs[j][k].base + 1
            /\ \A p \in Job : \A l \in DOMAIN session.jobs[p] :
                Earlier(p, l, i, m) => session.jobs[p][l].base <= session.jobs[j][k].base
  <2>1. BaseOf(i, m)
    BY <1>1, ChunkBase
  <2> QED BY <2>1 DEF BaseOf
<1> QED BY <1>4, <1>5, <1>6

\* A job has a last chunk of each row that it is about.
LEMMA LastOfJob ==
    ASSUME session \in Sessions, NEW i \in Job, NEW m \in DOMAIN session.jobs[i]
    PROVE  \E k \in DOMAIN session.jobs[i] :
                /\ m <= k /\ SameRow(session.jobs[i][m], session.jobs[i][k])
                /\ \A p \in k + 1 .. Len(session.jobs[i]) :
                        ~SameRow(session.jobs[i][p], session.jobs[i][k])
<1> DEFINE n == Len(session.jobs[i])
           chunks == session.jobs[i]
           T == {q \in 0 .. n : n - q \in m .. n /\ SameRow(chunks[m], chunks[n - q])}
<1>1. n \in Nat /\ DOMAIN chunks = 1 .. n /\ m \in 1 .. n
  BY SessionJobs
<1> HIDE DEF n, chunks
<1>2. T \in SUBSET Nat
  OBVIOUS
<1>3. n - m \in T
  <2>1. n - m \in 0 .. n /\ n - (n - m) = m
    BY <1>1
  <2> QED BY <1>1, <2>1 DEF SameRow
<1>4. PICK q \in T : \A r \in T : q <= r
  BY <1>2, <1>3, LeastOf
<1> DEFINE k == n - q
<1>5. k \in m .. n /\ k \in 1 .. n /\ SameRow(chunks[m], chunks[k])
  BY <1>1, <1>4
<1>6. ASSUME NEW p \in k + 1 .. n PROVE ~SameRow(chunks[p], chunks[k])
  <2> SUFFICES ASSUME SameRow(chunks[p], chunks[k]) PROVE FALSE
    OBVIOUS
  <2>1. n - p \in 0 .. n /\ n - (n - p) = p /\ p \in m .. n /\ n - p < q
    BY <1>1, <1>4, <1>5
  <2>2. SameRow(chunks[m], chunks[p])
    BY <1>5 DEF SameRow
  <2>3. n - p \in T
    BY <2>1, <2>2
  <2> QED BY <1>1, <1>4, <2>1, <2>3
<1> HIDE DEF k
<1>7. k \in 1 .. n /\ m <= k
  BY <1>1, <1>5
<1> QED BY <1>1, <1>5, <1>6, <1>7 DEF n, chunks

\* The last chunk of a job that was stored, and not completed, has its row.
LEMMA AgainLast ==
    ASSUME Orderly, ServedInv, NEW i \in Job, Ran(i), job[i].status # "COMPLETED",
           NEW k \in DOMAIN session.jobs[i],
           \A p \in k + 1 .. Len(session.jobs[i]) :
                ~SameRow(session.jobs[i][p], session.jobs[i][k])
    PROVE  Held(db, session.jobs[i][k])
<1>1. /\ session \in Sessions /\ Job \subseteq Nat /\ InTurn
      /\ DOMAIN session.jobs[i] = 1 .. Len(session.jobs[i]) /\ Len(session.jobs[i]) \in Nat
  BY SessionJobs DEF ServedInv, PushInv
<1>2. ASSUME NEW j \in Job, NEW n \in DOMAIN session.jobs[j], Before(i, k, j, n), Ran(j)
      PROVE  ~SameRow(session.jobs[j][n], session.jobs[i][k])
  <2>1. CASE i < j
    BY <1>1, <1>2, <2>1, NoneAhead
  <2>2. CASE i = j /\ k < n
    <3>1. n \in k + 1 .. Len(session.jobs[i])
      BY <1>1, <2>2
    <3> QED BY <2>2, <3>1
  <2> QED BY <1>2, <2>1, <2>2 DEF Before
<1>3. IsLast(i, k)
  BY <1>2 DEF IsLast
<1> QED BY <1>3 DEF ServedInv, LastHeld

LEMMA AgainStale ==
    ASSUME Orderly, ServedInv, NEW i \in Job, Ran(i), job[i].status # "COMPLETED",
           NEW m \in DOMAIN session.jobs[i], session.jobs[i][m].entity \in Versioned
    PROVE  \E s \in db : SameRow(s, session.jobs[i][m]) /\ s.version # session.jobs[i][m].base
<1>1. /\ session \in Sessions /\ Job \subseteq Nat
      /\ DOMAIN session.jobs[i] = 1 .. Len(session.jobs[i]) /\ Len(session.jobs[i]) \in Nat
  BY SessionJobs DEF ServedInv, PushInv
<1>2. PICK k \in DOMAIN session.jobs[i] :
            /\ m <= k /\ SameRow(session.jobs[i][m], session.jobs[i][k])
            /\ \A p \in k + 1 .. Len(session.jobs[i]) :
                    ~SameRow(session.jobs[i][p], session.jobs[i][k])
  BY <1>1, LastOfJob
<1>3. session.jobs[i][k].entity \in Versioned
  BY <1>2 DEF SameRow
<1>4. PICK s \in db : SameRow(s, session.jobs[i][k]) /\ s.version = session.jobs[i][k].base + 1
  BY <1>2, <1>3, AgainLast DEF Held
<1> DEFINE a == session.jobs[i][m].base
           b == session.jobs[i][k].base
<1>5. a \in Nat /\ b \in Nat /\ a <= b
  <2>1. CASE m = k
    BY <1>1, <1>3, <2>1, ChunkBase DEF BaseOf
  <2>2. CASE m # k
    <3>1. Earlier(i, m, i, k)
      BY <1>1, <1>2, <2>2 DEF Earlier, Before
    <3>2. a \in Nat /\ b \in Nat /\ a < b
      BY <1>1, <1>3, <3>1, BaseGrows
    <3> HIDE DEF a, b
    <3> QED BY <3>2
  <2> QED BY <2>1, <2>2
<1>6. s.version = b + 1
  BY <1>4
<1> HIDE DEF a, b
<1>7. s.version # a
  BY <1>5, <1>6
<1> QED BY <1>2, <1>4, <1>7 DEF SameRow, a

\* What a transaction that commits makes of the rows.
Stores(d, i) ==
    /\ \A s : (\A m \in DOMAIN session.jobs[i] : ~SameRow(s, session.jobs[i][m]))
                => (s \in d <=> s \in db)
    /\ \A m \in DOMAIN session.jobs[i] :
            (\A p \in m + 1 .. Len(session.jobs[i]) :
                ~SameRow(session.jobs[i][p], session.jobs[i][m])) => Held(d, session.jobs[i][m])

LEMMA OutcomeStores ==
    ASSUME Orderly, ServedInv, NEW i \in Job, job[i].status # "COMPLETED", Begins(i),
           Outcome(i).error = "none"
    PROVE  Stores(Outcome(i).db, i)
<1> DEFINE n == Len(session.jobs[i])
           chunks == session.jobs[i]
<1>1. session \in Sessions /\ WellFormed(db) /\ n \in Nat /\ DOMAIN chunks = 1 .. n
  BY SessionJobs DEF ServedInv, PushInv
<1>2. PICK f : Run(f, n, First, chunks) /\ Outcome(i) = f[n]
  BY <1>1, OutcomeRuns
<1>3. Commits(f, n, chunks)
  BY <1>1, <1>2, CommitRun DEF Orderly
<1>4. ~Ran(i) => \A m \in 1 .. n : chunks[m].entity \in Versioned => Ready(chunks, m)
  BY FirstReady
<1>5. Ran(i) => \A m \in 1 .. n : chunks[m].entity \in Versioned =>
            \E s \in db : SameRow(s, chunks[m]) /\ s.version # chunks[m].base
  BY <1>1, AgainStale
<1>6. Ran(i) => \A m \in 1 .. n : (\A p \in m + 1 .. n : ~SameRow(chunks[p], chunks[m]))
            => Held(db, chunks[m])
  BY <1>1, AgainLast
<1> HIDE DEF n, chunks
<1>7. ASSUME NEW s, \A m \in 1 .. n : ~SameRow(s, chunks[m]) PROVE s \in f[n].db <=> s \in db
  <2>1. n \in 0 .. n
    BY <1>1
  <2> QED BY <1>3, <1>7, <2>1, RunUntouched
<1>8. ASSUME NEW m \in 1 .. n, \A p \in m + 1 .. n : ~SameRow(chunks[p], chunks[m])
      PROVE  Held(f[n].db, chunks[m])
  <2>1. n \in 0 .. n
    BY <1>1
  <2>2. CASE ~Ran(i)
    <3>1. \A q \in 0 .. n : \A k \in 1 .. q :
            /\ chunks[k].entity \in Versioned => chunks[k].entity \in Versioned
            /\ \A p \in k + 1 .. q : ~SameRow(chunks[p], chunks[k])
            => Held(f[q].db, chunks[k])
      BY <1>3, <1>4, <2>2, RunHolds
    <3> QED BY <1>8, <2>1, <3>1
  <2>3. CASE Ran(i) /\ chunks[m].entity \notin Versioned
    <3> DEFINE V == {}
    <3>0. \A k \in 1 .. n : chunks[k].entity \in Versioned /\ chunks[k].entity \in V
                => Ready(chunks, k)
      OBVIOUS
    <3> HIDE DEF V
    <3>1. \A q \in 0 .. n : \A k \in 1 .. q :
            /\ chunks[k].entity \in Versioned => chunks[k].entity \in V
            /\ \A p \in k + 1 .. q : ~SameRow(chunks[p], chunks[k])
            => Held(f[q].db, chunks[k])
      BY <1>3, <3>0, RunHolds
    <3> QED BY <1>8, <2>1, <2>3, <3>1
  <2>4. CASE Ran(i) /\ chunks[m].entity \in Versioned
    <3>1. \A s : s.entity \in Versioned => (s \in f[n].db <=> s \in db)
      BY <1>3, <1>5, <2>4, RunStale
    <3>2. Held(db, chunks[m])
      BY <1>6, <1>8, <2>4
    <3> QED BY <2>4, <3>1, <3>2 DEF Held, SameRow
  <2> QED BY <2>2, <2>3, <2>4
<1>9. \A s : (\A m \in DOMAIN chunks : ~SameRow(s, chunks[m])) => (s \in f[n].db <=> s \in db)
  BY <1>1, <1>7
<1>10. \A m \in DOMAIN chunks : (\A p \in m + 1 .. n : ~SameRow(chunks[p], chunks[m]))
            => Held(f[n].db, chunks[m])
  BY <1>1, <1>8
<1> QED BY <1>2, <1>9, <1>10 DEF Stores, n, chunks

LEMMA ServedStore ==
    ASSUME Orderly, ServedInv, PushInv', session' = session,
           NEW i \in Job, job[i].status # "COMPLETED", Begins(i),
           \A j \in Job : Ran(j)' <=> (Ran(j) \/ j = i),
           \A j \in Job : job[j].status = "COMPLETED" => job'[j].status = "COMPLETED",
           Stores(db', i)
    PROVE  ServedInv'
<1>1. /\ session \in Sessions /\ Job \subseteq Nat /\ InTurn /\ LastHeld /\ RowsKept /\ RowsKnown
      /\ DOMAIN session.jobs[i] = 1 .. Len(session.jobs[i]) /\ Len(session.jobs[i]) \in Nat
  BY SessionJobs DEF ServedInv, PushInv
<1>2. Job' = Job
  BY DEF Job
<1>3. ASSUME session.waits, NEW j \in Job, Ran(j)', NEW k \in Job, k < j
      PROVE  job'[k].status = "COMPLETED"
  <2>1. CASE Ran(j)
    BY <1>1, <1>3, <2>1 DEF InTurn
  <2>2. CASE j = i
    BY <1>3, <2>2 DEF Begins
  <2> QED BY <1>3, <2>1, <2>2
<1>4. InTurn'
  BY <1>2, <1>3 DEF InTurn
<1>5. ASSUME NEW j \in Job, NEW n \in DOMAIN session.jobs[j], Ran(j)', IsLast(j, n)'
      PROVE  Held(db', session.jobs[j][n])
  <2>1. \A k \in Job : \A m \in DOMAIN session.jobs[k] :
            Before(j, n, k, m) /\ (Ran(k) \/ k = i)
                => ~SameRow(session.jobs[k][m], session.jobs[j][n])
    BY <1>2, <1>5 DEF IsLast
  <2>2. CASE j = i
    <3>1. \A p \in n + 1 .. Len(session.jobs[i]) :
            ~SameRow(session.jobs[i][p], session.jobs[i][n])
      BY <1>1, <2>1, <2>2 DEF Before
    <3> QED BY <2>2, <3>1 DEF Stores
  <2>3. CASE j # i
    <3>1. Ran(j) /\ IsLast(j, n)
      BY <1>5, <2>1, <2>3 DEF IsLast
    <3>2. Held(db, session.jobs[j][n])
      BY <1>1, <3>1 DEF LastHeld
    <3>3. ASSUME NEW m \in DOMAIN session.jobs[i]
          PROVE  ~SameRow(session.jobs[i][m], session.jobs[j][n])
      <4>1. CASE j < i
        BY <2>1, <4>1 DEF Before
      <4>2. CASE i < j
        <5>1. ~SameRow(session.jobs[j][n], session.jobs[i][m])
          BY <1>1, <3>1, <4>2, NoneAhead
        <5> QED BY <5>1 DEF SameRow
      <4> QED BY <1>1, <2>3, <4>1, <4>2
    <3>4. \A s : SameRow(s, session.jobs[j][n]) => (s \in db' <=> s \in db)
      BY <3>3 DEF Stores, SameRow
    <3> QED BY <3>2, <3>4 DEF Held
  <2> QED BY <2>2, <2>3
<1>6. LastHeld'
  BY <1>2, <1>5 DEF LastHeld
<1>7. ASSUME NEW s
      PROVE  \/ s \in db' <=> s \in db
             \/ \E j \in Job : Ran(j)' /\ \E n \in DOMAIN session.jobs[j] :
                    SameRow(s, session.jobs[j][n])
  BY DEF Stores
<1>8. RowsKept'
  BY <1>1, <1>2, <1>7 DEF RowsKept
<1>9. RowsKnown'
  BY <1>1, <1>2, <1>7 DEF RowsKnown
<1> QED BY <1>4, <1>6, <1>8, <1>9 DEF ServedInv

\* The other steps change neither the rows nor what has been stored.
LEMMA ServedKeep ==
    ASSUME ServedInv, PushInv', session' = session, db' = db,
           \A j \in Job : Ran(j)' <=> Ran(j),
           \A j \in Job : job[j].status = "COMPLETED" => job'[j].status = "COMPLETED"
    PROVE  ServedInv'
<1>1. Job' = Job /\ InTurn /\ LastHeld /\ RowsKept /\ RowsKnown
  BY DEF Job, ServedInv
<1>2. InTurn'
  BY <1>1 DEF InTurn
<1>3. \A j \in Job : \A n \in DOMAIN session.jobs[j] : IsLast(j, n)' => IsLast(j, n)
  BY <1>1 DEF IsLast
<1>4. LastHeld'
  BY <1>1, <1>3 DEF LastHeld, Held
<1>5. RowsKept' /\ RowsKnown'
  BY <1>1 DEF RowsKept, RowsKnown
<1> QED BY <1>2, <1>4, <1>5 DEF ServedInv

\* How the steps of job i change what is said of the jobs.
LEMMA JobSteps ==
    ASSUME PushInv, NEW i \in Job, Store(i) \/ Reject(i) \/ MarkCompleted(i) \/ Redeliver(i)
    PROVE  /\ session' = session
           /\ \A j \in Job : job[j].status = "COMPLETED" => job'[j].status = "COMPLETED"
           /\ \/ /\ job[i].status # "COMPLETED" /\ Begins(i) /\ Outcome(i).error = "none"
                 /\ db' = Outcome(i).db /\ \A j \in Job : Ran(j)' <=> (Ran(j) \/ j = i)
              \/ db' = db /\ \A j \in Job : Ran(j)' <=> Ran(j)
<1>1. /\ DOMAIN job = Job /\ \A j \in Job : DOMAIN job[j] = {"status", "attempts", "redelivered", "error"}
      /\ job[i].redelivered \in Nat
  BY DEF PushInv, AttemptsLeft, JobState
<1>2. CASE Store(i)
  <2>1. /\ \A j \in Job : j # i => job'[j] = job[j]
        /\ job'[i].status = "STORED" /\ job[i].status \in {"QUEUED", "FAILED"}
    BY <1>1, <1>2 DEF Store
  <2> QED BY <1>2, <2>1 DEF Store, Ran, Done
<1>3. CASE Reject(i)
  <2>1. \A j \in Job : j # i => job'[j] = job[j]
    BY <1>1, <1>3 DEF Reject
  <2>2. /\ job[i].status \in {"QUEUED", "FAILED"} /\ job'[i].redelivered = job[i].redelivered
        /\ job'[i].status \in {"DEAD_LETTER", "FAILED"}
    BY <1>1, <1>3 DEF Reject
  <2> QED BY <1>3, <2>1, <2>2 DEF Reject, Ran, Done
<1>4. CASE MarkCompleted(i)
  <2>1. /\ \A j \in Job : j # i => job'[j] = job[j]
        /\ job[i].status = "STORED" /\ job'[i].status = "COMPLETED"
    BY <1>1, <1>4 DEF MarkCompleted
  <2> QED BY <1>4, <2>1 DEF MarkCompleted, Ran, Done
<1>5. CASE Redeliver(i)
  <2>1. /\ \A j \in Job : j # i => job'[j] = job[j]
        /\ job[i].status = "STORED" /\ job'[i].redelivered = job[i].redelivered + 1
    BY <1>1, <1>5 DEF Redeliver
  <2>2. job'[i].redelivered > 0
    BY <1>1, <2>1
  <2> QED BY <1>5, <2>1, <2>2 DEF Redeliver, Ran, Done
<1> QED BY <1>2, <1>3, <1>4, <1>5

LEMMA ServedStep ==
    ASSUME Orderly
    PROVE  ServedInv /\ [Next]_vars => ServedInv'
<1> SUFFICES ASSUME ServedInv, [Next]_vars PROVE ServedInv'
  OBVIOUS
<1>1. PushInv /\ PushInv'
  BY PushStep DEF ServedInv
<1>2. CASE UNCHANGED vars
  <2>1. session' = session /\ db' = db /\ job' = job
    BY <1>2 DEF vars
  <2>2. \A j : Ran(j)' <=> Ran(j)
    BY <2>1 DEF Ran, Done
  <2> QED BY <1>1, <2>1, <2>2, ServedKeep
<1>3. ASSUME NEW i \in Job, Store(i) \/ Reject(i) \/ MarkCompleted(i) \/ Redeliver(i)
      PROVE  ServedInv'
  <2>1. /\ session' = session
        /\ \A j \in Job : job[j].status = "COMPLETED" => job'[j].status = "COMPLETED"
        /\ \/ /\ job[i].status # "COMPLETED" /\ Begins(i) /\ Outcome(i).error = "none"
              /\ db' = Outcome(i).db /\ \A j \in Job : Ran(j)' <=> (Ran(j) \/ j = i)
           \/ db' = db /\ \A j \in Job : Ran(j)' <=> Ran(j)
    BY <1>1, <1>3, JobSteps
  <2>2. CASE /\ job[i].status # "COMPLETED" /\ Begins(i) /\ Outcome(i).error = "none"
             /\ db' = Outcome(i).db /\ \A j \in Job : Ran(j)' <=> (Ran(j) \/ j = i)
    <3>1. Stores(db', i)
      BY <2>2, OutcomeStores
    <3> QED BY <1>1, <2>1, <2>2, <3>1, ServedStore
  <2>3. CASE db' = db /\ \A j \in Job : Ran(j)' <=> Ran(j)
    BY <1>1, <2>1, <2>3, ServedKeep
  <2> QED BY <2>1, <2>2, <2>3
<1> QED BY <1>2, <1>3 DEF Next

LEMMA ServedStart == Init => ServedInv
<1> SUFFICES ASSUME Init PROVE ServedInv
  OBVIOUS
<1>1. PushInv
  BY PushStart
<1>2. \A j \in Job : ~Ran(j)
  BY DEF Init, Ran, Done
<1>3. db = session.rows
  BY DEF Init
<1> QED BY <1>1, <1>2, <1>3 DEF ServedInv, InTurn, LastHeld, RowsKept, RowsKnown

\* A chunk whose job is completed is in the table, column by column, unless a later
\* one about the same row is: for clients that base a record on what the server had or
\* on what they pushed before, and that wait or leave a row to one job.
THEOREM PushedIsServed ==
    ASSUME TableColumns, RowsApart, BasedOnLast
    PROVE  Spec => []ServedAsPushed
<1>1. Orderly
  BY DEF Orderly
<1>2. ServedInv => ServedAsPushed
  <2> SUFFICES ASSUME ServedInv, NEW j \in Job, job[j].status = "COMPLETED",
                      NEW n \in DOMAIN session.jobs[j],
                      ~ \E i \in Job : \E m \in DOMAIN session.jobs[i] :
                            /\ (i = j /\ m > n) \/ (i > j /\ (Done(i) \/ job[i].redelivered > 0))
                            /\ SameRow(session.jobs[j][n], session.jobs[i][m])
               PROVE  \E s \in db : SameRow(s, session.jobs[j][n])
                        /\ \A col \in DOMAIN session.jobs[j][n].record
                                        \ Frozen(session.jobs[j][n].entity) :
                            s.row[col] = session.jobs[j][n].record[col]
    BY DEF ServedAsPushed
  <2>1. Ran(j)
    BY DEF Ran, Done
  <2>2. Job \subseteq Nat /\ DOMAIN session.jobs[j] \subseteq Nat
    BY SessionJobs DEF ServedInv, PushInv
  <2>3. IsLast(j, n)
    BY <2>2 DEF IsLast, Before, Ran, SameRow
  <2>4. Held(db, session.jobs[j][n])
    BY <2>1, <2>3 DEF ServedInv, LastHeld
  <2> QED BY <2>4 DEF Held
<1>3. ServedInv /\ [Next]_vars => ServedInv'
  BY <1>1, ServedStep
<1> QED BY <1>2, <1>3, ServedStart, PTL DEF Spec

-----------------------------------------------------------------------------
(* Orphans: the tables go from the rows of a session to what it ends with *)

\* A row of the tables and one that a session ends with are the same as far as
\* clients can change them.
Agree(a, s) ==
    /\ a.entity = s.entity /\ a.id = s.id
    /\ \A col \in Columns(s.entity) \ Frozen(s.entity) : a.row[col] = s.row[col]

Family == {"cliente", "vehiculo", "tramite", "tramite_detalle"}

LEMMA FamilyColumns ==
    /\ \A e \in Family : "deletedAt" \in Columns(e) \ Frozen(e)
    /\ "clienteId" \in Columns("tramite") \ Frozen("tramite")
    /\ "vehiculoId" \in Columns("tramite") \ Frozen("tramite")
    /\ "tramiteId" \in Columns("tramite_detalle") \ Frozen("tramite_detalle")
    /\ "tramiteId" \in NotNull("tramite_detalle")
    /\ "tramiteId" \notin TableOf["tramite_detalle"].defaults
<1>1. /\ TableOf["cliente"] = Cliente /\ TableOf["vehiculo"] = Vehiculo
      /\ TableOf["tramite"] = Tramite /\ TableOf["tramite_detalle"] = TramiteDetalle
  BY DEF TableOf
<1>2. "deletedAt" \in Cliente.optional /\ "deletedAt" \in Vehiculo.optional
  BY DEF Cliente, Vehiculo, Table
<1>3. /\ "deletedAt" \in Tramite.optional
      /\ "clienteId" \in Tramite.needs /\ "vehiculoId" \in Tramite.needs
  BY DEF Tramite, Table
<1>4. /\ "deletedAt" \in TramiteDetalle.optional
      /\ "tramiteId" \in TramiteDetalle.needs /\ "tramiteId" \notin TramiteDetalle.defaults
  BY DEF TramiteDetalle, Table
<1> QED BY <1>1, <1>2, <1>3, <1>4 DEF Family, Columns, NotNull, Frozen

\* Of each row that a session is about there is a last chunk.
LEMMA LastOfRow ==
    ASSUME session \in Sessions, NEW i \in Job, NEW m \in DOMAIN session.jobs[i]
    PROVE  \E j \in Job : \E n \in DOMAIN session.jobs[j] :
                /\ SameRow(session.jobs[i][m], session.jobs[j][n])
                /\ \A k \in Job : \A l \in DOMAIN session.jobs[k] :
                        Before(j, n, k, l) => ~SameRow(session.jobs[k][l], session.jobs[j][n])
<1> DEFINE N == Len(session.jobs)
           About(j) == \E n \in DOMAIN session.jobs[j] :
                            SameRow(session.jobs[i][m], session.jobs[j][n])
           T == {q \in 0 .. N : N - q \in Job /\ About(N - q)}
<1>1. N \in Nat /\ Job = 1 .. N
  BY SessionsAssumption DEF Job
<1>2. About(i)
  BY DEF SameRow
<1> HIDE DEF N, About
<1>3. T \in SUBSET Nat
  OBVIOUS
<1>4. N - i \in T
  <2>1. N - i \in 0 .. N /\ N - (N - i) = i
    BY <1>1
  <2> QED BY <1>2, <2>1
<1>5. PICK q \in T : \A r \in T : q <= r
  BY <1>3, <1>4, LeastOf
<1> DEFINE j == N - q
<1>6. j \in Job /\ About(j) /\ q \in 0 .. N
  BY <1>5
<1>7. ASSUME NEW k \in Job, j < k PROVE ~About(k)
  <2>1. N - k \in 0 .. N /\ N - (N - k) = k /\ N - k < q
    BY <1>1, <1>6, <1>7
  <2>2. N - k \notin T
    <3> HIDE DEF T
    <3>1. N - k \in T => q <= N - k
      BY <1>5
    <3> QED BY <1>1, <1>6, <2>1, <3>1
  <2> QED BY <2>1, <2>2
<1> HIDE DEF j
<1>8. PICK o \in DOMAIN session.jobs[j] : SameRow(session.jobs[i][m], session.jobs[j][o])
  BY <1>6 DEF About
<1>9. PICK n \in DOMAIN session.jobs[j] :
            /\ SameRow(session.jobs[j][o], session.jobs[j][n])
            /\ \A p \in n + 1 .. Len(session.jobs[j]) :
                    ~SameRow(session.jobs[j][p], session.jobs[j][n])
  BY <1>6, LastOfJob
<1>10. SameRow(session.jobs[i][m], session.jobs[j][n])
  BY <1>8, <1>9 DEF SameRow
<1>11. ASSUME NEW k \in Job, NEW l \in DOMAIN session.jobs[k], Before(j, n, k, l)
       PROVE  ~SameRow(session.jobs[k][l], session.jobs[j][n])
  <2>1. CASE j < k
    <3>1. ~SameRow(session.jobs[i][m], session.jobs[k][l])
      BY <1>7, <2>1 DEF About
    <3> QED BY <1>10, <3>1 DEF SameRow
  <2>2. CASE j = k /\ n < l
    <3>1. l \in n + 1 .. Len(session.jobs[j])
      BY <1>6, <2>2, SessionJobs
    <3> QED BY <1>9, <2>2, <3>1
  <2> QED BY <1>11, <2>1, <2>2 DEF Before
<1> QED BY <1>6, <1>10, <1>11

\* The last chunk of a row is what the session ends with, and what the row has once
\* the job is stored.
LEMMA LastChunkAgrees ==
    ASSUME Orderly, ServedInv, NEW j \in Job, NEW n \in DOMAIN session.jobs[j],
           \A k \in Job : \A l \in DOMAIN session.jobs[k] :
                Before(j, n, k, l) => ~SameRow(session.jobs[k][l], session.jobs[j][n]),
           session.jobs[j][n].entity # "sync_conflicto", Ran(j),
           NEW a, a = [entity |-> session.jobs[j][n].entity, id |-> session.jobs[j][n].id,
                       row |-> Inserted(session.jobs[j][n].entity, session.jobs[j][n].record)]
    PROVE  \E s \in db : Agree(a, s)
<1>1. IsLast(j, n)
  BY DEF IsLast
<1>2. Held(db, session.jobs[j][n])
  BY <1>1 DEF ServedInv, LastHeld
<1>3. PICK s \in db :
            /\ SameRow(s, session.jobs[j][n])
            /\ \A col \in Columns(session.jobs[j][n].entity) \ Frozen(session.jobs[j][n].entity) :
                s.row[col] = Inserted(session.jobs[j][n].entity, session.jobs[j][n].record)[col]
  BY <1>2 DEF Held
<1>4. /\ a.entity = session.jobs[j][n].entity /\ a.id = session.jobs[j][n].id
      /\ a.row = Inserted(session.jobs[j][n].entity, session.jobs[j][n].record)
  OBVIOUS
<1> QED BY <1>3, <1>4 DEF Agree, SameRow

LEMMA RowAtEnd ==
    ASSUME Orderly, ServedInv, NEW s \in db, s.entity # "sync_conflicto"
    PROVE  \/ \E j \in Job : ~Ran(j) /\ \E n \in DOMAIN session.jobs[j] :
                    SameRow(session.jobs[j][n], s)
           \/ \E a \in FinalRows(session) : Agree(a, s)
<1> SUFFICES ASSUME \A j \in Job : \A n \in DOMAIN session.jobs[j] :
                        SameRow(session.jobs[j][n], s) => Ran(j)
             PROVE  \E a \in FinalRows(session) : Agree(a, s)
  OBVIOUS
<1>1. session \in Sessions /\ WellFormed(db)
  BY DEF ServedInv, PushInv
<1>2. CASE \A j \in Job : \A n \in DOMAIN session.jobs[j] : ~SameRow(s, session.jobs[j][n])
  <2>1. s \in session.rows
    BY <1>2 DEF ServedInv, RowsKnown
  <2> DEFINE a == [entity |-> s.entity, id |-> s.id, row |-> s.row]
  <2>2. a \in FinalRows(session)
    BY <1>2, <2>1 DEF FinalRows, Job
  <2>3. a.entity = s.entity /\ a.id = s.id /\ a.row = s.row
    OBVIOUS
  <2> HIDE DEF a
  <2> QED BY <2>2, <2>3 DEF Agree
<1>3. ASSUME NEW i \in Job, NEW m \in DOMAIN session.jobs[i], SameRow(s, session.jobs[i][m])
      PROVE  \E a \in FinalRows(session) : Agree(a, s)
  <2>1. PICK j \in Job : \E n \in DOMAIN session.jobs[j] :
            /\ SameRow(session.jobs[i][m], session.jobs[j][n])
            /\ \A k \in Job : \A l \in DOMAIN session.jobs[k] :
                    Before(j, n, k, l) => ~SameRow(session.jobs[k][l], session.jobs[j][n])
    BY <1>1, LastOfRow
  <2>2. PICK n \in DOMAIN session.jobs[j] :
            /\ SameRow(session.jobs[i][m], session.jobs[j][n])
            /\ \A k \in Job : \A l \in DOMAIN session.jobs[k] :
                    Before(j, n, k, l) => ~SameRow(session.jobs[k][l], session.jobs[j][n])
    BY <2>1
  <2> DEFINE a == [entity |-> session.jobs[j][n].entity, id |-> session.jobs[j][n].id,
                   row |-> Inserted(session.jobs[j][n].entity, session.jobs[j][n].record)]
  <2>3. a \in FinalRows(session)
    BY <2>2 DEF FinalRows, Job
  <2>4. /\ s.entity = session.jobs[j][n].entity /\ s.id = session.jobs[j][n].id /\ Ran(j)
        /\ a.entity = s.entity /\ a.id = s.id
    BY <1>3, <2>2 DEF SameRow
  <2>5. PICK t \in db : Agree(a, t)
    BY <2>2, <2>4, LastChunkAgrees
  <2> HIDE DEF a
  <2>6. t = s
    BY <1>1, <2>4, <2>5 DEF Agree, WellFormed
  <2> QED BY <2>3, <2>5, <2>6
<1> QED BY <1>2, <1>3

LEMMA EndAtRow ==
    ASSUME Orderly, ServedInv, NEW a \in FinalRows(session), a.entity # "sync_conflicto"
    PROVE  \/ \E j \in Job : ~Ran(j) /\ \E n \in DOMAIN session.jobs[j] :
                    /\ SameRow(session.jobs[j][n], a)
                    /\ a.row = Inserted(a.entity, session.jobs[j][n].record)
           \/ \E s \in db : Agree(a, s)
<1>1. \/ \E r \in session.rows :
            /\ a = [entity |-> r.entity, id |-> r.id, row |-> r.row]
            /\ \A j \in Job : \A n \in DOMAIN session.jobs[j] : ~SameRow(r, session.jobs[j][n])
      \/ \E j \in Job : \E n \in DOMAIN session.jobs[j] :
            /\ a = [entity |-> session.jobs[j][n].entity, id |-> session.jobs[j][n].id,
                    row |-> Inserted(session.jobs[j][n].entity, session.jobs[j][n].record)]
            /\ \A k \in Job : \A l \in DOMAIN session.jobs[k] :
                    Before(j, n, k, l) => ~SameRow(session.jobs[k][l], session.jobs[j][n])
  BY DEF FinalRows, Job
<1>2. ASSUME NEW r \in session.rows, a = [entity |-> r.entity, id |-> r.id, row |-> r.row],
             \A j \in Job : \A n \in DOMAIN session.jobs[j] : ~SameRow(r, session.jobs[j][n])
      PROVE  \E s \in db : Agree(a, s)
  <2>1. r \in db
    BY <1>2 DEF ServedInv, RowsKept
  <2>2. a.entity = r.entity /\ a.id = r.id /\ a.row = r.row
    BY <1>2
  <2> QED BY <2>1, <2>2 DEF Agree
<1>3. ASSUME NEW j \in Job, NEW n \in DOMAIN session.jobs[j],
             a = [entity |-> session.jobs[j][n].entity, id |-> session.jobs[j][n].id,
                  row |-> Inserted(session.jobs[j][n].entity, session.jobs[j][n].record)],
             \A k \in Job : \A l \in DOMAIN session.jobs[k] :
                    Before(j, n, k, l) => ~SameRow(session.jobs[k][l], session.jobs[j][n])
      PROVE  \/ ~Ran(j) /\ SameRow(session.jobs[j][n], a)
                        /\ a.row = Inserted(a.entity, session.jobs[j][n].record)
             \/ \E s \in db : Agree(a, s)
  <2>1. /\ a.entity = session.jobs[j][n].entity /\ a.id = session.jobs[j][n].id
        /\ a.row = Inserted(session.jobs[j][n].entity, session.jobs[j][n].record)
    BY <1>3
  <2>2. CASE Ran(j)
    BY <1>3, <2>1, <2>2, LastChunkAgrees
  <2>3. CASE ~Ran(j)
    BY <2>1, <2>3 DEF SameRow
  <2> QED BY <2>2, <2>3
<1> QED BY <1>1, <1>2, <1>3

LEMMA LiveRow ==
    ASSUME NEW a, NEW s, Agree(a, s), s.entity \in Family
    PROVE  /\ a.entity = s.entity /\ a.id = s.id /\ a.row.deletedAt = s.row.deletedAt
           /\ s.entity = "tramite" => /\ a.row.clienteId = s.row.clienteId
                                      /\ a.row.vehiculoId = s.row.vehiculoId
           /\ s.entity = "tramite_detalle" => a.row.tramiteId = s.row.tramiteId
BY FamilyColumns DEF Agree

\* A live row is what the session ends with, or a chunk about it waits.
LEMMA LiveRowAtEnd ==
    ASSUME Orderly, ServedInv, NEW e \in Family, NEW s \in Live(e)
    PROVE  \/ \E j \in Job : ~Done(j) /\ \E c \in Chunks(j) : c.entity = e /\ c.id = s.id
           \/ \E a \in LiveAtEnd(session, e) : Agree(a, s)
<1>1. s \in db /\ s.entity = e /\ s.row.deletedAt \in {Null, Default} /\ e # "sync_conflicto"
  BY DEF Live, Family
<1>2. CASE \E a \in FinalRows(session) : Agree(a, s)
  BY <1>1, <1>2, LiveRow DEF LiveAtEnd
<1>3. CASE \E j \in Job : ~Ran(j) /\ \E n \in DOMAIN session.jobs[j] :
                SameRow(session.jobs[j][n], s)
  BY <1>1, <1>3 DEF Ran, Chunks, SameRow
<1> QED BY <1>1, <1>2, <1>3, RowAtEnd

\* What the session ends with is live in the tables, or the chunk that makes it waits.
LEMMA LiveEndAtRow ==
    ASSUME Orderly, ServedInv, NEW e \in Family, NEW a \in LiveAtEnd(session, e)
    PROVE  \/ \E j \in Job : ~Done(j) /\ \E c \in Chunks(j) :
                    c.entity = e /\ c.id = a.id /\ a.row = Inserted(e, c.record)
           \/ \E s \in Live(e) : Agree(a, s)
<1>1. /\ a \in FinalRows(session) /\ a.entity = e /\ a.row.deletedAt \in {Null, Default}
      /\ e # "sync_conflicto"
  BY DEF LiveAtEnd, Family
<1>2. ASSUME NEW s \in db, Agree(a, s) PROVE s \in Live(e)
  <2>1. s.entity = e
    BY <1>1, <1>2 DEF Agree
  <2>2. s.row.deletedAt = a.row.deletedAt
    BY <1>2, <2>1, LiveRow
  <2> QED BY <1>1, <2>1, <2>2 DEF Live
<1>3. CASE \E j \in Job : ~Ran(j) /\ \E n \in DOMAIN session.jobs[j] :
                /\ SameRow(session.jobs[j][n], a)
                /\ a.row = Inserted(a.entity, session.jobs[j][n].record)
  BY <1>1, <1>3 DEF Ran, Chunks, SameRow
<1> QED BY <1>1, <1>2, <1>3, EndAtRow

\* A detail names its tramite in the record.
LEMMA DetailNames ==
    ASSUME WholeRecords, session \in Sessions, NEW j \in Job, NEW c \in Chunks(j),
           c.entity = "tramite_detalle"
    PROVE  Inserted("tramite_detalle", c.record)["tramiteId"] = c.record.tramiteId
<1>1. Inserted(c.entity, c.record)["tramiteId"] # Null
  BY FamilyColumns DEF WholeRecords, Chunks, Job
<1>2. "tramiteId" \in Columns("tramite_detalle")
  BY FamilyColumns
<1> QED BY <1>1, <1>2, InsertedShape, FamilyColumns

LEMMA OrphansWait ==
    ASSUME Orderly, WholeRecords, EndsWhole, ServedInv
    PROVE  OrphansArePending
<1> DEFINE W(e, i) == \E j \in Job : ~Done(j) /\ \E c \in Chunks(j) : c.entity = e /\ c.id = i
           D(i) == \E j \in Job : ~Done(j) /\ \E c \in Chunks(j) :
                        c.entity = "tramite_detalle" /\ c.record.tramiteId = i
<1>1. session \in Sessions
  BY DEF ServedInv, PushInv
<1>2. /\ \A t \in LiveAtEnd(session, "tramite") :
            /\ \E d \in LiveAtEnd(session, "tramite_detalle") : d.row.tramiteId = t.id
            /\ \E c \in LiveAtEnd(session, "cliente") : c.id = t.row.clienteId
            /\ \E v \in LiveAtEnd(session, "vehiculo") : v.id = t.row.vehiculoId
      /\ \A d \in LiveAtEnd(session, "tramite_detalle") :
            \E t \in LiveAtEnd(session, "tramite") : t.id = d.row.tramiteId
  BY <1>1 DEF EndsWhole
<1>3. ASSUME NEW e \in Family, NEW s \in Live(e)
      PROVE  W(e, s.id) \/ \E a \in LiveAtEnd(session, e) : Agree(a, s)
  BY LiveRowAtEnd
<1>4. ASSUME NEW e \in Family, NEW a \in LiveAtEnd(session, e)
      PROVE  W(e, a.id) \/ \E s \in Live(e) : s.id = a.id
  BY LiveEndAtRow DEF Agree
<1>5. \A e \in Family : \A s \in Live(e) : s.entity = e
  BY DEF Live
<1>6. ASSUME NEW t \in TramitesSinDetalle PROVE W("tramite", t.id) \/ D(t.id)
  <2>1. t \in Live("tramite") /\ ~ \E d \in Live("tramite_detalle") : d.row.tramiteId = t.id
    BY DEF TramitesSinDetalle
  <2> SUFFICES ASSUME NEW a \in LiveAtEnd(session, "tramite"), Agree(a, t)
               PROVE  D(t.id)
    BY <1>3, <2>1 DEF Family
  <2>2. a.id = t.id
    BY DEF Agree
  <2>3. PICK b \in LiveAtEnd(session, "tramite_detalle") : b.row.tramiteId = t.id
    BY <1>2, <2>2
  <2>4. ASSUME NEW s \in Live("tramite_detalle"), Agree(b, s) PROVE FALSE
    <3>1. s.row.tramiteId = b.row.tramiteId
      BY <1>5, <2>4, LiveRow DEF Family
    <3> QED BY <2>1, <2>3, <3>1
  <2>5. PICK j \in Job : ~Done(j) /\ \E c \in Chunks(j) :
            /\ c.entity = "tramite_detalle"
            /\ b.row = Inserted("tramite_detalle", c.record)
    BY <2>4, LiveEndAtRow DEF Family
  <2>6. PICK c \in Chunks(j) : /\ c.entity = "tramite_detalle"
                               /\ b.row = Inserted("tramite_detalle", c.record)
    BY <2>5
  <2>7. c.record.tramiteId = t.id
    BY <1>1, <2>3, <2>6, DetailNames
  <2> QED BY <2>5, <2>6, <2>7
<1>7. ASSUME NEW t \in TramitesSinCliente
      PROVE  W("tramite", t.id) \/ W("cliente", t.row.clienteId)
  <2>1. t \in Live("tramite") /\ ~ \E c \in Live("cliente") : c.id = t.row.clienteId
    BY DEF TramitesSinCliente
  <2> SUFFICES ASSUME NEW a \in LiveAtEnd(session, "tramite"), Agree(a, t)
               PROVE  W("cliente", t.row.clienteId)
    BY <1>3, <2>1 DEF Family
  <2>2. a.row.clienteId = t.row.clienteId
    BY <1>5, <2>1, LiveRow DEF Family
  <2>3. PICK b \in LiveAtEnd(session, "cliente") : b.id = t.row.clienteId
    BY <1>2, <2>2
  <2> HIDE DEF W
  <2> QED BY <1>4, <2>1, <2>3 DEF Family
<1>8. ASSUME NEW t \in TramitesSinVehiculo
      PROVE  W("tramite", t.id) \/ W("vehiculo", t.row.vehiculoId)
  <2>1. t \in Live("tramite") /\ ~ \E v \in Live("vehiculo") : v.id = t.row.vehiculoId
    BY DEF TramitesSinVehiculo
  <2> SUFFICES ASSUME NEW a \in LiveAtEnd(session, "tramite"), Agree(a, t)
               PROVE  W("vehiculo", t.row.vehiculoId)
    BY <1>3, <2>1 DEF Family
  <2>2. a.row.vehiculoId = t.row.vehiculoId
    BY <1>5, <2>1, LiveRow DEF Family
  <2>3. PICK b \in LiveAtEnd(session, "vehiculo") : b.id = t.row.vehiculoId
    BY <1>2, <2>2
  <2> HIDE DEF W
  <2> QED BY <1>4, <2>1, <2>3 DEF Family
<1>9. ASSUME NEW d \in DetallesSinTramite
      PROVE  W("tramite", d.row.tramiteId) \/ W("tramite_detalle", d.id)
  <2>1. d \in Live("tramite_detalle") /\ ~ \E t \in Live("tramite") : t.id = d.row.tramiteId
    BY DEF DetallesSinTramite
  <2> SUFFICES ASSUME NEW a \in LiveAtEnd(session, "tramite_detalle"), Agree(a, d)
               PROVE  W("tramite", d.row.tramiteId)
    BY <1>3, <2>1 DEF Family
  <2>2. a.row.tramiteId = d.row.tramiteId
    BY <1>5, <2>1, LiveRow DEF Family
  <2>3. PICK b \in LiveAtEnd(session, "tramite") : b.id = d.row.tramiteId
    BY <1>2, <2>2
  <2> HIDE DEF W
  <2> QED BY <1>4, <2>1, <2>3 DEF Family
<1> QED BY <1>6, <1>7, <1>8, <1>9 DEF OrphansArePending

\* The orphans that the health endpoint counts, in whatever order the jobs of a session
\* are stored, are explained by one that has not been: when all are stored there is none.
THEOREM OrphansExplained ==
    ASSUME TableColumns, RowsApart, BasedOnLast, WholeRecords, EndsWhole
    PROVE  Spec => []OrphansArePending
<1>1. Orderly
  BY DEF Orderly
<1>2. ServedInv => OrphansArePending
  BY <1>1, OrphansWait
<1>3. ServedInv /\ [Next]_vars => ServedInv'
  BY <1>1, ServedStep
<1> QED BY <1>2, <1>3, ServedStart, PTL DEF Spec
=============================================================================

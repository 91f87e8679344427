-------------------------- MODULE SyncOutboxProofs --------------------------
(***************************************************************************)
(* Theorems of SyncOutbox, for any number of chunks, records, requests and  *)
(* workers, any workload and any number of faults of every kind: the types; *)
(* a completed row has its data committed, and a client that was told so    *)
(* can rely on it; of the writes that carry the same base version of a      *)
(* stored record at most one is accepted; what the retry policy reports;    *)
(* and the refinement of PushPromise.                                       *)
(***************************************************************************)
EXTENDS SyncOutbox, TLAPS

USE DEF Completed, Statuses, NoStatus, queueVars, dataVars, vars

-----------------------------------------------------------------------------
(* Frames: what assigning fields of one record of the state does and leaves *)

\* Request p moves to label l; its chunk, its payload and the others stay.
ReqMoved(p, l) ==
    /\ req' \in [Request -> ReqType]
    /\ req'[p].pc = l
    /\ req'[p].chunk = req[p].chunk
    /\ req'[p].payload = req[p].payload
    /\ \A q \in Request \ {p} : req'[q] = req[q]

LEMMA GotoFrame ==
    ASSUME req \in [Request -> ReqType], NEW p \in Request,
           NEW l \in {"create", "reread", "add", "mark", "done"}, Goto(p, l)
    PROVE  ReqMoved(p, l)
<1> DEFINE q == [req[p] EXCEPT !.pc = l]
<1>1. q \in ReqType /\ q.pc = l /\ q.chunk = req[p].chunk /\ q.payload = req[p].payload
  BY DEF ReqType
<1>2. req' = [req EXCEPT ![p] = q]
  BY DEF Goto
<1> HIDE DEF q
<1> QED BY <1>1, <1>2 DEF ReqMoved

LEMMA AnswerFrame ==
    ASSUME req \in [Request -> ReqType], NEW p \in Request,
           NEW e \in {"accepted", "conflict", "error"}, Answer(p, e)
    PROVE  ReqMoved(p, "done")
<1> DEFINE q == [req[p] EXCEPT !.pc = "done", !.reply = e]
<1>1. q \in ReqType /\ q.pc = "done" /\ q.chunk = req[p].chunk /\ q.payload = req[p].payload
  BY DEF ReqType
<1>2. req' = [req EXCEPT ![p] = q]
  BY DEF Answer
<1> HIDE DEF q
<1> QED BY <1>1, <1>2 DEF ReqMoved

LEMMA SeenFrame ==
    ASSUME req \in [Request -> ReqType], NEW p \in Request,
           NEW s \in Statuses \cup {NoStatus},
           req' = [req EXCEPT ![p] = [@ EXCEPT !.pc = "add", !.seen = s]]
    PROVE  ReqMoved(p, "add")
<1> DEFINE q == [req[p] EXCEPT !.pc = "add", !.seen = s]
<1>1. q \in ReqType /\ q.pc = "add" /\ q.chunk = req[p].chunk /\ q.payload = req[p].payload
  BY DEF ReqType
<1>2. req' = [req EXCEPT ![p] = q]
  OBVIOUS
<1> HIDE DEF q
<1> QED BY <1>1, <1>2 DEF ReqMoved

\* The status of row c becomes s; its payload and the other rows stay.
RowMoved(c, s) ==
    /\ row' \in [Chunk -> RowType]
    /\ row'[c].status = s
    /\ row'[c].payload = row[c].payload
    /\ \A d \in Chunk \ {c} : row'[d] = row[d]

LEMMA StatusFrame ==
    ASSUME row \in [Chunk -> RowType], NEW c \in Chunk, NEW s \in Statuses,
           row' = [row EXCEPT ![c].status = s]
    PROVE  /\ RowMoved(c, s)
           /\ row'[c].accepted = row[c].accepted
           /\ row'[c].conflicted = row[c].conflicted
<1> DEFINE q == [row[c] EXCEPT !.status = s]
<1>1. /\ q \in RowType /\ q.status = s /\ q.payload = row[c].payload
      /\ q.accepted = row[c].accepted /\ q.conflicted = row[c].conflicted
  BY DEF RowType
<1>2. row' = [row EXCEPT ![c] = q]
  OBVIOUS
<1> HIDE DEF q
<1> QED BY <1>1, <1>2 DEF RowMoved

LEMMA ResultFrame ==
    ASSUME row \in [Chunk -> RowType], NEW c \in Chunk, NEW s \in Statuses,
           NEW acc \in SUBSET Record, NEW con \in SUBSET Record,
           row' = [row EXCEPT ![c] = [@ EXCEPT !.status = s, !.accepted = acc,
                                               !.conflicted = con]]
    PROVE  RowMoved(c, s) /\ row'[c].accepted = acc /\ row'[c].conflicted = con
<1> DEFINE q == [row[c] EXCEPT !.status = s, !.accepted = acc, !.conflicted = con]
<1>1. /\ q \in RowType /\ q.status = s /\ q.payload = row[c].payload
      /\ q.accepted = acc /\ q.conflicted = con
  BY DEF RowType
<1>2. row' = [row EXCEPT ![c] = q]
  OBVIOUS
<1> HIDE DEF q
<1> QED BY <1>1, <1>2 DEF RowMoved

\* Worker w moves to label l; its job, what it has read and the others stay.
WorkerMoved(w, l) ==
    /\ wk' \in [Worker -> WorkerType]
    /\ wk'[w].pc = l
    /\ wk'[w].job = wk[w].job
    /\ wk'[w].attemptsMade = wk[w].attemptsMade
    /\ \A v \in Worker \ {w} : wk'[v] = wk[v]

LEMMA StepFrame ==
    ASSUME wk \in [Worker -> WorkerType], NEW w \in Worker,
           NEW l \in {"start", "split", "commit", "mark", "catch", "finish", "throw"}, Step(w, l)
    PROVE  WorkerMoved(w, l) /\ wk'[w].seen = wk[w].seen
<1> DEFINE q == [wk[w] EXCEPT !.pc = l]
<1>1. /\ q \in WorkerType /\ q.pc = l /\ q.job = wk[w].job /\ q.seen = wk[w].seen
      /\ q.attemptsMade = wk[w].attemptsMade
  BY DEF WorkerType
<1>2. wk' = [wk EXCEPT ![w] = q]
  BY DEF Step
<1> HIDE DEF q
<1> QED BY <1>1, <1>2 DEF WorkerMoved

LEMMA ReadFrame ==
    ASSUME wk \in [Worker -> WorkerType], NEW w \in Worker, NEW sn \in [Record -> Nat],
           wk' = [wk EXCEPT ![w] = [@ EXCEPT !.pc = "commit", !.seen = sn]]
    PROVE  WorkerMoved(w, "commit") /\ wk'[w].seen = sn
<1> DEFINE q == [wk[w] EXCEPT !.pc = "commit", !.seen = sn]
<1>1. /\ q \in WorkerType /\ q.pc = "commit" /\ q.job = wk[w].job /\ q.seen = sn
      /\ q.attemptsMade = wk[w].attemptsMade
  BY DEF WorkerType
<1>2. wk' = [wk EXCEPT ![w] = q]
  OBVIOUS
<1> HIDE DEF q
<1> QED BY <1>1, <1>2 DEF WorkerMoved

\* Worker w starts over with job j (Nil: none), at label l; the others stay.
WorkerReset(w, l, j) ==
    /\ wk' \in [Worker -> WorkerType]
    /\ wk'[w].pc = l
    /\ wk'[w].job = j
    /\ \A v \in Worker \ {w} : wk'[v] = wk[v]

LEMMA RetireFrame ==
    ASSUME wk \in [Worker -> WorkerType], NEW w \in Worker, Retire(w)
    PROVE  WorkerReset(w, "idle", Nil)
BY DEF Retire, IdleWorker, NoVersions, WorkerType, WorkerReset

LEMMA TakeFrame ==
    ASSUME wk \in [Worker -> WorkerType], NEW w \in Worker, NEW j \in Chunk, NEW n \in Nat,
           wk' = [wk EXCEPT ![w] = [IdleWorker EXCEPT !.pc = "load", !.job = j,
                                                      !.attemptsMade = n]]
    PROVE  WorkerReset(w, "load", j) /\ wk'[w].attemptsMade = n
BY DEF IdleWorker, NoVersions, WorkerType, WorkerReset

LEMMA JobFields ==
    ASSUME NEW q \in JobType
    PROVE  /\ NoJob \in JobType
           /\ [NoJob EXCEPT !.state = "waiting"] \in JobType
           /\ \A w \in Worker : [q EXCEPT !.state = "active", !.owner = w] \in JobType
           /\ \A st \in {"waiting", "completed", "failed"} : Unlocked(q, st) \in JobType
           /\ Spent(q) \in JobType
           /\ Redelivered(q) \in JobType
<1>1. NoJob \in JobType /\ [NoJob EXCEPT !.state = "waiting"] \in JobType
  BY DEF JobType, NoJob
<1>2. \A w \in Worker : [q EXCEPT !.state = "active", !.owner = w] \in JobType
  BY DEF JobType
<1>3. \A st \in {"waiting", "completed", "failed"} : Unlocked(q, st) \in JobType
  BY DEF JobType, Unlocked
<1>4. \A r \in JobType : /\ [r EXCEPT !.attemptsMade = @ + 1] \in JobType
                         /\ [r EXCEPT !.stalled = @ + 1] \in JobType
  BY DEF JobType
<1>5. Redelivered(q) \in JobType
  BY <1>3, <1>4 DEF Redelivered
<1>6. Spent(q) \in JobType
  BY <1>3, <1>4 DEF Spent
<1> QED BY <1>1, <1>2, <1>3, <1>5, <1>6

-----------------------------------------------------------------------------
(* Shape: types, and nothing refers to a chunk that has no row *)

Shape == TypeOK /\ RowsExist

\* The initial state has the shape.
LEMMA InitShape == Init => Shape
BY NilAssumption, VersionAssumption
   DEF Init, Shape, TypeOK, RowsExist, PayloadIffRow, JobHasRow, RequestHasRow, WorkerHasRow,
       NoRow, NoJob, IdleReq, IdleWorker, NoVersions, RowType, JobType, ReqType, WorkerType

\* The parts of the shape that a step leaves alone when it changes no row, or
\* only the status of a row that exists.
SameRows ==
    /\ row' \in [Chunk -> RowType]
    /\ \A c \in Chunk : /\ row'[c].payload = row[c].payload
                        /\ row'[c].status = NoStatus <=> row[c].status = NoStatus

LEMMA SameRowsMoved ==
    ASSUME Shape, NEW c \in Chunk, NEW s \in Statuses, RowMoved(c, s), row[c].payload # Nil
    PROVE  SameRows
<1>1. row[c].status # NoStatus
  BY DEF Shape, RowsExist, PayloadIffRow
<1> QED BY <1>1 DEF SameRows, RowMoved

LEMMA SameRowsUnchanged == ASSUME Shape, UNCHANGED row PROVE SameRows
BY DEF Shape, TypeOK, SameRows

LEMMA RowsFrame ==
    ASSUME Shape, SameRows
    PROVE  /\ PayloadIffRow'
           /\ UNCHANGED <<job, accepts>> => \A c \in Chunk : JobHasRow(c)'
           /\ \A p \in Request : req'[p] = req[p] => RequestHasRow(p)'
           /\ UNCHANGED req => \A p \in Request : RequestHasRow(p)'
           /\ \A w \in Worker : wk'[w] = wk[w] => WorkerHasRow(w)'
           /\ UNCHANGED wk => \A w \in Worker : WorkerHasRow(w)'
BY DEF Shape, RowsExist, SameRows, PayloadIffRow, JobHasRow, RequestHasRow, WorkerHasRow

\* A request that moves on past its INSERT, or is done, keeps its row.
LEMMA RequestRowsFrame ==
    ASSUME Shape, SameRows, NEW p \in Request, NEW l \in {"reread", "add", "mark", "done"},
           ReqMoved(p, l),
           l # "done" => req[p].chunk \in Chunk /\ row[req[p].chunk].payload # Nil
    PROVE  \A q \in Request : RequestHasRow(q)'
BY DEF Shape, RowsExist, SameRows, ReqMoved, RequestHasRow

\* Every step of a request keeps the shape (enqueue, createPending, markQueued).
LEMMA RequestShape ==
    ASSUME Shape, NEW p \in Request, RequestNext(p) \/ RequestFails(p)
    PROVE  Shape'
<1>t. /\ req \in [Request -> ReqType] /\ row \in [Chunk -> RowType]
      /\ job \in [Chunk -> JobType]
  BY DEF Shape, TypeOK
<1>r. RequestHasRow(p)
  BY DEF Shape, RowsExist
<1>1. CASE Find(p)
  <2>1. PICK c \in Chunk, h \in Payload,
             l \in {"create", "done", "add"}, e \in {"none", "accepted", "conflict"} :
          /\ req' = [req EXCEPT ![p] = ReqAt(l, c, h, row[c].status, e)]
          /\ l = "add" => row[c].payload = h
          /\ told' \in {told, told \cup {c}}
    BY <1>1 DEF Find
  <2>2. UNCHANGED <<row, job, kept, wk, version, rowLock, accepts, conflictLog, faults>>
    BY <1>1 DEF Find
  <2>3. SameRows
    BY <2>2, SameRowsUnchanged
  <2>4. ReqAt(l, c, h, row[c].status, e) \in ReqType
    BY <1>t DEF ReqAt, ReqType, RowType
  <2>5. TypeOK'
    BY <2>1, <2>2, <2>4 DEF Shape, TypeOK
  <2>6. RequestHasRow(p)'
    BY <1>t, <2>1, <2>2, NilAssumption DEF RequestHasRow, ReqAt
  <2>7. \A q \in Request : RequestHasRow(q)'
    BY <2>1, <2>3, <2>6, <1>t, RowsFrame
  <2> QED BY <2>2, <2>3, <2>5, <2>7, RowsFrame DEF Shape, RowsExist
<1>2. CASE Create(p)
  <2> DEFINE c == req[p].chunk
             new == [NoRow EXCEPT !.status = "PENDING", !.payload = req[p].payload]
  <2>1. req[p].pc = "create" /\ c \in Chunk /\ req[p].payload \in Payload
    BY <1>2, <1>r DEF Create, RequestHasRow
  <2>2. UNCHANGED <<job, kept, wk, version, rowLock, accepts, conflictLog, told, faults>>
    BY <1>2 DEF Create
  <2>3. CASE row[c].status = NoStatus
    <3>1. /\ row' = [row EXCEPT ![c] = new]
          /\ req' = [req EXCEPT ![p] = [@ EXCEPT !.pc = "add", !.seen = "PENDING"]]
      BY <1>2, <2>3 DEF Create
    <3>2. new \in RowType /\ new.payload # Nil /\ new.status # NoStatus
      BY <2>1, NilAssumption DEF NoRow, RowType
    <3> HIDE DEF new
    <3>3. ReqMoved(p, "add")
      BY <1>t, <3>1, SeenFrame
    <3>4. TypeOK'
      BY <3>1, <3>2, <3>3, <2>2, <2>1 DEF Shape, TypeOK, ReqMoved
    <3>5. /\ row'[c].payload # Nil /\ row'[c].status # NoStatus
          /\ \A d \in Chunk \ {c} : row'[d] = row[d]
      BY <1>t, <2>1, <3>1, <3>2
    <3>6. PayloadIffRow' /\ \A d \in Chunk : JobHasRow(d)'
      BY <3>5, <2>2 DEF Shape, RowsExist, PayloadIffRow, JobHasRow
    <3>7. \A q \in Request : RequestHasRow(q)'
      BY <3>3, <3>5, <2>1 DEF Shape, RowsExist, RequestHasRow, ReqMoved
    <3>8. \A w \in Worker : WorkerHasRow(w)'
      BY <3>5, <2>2 DEF Shape, RowsExist, WorkerHasRow
    <3> QED BY <3>4, <3>6, <3>7, <3>8 DEF Shape, RowsExist
  <2>4. CASE row[c].status # NoStatus
    <3>1. UNCHANGED row /\ Goto(p, "reread")
      BY <1>2, <2>4 DEF Create
    <3>2. ReqMoved(p, "reread") /\ SameRows
      BY <1>t, <3>1, GotoFrame, SameRowsUnchanged
    <3>3. row[c].payload # Nil
      BY <2>1, <2>4 DEF Shape, RowsExist, PayloadIffRow
    <3>4. \A q \in Request : RequestHasRow(q)'
      BY <2>1, <3>2, <3>3, RequestRowsFrame
    <3>5. TypeOK'
      BY <3>1, <3>2, <2>2 DEF Shape, TypeOK, ReqMoved
    <3> QED BY <2>2, <3>2, <3>4, <3>5, RowsFrame DEF Shape, RowsExist
  <2> QED BY <2>3, <2>4
<1>3. CASE Reread(p)
  <2> DEFINE s == row[req[p].chunk].status
  <2>1. /\ req[p].pc = "reread" /\ req[p].chunk \in Chunk /\ row[req[p].chunk].payload # Nil
        /\ req' = [req EXCEPT ![p] = [@ EXCEPT !.pc = "add", !.seen = s]]
        /\ UNCHANGED <<row, job, kept, wk, version, rowLock, accepts, conflictLog, told, faults>>
    BY <1>3, <1>r DEF Reread, RequestHasRow
  <2>2. s \in Statuses \cup {NoStatus}
    BY <1>t, <2>1 DEF RowType
  <2>3. ReqMoved(p, "add") /\ SameRows
    BY <1>t, <2>1, <2>2, SeenFrame, SameRowsUnchanged
  <2>4. TypeOK'
    BY <2>1, <2>3 DEF Shape, TypeOK, ReqMoved
  <2>5. \A q \in Request : RequestHasRow(q)'
    BY <2>1, <2>3, RequestRowsFrame
  <2> QED BY <2>1, <2>3, <2>4, <2>5, RowsFrame DEF Shape, RowsExist
<1>4. CASE Add(p)
  <2> DEFINE c == req[p].chunk
             new == [NoJob EXCEPT !.state = "waiting"]
  <2>1. c \in Chunk /\ row[c].payload # Nil
    BY <1>4, <1>r DEF Add, RequestHasRow
  <2>2. UNCHANGED <<row, kept, wk, version, rowLock, accepts, conflictLog, told, faults>>
    BY <1>4 DEF Add
  <2>3. SameRows
    BY <2>2, SameRowsUnchanged
  <2>4. ReqMoved(p, "done") \/ ReqMoved(p, "mark")
    BY <1>4, <1>t, AnswerFrame, GotoFrame DEF Add
  <2>5. job' = [job EXCEPT ![c] = new] \/ job' = job
    BY <1>4 DEF Add, AddJob
  <2>6. new \in JobType
    BY <1>t, <2>1, JobFields
  <2> HIDE DEF new
  <2>7. job' \in [Chunk -> JobType] /\ \A d \in Chunk \ {c} : job'[d] = job[d]
    BY <1>t, <2>5, <2>6
  <2>8. TypeOK'
    BY <2>2, <2>4, <2>7 DEF Shape, TypeOK, ReqMoved
  <2>9. \A d \in Chunk : JobHasRow(d)'
    BY <2>1, <2>2, <2>7 DEF Shape, RowsExist, JobHasRow
  <2>10. \A q \in Request : RequestHasRow(q)'
    BY <2>1, <2>3, <2>4, RequestRowsFrame
  <2> QED BY <2>2, <2>3, <2>8, <2>9, <2>10, RowsFrame DEF Shape, RowsExist
<1>5. CASE MarkQueued(p)
  <2> DEFINE c == req[p].chunk
  <2>1. c \in Chunk /\ row[c].payload # Nil
    BY <1>5, <1>r DEF MarkQueued, RequestHasRow
  <2>2. UNCHANGED <<job, kept, wk, version, rowLock, accepts, conflictLog, told, faults>>
    BY <1>5 DEF MarkQueued
  <2>3. RowMoved(c, "QUEUED")
    BY <1>5, <1>t, <2>1, StatusFrame DEF MarkQueued
  <2>4. ReqMoved(p, "done")
    BY <1>5, <1>t, AnswerFrame DEF MarkQueued
  <2>5. SameRows
    BY <2>1, <2>3, SameRowsMoved
  <2>6. TypeOK'
    BY <2>2, <2>3, <2>4 DEF Shape, TypeOK, ReqMoved, RowMoved
  <2>7. \A q \in Request : RequestHasRow(q)'
    BY <2>1, <2>4, <2>5, RequestRowsFrame
  <2> QED BY <2>2, <2>5, <2>6, <2>7, RowsFrame DEF Shape, RowsExist
<1>6. CASE RequestFails(p)
  <2>1. UNCHANGED <<row, job, kept, wk, version, rowLock, accepts, conflictLog, told>>
    BY <1>6 DEF RequestFails
  <2>2. ReqMoved(p, "done") /\ SameRows
    BY <1>6, <1>t, <2>1, AnswerFrame, SameRowsUnchanged DEF RequestFails
  <2>3. faults' \in Nat
    BY <1>6 DEF RequestFails, Fault, Shape, TypeOK
  <2>4. TypeOK'
    BY <2>1, <2>2, <2>3 DEF Shape, TypeOK, ReqMoved
  <2>5. \A q \in Request : RequestHasRow(q)'
    BY <2>2, RequestRowsFrame
  <2> QED BY <2>1, <2>2, <2>4, <2>5, RowsFrame DEF Shape, RowsExist
<1>7. QED
  BY <1>1, <1>2, <1>3, <1>4, <1>5, <1>6 DEF RequestNext

\* What a step of the queue that changes only jobs must show: it makes no job
\* for a chunk without a row.
LEMMA JobRowsFrame ==
    ASSUME Shape, UNCHANGED <<row, accepts>>,
           \A c \in Chunk : row[c].payload = Nil => job'[c].state \in {job[c].state, "none"}
    PROVE  \A c \in Chunk : JobHasRow(c)'
BY DEF Shape, RowsExist, JobHasRow

\* A worker that moves on, or is idle, keeps its row.
LEMMA WorkerRowsFrame ==
    ASSUME Shape, SameRows, NEW w \in Worker, NEW l, NEW j,
           \/ WorkerMoved(w, l) /\ wk[w].pc # "idle"
           \/ WorkerReset(w, "idle", j)
    PROVE  \A v \in Worker : WorkerHasRow(v)'
BY DEF Shape, RowsExist, SameRows, WorkerMoved, WorkerReset, WorkerHasRow

\* Every step of the queue, and the client's poll, keeps the shape.
LEMMA QueueShape ==
    ASSUME Shape,
           \/ \E c \in Chunk : GetStatus(c) \/ Stalled(c)
           \/ \E w \in Worker, c \in Chunk : Take(w, c)
           \/ \E w \in Worker : Finish(w) \/ Throw(w)
    PROVE  Shape'
<1>t. /\ wk \in [Worker -> WorkerType] /\ row \in [Chunk -> RowType]
      /\ job \in [Chunk -> JobType] /\ kept \in Seq(Chunk) /\ faults \in Nat
  BY DEF Shape, TypeOK
<1>1. ASSUME NEW c \in Chunk, GetStatus(c) PROVE Shape'
  <2>1. /\ told' = told \cup {c}
        /\ UNCHANGED <<row, job, kept, req, wk, version, rowLock, accepts, conflictLog, faults>>
    BY <1>1 DEF GetStatus
  <2>2. TypeOK'
    BY <2>1 DEF Shape, TypeOK
  <2> QED BY <2>1, <2>2, SameRowsUnchanged, RowsFrame DEF Shape, RowsExist
<1>2. ASSUME NEW c \in Chunk, Stalled(c) PROVE Shape'
  <2>1. UNCHANGED <<row, kept, req, wk, version, rowLock, accepts, conflictLog, told>>
    BY <1>2 DEF Stalled
  <2>2. faults' \in Nat
    <3>1. UNCHANGED faults \/ Fault("stall")
      BY <1>2 DEF Stalled
    <3> QED BY <1>t, <3>1 DEF Fault
  <2>3. /\ job' \in [Chunk -> JobType]
        /\ \A d \in Chunk \ {c} : job'[d] = job[d]
    <3>1. Redelivered(job[c]) \in JobType /\ Unlocked(job[c], "failed") \in JobType
      BY <1>t, JobFields
    <3>2. \/ job' = [job EXCEPT ![c] = Redelivered(job[c])]
          \/ job' = [job EXCEPT ![c] = Unlocked(job[c], "failed")]
      BY <1>2 DEF Stalled
    <3> QED BY <1>t, <3>1, <3>2
  <2>4. TypeOK'
    BY <2>1, <2>2, <2>3 DEF Shape, TypeOK
  <2>5. row[c].payload # Nil
    BY <1>2 DEF Stalled, Shape, RowsExist, JobHasRow
  <2>6. \A d \in Chunk : JobHasRow(d)'
    BY <2>1, <2>3, <2>5, JobRowsFrame
  <2> QED BY <2>1, <2>4, <2>6, SameRowsUnchanged, RowsFrame DEF Shape, RowsExist
<1>3. ASSUME NEW w \in Worker, NEW c \in Chunk, Take(w, c) PROVE Shape'
  <2>1. UNCHANGED <<row, kept, req, version, rowLock, accepts, conflictLog, told, faults>>
    BY <1>3 DEF Take
  <2>2. /\ job' \in [Chunk -> JobType]
        /\ \A d \in Chunk \ {c} : job'[d] = job[d]
    <3> DEFINE n == [job[c] EXCEPT !.state = "active", !.owner = w]
    <3>1. n \in JobType
      BY <1>t, JobFields
    <3>2. job' = [job EXCEPT ![c] = n]
      BY <1>3 DEF Take
    <3> HIDE DEF n
    <3> QED BY <1>t, <3>1, <3>2
  <2>3. row[c].payload # Nil
    BY <1>3 DEF Take, Shape, RowsExist, JobHasRow
  <2>4. WorkerReset(w, "load", c)
    <3>1. job[c].attemptsMade \in Nat
      BY <1>t DEF JobType
    <3> QED BY <1>3, <1>t, <3>1, TakeFrame DEF Take
  <2>5. TypeOK'
    BY <2>1, <2>2, <2>4 DEF Shape, TypeOK, WorkerReset
  <2>6. \A d \in Chunk : JobHasRow(d)'
    BY <2>1, <2>2, <2>3, JobRowsFrame
  <2>7. \A v \in Worker : WorkerHasRow(v)'
    BY <2>1, <2>3, <2>4 DEF Shape, RowsExist, WorkerHasRow, WorkerReset
  <2> QED BY <2>1, <2>5, <2>6, <2>7, SameRowsUnchanged, RowsFrame DEF Shape, RowsExist
<1>4. ASSUME NEW w \in Worker, Finish(w) PROVE Shape'
  <2> DEFINE j == wk[w].job
             log == Append(kept, j)
             n == Unlocked(job[j], "completed")
             done == [job EXCEPT ![j] = n]
  <2>1. UNCHANGED <<row, req, version, rowLock, accepts, conflictLog, told, faults>>
    BY <1>4 DEF Finish
  <2>2. WorkerReset(w, "idle", Nil)
    BY <1>4, <1>t, RetireFrame DEF Finish
  <2>3. wk[w].pc # "idle" /\ j \in Chunk /\ row[j].payload # Nil
    BY <1>4 DEF Finish, Shape, RowsExist, WorkerHasRow
  <2>4. log \in Seq(Chunk) /\ Tail(log) \in Seq(Chunk) /\ Head(log) \in Chunk
    <3>1. log \in Seq(Chunk) /\ log # <<>>
      BY <1>t, <2>3
    <3> HIDE DEF log
    <3> QED BY <3>1
  <2>5. n \in JobType /\ NoJob \in JobType /\ NoJob.state = "none"
    BY <1>t, <2>3, JobFields DEF NoJob
  <2>6. \/ job' = done /\ kept' = log
        \/ job' = [done EXCEPT ![Head(log)] = NoJob] /\ kept' = Tail(log)
        \/ job' = job /\ kept' = kept
    BY <1>4 DEF Finish
  <2> HIDE DEF n, log
  <2>7. job' \in [Chunk -> JobType] /\ kept' \in Seq(Chunk)
    BY <1>t, <2>3, <2>4, <2>5, <2>6
  <2>8. \A d \in Chunk : d # j => job'[d].state \in {job[d].state, "none"}
    BY <1>t, <2>3, <2>4, <2>5, <2>6
  <2>9. TypeOK'
    BY <2>1, <2>2, <2>7 DEF Shape, TypeOK, WorkerReset
  <2>10. \A d \in Chunk : JobHasRow(d)'
    BY <2>1, <2>3, <2>8, JobRowsFrame
  <2>11. SameRows
    BY <2>1, SameRowsUnchanged
  <2>12. \A v \in Worker : WorkerHasRow(v)'
    BY <2>2, <2>11, WorkerRowsFrame
  <2> QED BY <2>1, <2>9, <2>10, <2>11, <2>12, RowsFrame DEF Shape, RowsExist
<1>5. ASSUME NEW w \in Worker, Throw(w) PROVE Shape'
  <2> DEFINE j == wk[w].job
             n == Spent(job[j])
  <2>1. UNCHANGED <<row, kept, req, version, rowLock, accepts, conflictLog, told, faults>>
    BY <1>5 DEF Throw
  <2>2. WorkerReset(w, "idle", Nil)
    BY <1>5, <1>t, RetireFrame DEF Throw
  <2>3. wk[w].pc # "idle" /\ j \in Chunk /\ row[j].payload # Nil
    BY <1>5 DEF Throw, Shape, RowsExist, WorkerHasRow
  <2>4. n \in JobType
    BY <1>t, <2>3, JobFields
  <2>5. job' = [job EXCEPT ![j] = n] \/ job' = job
    BY <1>5 DEF Throw
  <2> HIDE DEF n
  <2>6. job' \in [Chunk -> JobType] /\ \A d \in Chunk \ {j} : job'[d] = job[d]
    BY <1>t, <2>3, <2>4, <2>5
  <2>7. TypeOK'
    BY <2>1, <2>2, <2>6 DEF Shape, TypeOK, WorkerReset
  <2>8. \A d \in Chunk : JobHasRow(d)'
    BY <2>1, <2>3, <2>6, JobRowsFrame
  <2>9. SameRows
    BY <2>1, SameRowsUnchanged
  <2>10. \A v \in Worker : WorkerHasRow(v)'
    BY <2>2, <2>9, WorkerRowsFrame
  <2> QED BY <2>1, <2>7, <2>8, <2>9, <2>10, RowsFrame DEF Shape, RowsExist
<1> QED BY <1>1, <1>2, <1>3, <1>4, <1>5

\* What a worker reads and writes is well typed.
LEMMA PayloadData ==
    ASSUME NEW h \in Payload, NEW seen \in [Record -> Nat]
    PROVE  /\ Touches[h] \in SUBSET Record
           /\ AcceptedOf(h, seen) \in SUBSET Record
           /\ ConflictedOf(h, seen) \in SUBSET Record
           /\ BaseVersion[h] \in [Record -> Nat]
BY TouchesAssumption, VersionAssumption DEF AcceptedOf, ConflictedOf

\* Worker w is at work on chunk c, whose row has payload h.
LEMMA AtWork ==
    ASSUME Shape, NEW w \in Worker, wk[w].pc # "idle"
    PROVE  /\ wk[w].job \in Chunk
           /\ row[wk[w].job].payload \in Payload
           /\ row[wk[w].job].payload # Nil
           /\ wk[w].seen \in [Record -> Nat]
BY DEF Shape, TypeOK, RowType, WorkerType, RowsExist, WorkerHasRow

LEMMA LockFrame ==
    ASSUME Shape, NEW w \in Worker, Unlock(w)
    PROVE  rowLock' \in [Record -> Worker \cup {Nil}]
BY DEF Shape, TypeOK, Unlock

\* Every step of process() keeps the shape.
LEMMA WorkerShape ==
    ASSUME Shape, NEW w \in Worker,
           \/ Load(w) \/ MarkProcessing(w) \/ Split(w) \/ Commit(w) \/ TxFails(w)
           \/ MarkCompleted(w) \/ MarkFailed(w) \/ OutboxFails(w) \/ Crash(w)
    PROVE  Shape'
<1> DEFINE c == wk[w].job
           h == row[c].payload
           seen == wk[w].seen
<1>t. /\ wk \in [Worker -> WorkerType] /\ row \in [Chunk -> RowType]
      /\ version \in [Record -> Nat] /\ faults \in Nat
      /\ rowLock \in [Record -> Worker \cup {Nil}]
      /\ accepts \in [Chunk -> [Record -> Nat]] /\ conflictLog \in [Chunk -> SUBSET Record]
  BY DEF Shape, TypeOK
<1>p. wk[w].pc # "idle"
  BY DEF Load, MarkProcessing, Split, Commit, TxFails, MarkCompleted, MarkFailed,
         OutboxFails, Crash
<1>w. c \in Chunk /\ h \in Payload /\ h # Nil /\ seen \in [Record -> Nat]
  BY <1>p, AtWork
<1> HIDE DEF c, h, seen
<1>s. ASSUME SameRows, TypeOK', UNCHANGED <<job, accepts, req>>,
             (\E l : WorkerMoved(w, l)) \/ WorkerReset(w, "idle", Nil)
      PROVE  Shape'
  BY <1>s, <1>p, RowsFrame, WorkerRowsFrame DEF Shape, RowsExist
<1>1. CASE Load(w)
  <2>1. UNCHANGED <<row, job, kept, req, version, rowLock, accepts, conflictLog, told, faults>>
    BY <1>1 DEF Load
  <2>2. WorkerMoved(w, "finish") \/ WorkerMoved(w, "start")
    BY <1>1, <1>t, StepFrame DEF Load
  <2>3. TypeOK'
    BY <2>1, <2>2 DEF Shape, TypeOK, WorkerMoved
  <2> QED BY <2>1, <2>2, <2>3, <1>s, SameRowsUnchanged
<1>2. CASE MarkProcessing(w)
  <2>1. UNCHANGED <<job, kept, req, version, rowLock, accepts, conflictLog, told, faults>>
    BY <1>2 DEF MarkProcessing
  <2>2. WorkerMoved(w, "split") /\ RowMoved(c, "PROCESSING")
    BY <1>2, <1>t, <1>w, StepFrame, StatusFrame DEF MarkProcessing, c
  <2>3. TypeOK'
    BY <2>1, <2>2 DEF Shape, TypeOK, WorkerMoved, RowMoved
  <2> QED BY <2>1, <2>2, <2>3, <1>s, <1>w, SameRowsMoved DEF h
<1>3. CASE Split(w)
  <2> DEFINE rows == IF h \in Blind THEN {} ELSE {r \in Touches[h] : Exists(r)}
             sn == [r \in Record |-> IF r \in rows THEN version[r] ELSE 0]
  <2>1. UNCHANGED <<row, job, kept, req, version, accepts, conflictLog, told, faults>>
    BY <1>3 DEF Split
  <2>2. sn \in [Record -> Nat]
    BY <1>t
  <2>3. /\ wk' = [wk EXCEPT ![w] = [@ EXCEPT !.pc = "commit", !.seen = sn]]
        /\ rowLock' = [r \in Record |-> IF r \in rows THEN w ELSE rowLock[r]]
    BY <1>3 DEF Split, c, h
  <2>4. WorkerMoved(w, "commit")
    <3> HIDE DEF sn
    <3> QED BY <1>t, <2>2, <2>3, ReadFrame
  <2>5. rowLock' \in [Record -> Worker \cup {Nil}]
    BY <1>t, <2>3
  <2>6. TypeOK'
    BY <2>1, <2>4, <2>5 DEF Shape, TypeOK, WorkerMoved
  <2> QED BY <2>1, <2>4, <2>6, <1>s, SameRowsUnchanged
<1>4. CASE Commit(w)
  <2> DEFINE acc == AcceptedOf(h, seen)
             new == [r \in Record |-> IF r \in acc THEN accepts[c][r] + 1 ELSE accepts[c][r]]
  <2>1. UNCHANGED <<row, job, kept, req, told, faults>>
    BY <1>4 DEF Commit
  <2>2. WorkerMoved(w, "mark")
    BY <1>4, <1>t, StepFrame DEF Commit
  <2>3. /\ version' = IF h \in Blind THEN version
                      ELSE [r \in Record |-> IF r \in acc THEN seen[r] + 1 ELSE version[r]]
        /\ accepts' = [accepts EXCEPT ![c] = new]
        /\ conflictLog' = [conflictLog EXCEPT ![c] = @ \cup ConflictedOf(h, seen)]
        /\ Unlock(w)
    BY <1>4 DEF Commit, c, h, seen
  <2>4. version' \in [Record -> Nat]
    BY <2>3, <1>t, <1>w
  <2>5. accepts' \in [Chunk -> [Record -> Nat]]
    <3>1. new \in [Record -> Nat]
      BY <1>t, <1>w
    <3> HIDE DEF new
    <3> QED BY <2>3, <3>1, <1>t
  <2>6. conflictLog' \in [Chunk -> SUBSET Record]
    BY <2>3, <1>t, <1>w, PayloadData
  <2>7. TypeOK'
    BY <2>1, <2>2, <2>3, <2>4, <2>5, <2>6, LockFrame DEF Shape, TypeOK, WorkerMoved
  <2>8. \A d \in Chunk : JobHasRow(d)'
    <3>1. \A d \in Chunk \ {c} : accepts'[d] = accepts[d]
      BY <2>3, <1>t
    <3> QED BY <2>1, <3>1, <1>w DEF Shape, RowsExist, JobHasRow, h
  <2>9. SameRows
    BY <2>1, SameRowsUnchanged
  <2>10. \A v \in Worker : WorkerHasRow(v)'
    BY <2>2, <2>9, <1>p, WorkerRowsFrame
  <2> QED BY <2>1, <2>7, <2>8, <2>9, <2>10, RowsFrame DEF Shape, RowsExist
<1>5. CASE TxFails(w)
  <2>1. UNCHANGED <<row, job, kept, req, version, accepts, conflictLog, told, faults>>
    BY <1>5 DEF TxFails
  <2>2. WorkerMoved(w, "catch") /\ Unlock(w)
    BY <1>5, <1>t, StepFrame DEF TxFails
  <2>3. TypeOK'
    BY <2>1, <2>2, LockFrame DEF Shape, TypeOK, WorkerMoved
  <2> QED BY <2>1, <2>2, <2>3, <1>s, SameRowsUnchanged
<1>6. CASE MarkCompleted(w)
  <2>1. UNCHANGED <<job, kept, req, version, rowLock, accepts, conflictLog, told, faults>>
    BY <1>6 DEF MarkCompleted
  <2>2. WorkerMoved(w, "finish")
    BY <1>6, <1>t, StepFrame DEF MarkCompleted
  <2>3. \E s \in Statuses : RowMoved(c, s)
    <3> DEFINE acc == IF h \in Blind THEN {} ELSE AcceptedOf(h, seen)
               con == ConflictedOf(h, seen)
               s == IF con = {} THEN "COMPLETED" ELSE "COMPLETED_WITH_CONFLICTS"
    <3>1. row' = [row EXCEPT ![c] = [@ EXCEPT !.status = s, !.accepted = acc, !.conflicted = con]]
      BY <1>6 DEF MarkCompleted, c, h, seen
    <3>2. acc \in SUBSET Record /\ con \in SUBSET Record /\ s \in Statuses
      BY <1>w, PayloadData
    <3> HIDE DEF acc, con, s
    <3>3. RowMoved(c, s)
      BY <3>1, <3>2, <1>t, <1>w, ResultFrame
    <3> QED BY <3>2, <3>3
  <2>4. TypeOK'
    BY <2>1, <2>2, <2>3 DEF Shape, TypeOK, WorkerMoved, RowMoved
  <2> QED BY <2>1, <2>2, <2>3, <2>4, <1>s, <1>w, SameRowsMoved DEF h
<1>7. CASE MarkFailed(w)
  <2>1. UNCHANGED <<job, kept, req, version, rowLock, accepts, conflictLog, told, faults>>
    BY <1>7 DEF MarkFailed
  <2>2. WorkerMoved(w, "throw")
    BY <1>7, <1>t, StepFrame DEF MarkFailed
  <2>3. RowMoved(c, "FAILED") \/ RowMoved(c, "DEAD_LETTER")
    BY <1>7, <1>t, <1>w, StatusFrame DEF MarkFailed, c
  <2>4. TypeOK'
    BY <2>1, <2>2, <2>3 DEF Shape, TypeOK, WorkerMoved, RowMoved
  <2> QED BY <2>1, <2>2, <2>3, <2>4, <1>s, <1>w, SameRowsMoved DEF h
<1>8. CASE OutboxFails(w)
  <2>1. UNCHANGED <<row, job, kept, req, version, rowLock, accepts, conflictLog, told>>
    BY <1>8 DEF OutboxFails
  <2>2. WorkerMoved(w, "catch") \/ WorkerMoved(w, "throw")
    BY <1>8, <1>t, StepFrame DEF OutboxFails
  <2>3. faults' \in Nat
    BY <1>8, <1>t DEF OutboxFails, Fault
  <2>4. TypeOK'
    BY <2>1, <2>2, <2>3 DEF Shape, TypeOK, WorkerMoved
  <2> QED BY <2>1, <2>2, <2>4, <1>s, SameRowsUnchanged
<1>9. CASE Crash(w)
  <2>1. UNCHANGED <<row, job, kept, req, version, accepts, conflictLog, told>>
    BY <1>9 DEF Crash
  <2>2. WorkerReset(w, "idle", Nil) /\ Unlock(w)
    BY <1>9, <1>t, RetireFrame DEF Crash
  <2>3. faults' \in Nat
    BY <1>9, <1>t DEF Crash, Fault
  <2>4. TypeOK'
    BY <2>1, <2>2, <2>3, LockFrame DEF Shape, TypeOK, WorkerReset
  <2> QED BY <2>1, <2>2, <2>4, <1>s, SameRowsUnchanged
<1> QED BY <1>1, <1>2, <1>3, <1>4, <1>5, <1>6, <1>7, <1>8, <1>9

LEMMA NextShape == Shape /\ [Next]_vars => Shape'
<1> SUFFICES ASSUME Shape, [Next]_vars PROVE Shape'
  OBVIOUS
<1>1. CASE \E p \in Request : RequestNext(p) \/ RequestFails(p)
  BY <1>1, RequestShape
<1>2. CASE \/ \E c \in Chunk : GetStatus(c) \/ Stalled(c)
           \/ \E w \in Worker, c \in Chunk : Take(w, c)
           \/ \E w \in Worker : Finish(w) \/ Throw(w)
  BY <1>2, QueueShape
<1>3. CASE \E w \in Worker :
           \/ Load(w) \/ MarkProcessing(w) \/ Split(w) \/ Commit(w) \/ TxFails(w)
           \/ MarkCompleted(w) \/ MarkFailed(w) \/ OutboxFails(w) \/ Crash(w)
  BY <1>3, WorkerShape
<1>4. CASE UNCHANGED vars
  BY <1>4 DEF Shape, TypeOK, RowsExist, PayloadIffRow, JobHasRow, RequestHasRow, WorkerHasRow
<1> QED BY <1>1, <1>2, <1>3, <1>4 DEF Next, WorkerNext

\* The state keeps its types in every behaviour: the type invariant of the
\* outbox, the queue, the requests, the workers and the data.
THEOREM TypeCorrect == Spec => []TypeOK
<1>1. Spec => []Shape
  BY InitShape, NextShape, PTL DEF Spec
<1>2. Shape => TypeOK
  BY DEF Shape
<1> QED BY <1>1, <1>2, PTL

-----------------------------------------------------------------------------
(* What a step can do to the workers, the locks, the rows and the data *)

\* The actor of a step, by the part of the system that acts.
LEMMA Actors ==
    ASSUME [Next]_vars
    PROVE  \/ \E p \in Request : RequestNext(p) \/ RequestFails(p)
           \/ \E c \in Chunk : GetStatus(c) \/ Stalled(c)
           \/ \E w \in Worker, c \in Chunk : Take(w, c)
           \/ \E w \in Worker : WorkerNext(w) \/ OutboxFails(w) \/ Crash(w)
           \/ UNCHANGED vars
BY DEF Next

\* A worker reaches "commit" and "mark" only by its own split and commit.
LEMMA WorkerLabels ==
    ASSUME Shape, NEW w \in Worker, WorkerNext(w) \/ OutboxFails(w) \/ Crash(w)
    PROVE  /\ \A v \in Worker \ {w} : wk'[v] = wk[v]
           /\ wk'[w].pc = "mark" => Commit(w) /\ wk'[w].job = wk[w].job /\ wk'[w].seen = wk[w].seen
           /\ wk'[w].pc = "commit" => Split(w) /\ wk'[w].job = wk[w].job
<1>t. wk \in [Worker -> WorkerType] /\ version \in [Record -> Nat]
  BY DEF Shape, TypeOK
<1>1. CASE Commit(w)
  BY <1>1, <1>t, StepFrame DEF Commit, WorkerMoved
<1>2. CASE Split(w)
  <2> DEFINE h == row[wk[w].job].payload
             rows == IF h \in Blind THEN {} ELSE {r \in Touches[h] : Exists(r)}
             sn == [r \in Record |-> IF r \in rows THEN version[r] ELSE 0]
  <2>1. sn \in [Record -> Nat]
    BY <1>t
  <2>2. wk' = [wk EXCEPT ![w] = [@ EXCEPT !.pc = "commit", !.seen = sn]]
    BY <1>2 DEF Split
  <2> HIDE DEF sn
  <2>3. WorkerMoved(w, "commit")
    BY <2>1, <2>2, <1>t, ReadFrame
  <2> QED BY <2>3, <1>2 DEF WorkerMoved
<1>3. CASE \/ Load(w) \/ MarkProcessing(w) \/ TxFails(w) \/ MarkCompleted(w)
           \/ MarkFailed(w) \/ OutboxFails(w)
  <2>1. \E l \in {"start", "split", "catch", "finish", "throw"} : Step(w, l)
    BY <1>3 DEF Load, MarkProcessing, TxFails, MarkCompleted, MarkFailed, OutboxFails
  <2> QED BY <2>1, <1>t, StepFrame DEF WorkerMoved
<1>4. CASE Finish(w) \/ Throw(w) \/ Crash(w)
  <2>1. Retire(w)
    BY <1>4 DEF Finish, Throw, Crash
  <2> QED BY <2>1, <1>t, RetireFrame DEF WorkerReset
<1> QED BY <1>1, <1>2, <1>3, <1>4 DEF WorkerNext

LEMMA WorkersStep ==
    ASSUME Shape, [Next]_vars, NEW w \in Worker
    PROVE  /\ wk'[w].pc = "mark" =>
                \/ wk'[w] = wk[w]
                \/ Commit(w) /\ wk'[w].job = wk[w].job /\ wk'[w].seen = wk[w].seen
           /\ wk'[w].pc = "commit" =>
                wk'[w] = wk[w] \/ (Split(w) /\ wk'[w].job = wk[w].job)
<1>t. wk \in [Worker -> WorkerType] /\ job \in [Chunk -> JobType]
  BY DEF Shape, TypeOK
<1>1. CASE \E v \in Worker : WorkerNext(v) \/ OutboxFails(v) \/ Crash(v)
  BY <1>1, WorkerLabels
<1>2. CASE \E v \in Worker, c \in Chunk : Take(v, c)
  <2>1. PICK v \in Worker, c \in Chunk : Take(v, c)
    BY <1>2
  <2>2. job[c].attemptsMade \in Nat
    BY <1>t DEF JobType
  <2>3. WorkerReset(v, "load", c)
    BY <2>1, <2>2, <1>t, TakeFrame DEF Take
  <2> QED BY <2>3 DEF WorkerReset
<1>3. CASE \E p \in Request : RequestNext(p) \/ RequestFails(p)
  <2>1. UNCHANGED wk
    BY <1>3 DEF RequestNext, RequestFails, Find, Create, Reread, Add, MarkQueued
  <2> QED BY <2>1
<1>4. CASE \E c \in Chunk : GetStatus(c) \/ Stalled(c)
  <2>1. UNCHANGED wk
    BY <1>4 DEF GetStatus, Stalled
  <2> QED BY <2>1
<1> QED BY <1>1, <1>2, <1>3, <1>4, Actors

\* The committed data changes only when a transaction commits.
LEMMA DataStep ==
    ASSUME [Next]_vars
    PROVE  (\E w \in Worker : Commit(w)) \/ UNCHANGED <<version, accepts, conflictLog>>
<1>1. CASE \E w \in Worker : WorkerNext(w) \/ OutboxFails(w) \/ Crash(w)
  BY <1>1 DEF WorkerNext, OutboxFails, Crash, Load, MarkProcessing, Split, TxFails,
              MarkCompleted, MarkFailed, Finish, Throw
<1>2. CASE \E p \in Request : RequestNext(p) \/ RequestFails(p)
  BY <1>2 DEF RequestNext, RequestFails, Find, Create, Reread, Add, MarkQueued
<1>3. CASE \/ \E c \in Chunk : GetStatus(c) \/ Stalled(c)
           \/ \E w \in Worker, c \in Chunk : Take(w, c)
  BY <1>3 DEF GetStatus, Stalled, Take
<1> QED BY <1>1, <1>2, <1>3, Actors

\* What a commit writes.
LEMMA CommitData ==
    ASSUME Shape, NEW w \in Worker, Commit(w)
    PROVE  LET c == wk[w].job
               h == row[c].payload
               seen == wk[w].seen
               acc == AcceptedOf(h, seen)
           IN  /\ \A r \in acc : accepts'[c][r] = accepts[c][r] + 1
               /\ \A r \in Record \ acc : accepts'[c][r] = accepts[c][r]
               /\ \A d \in Chunk \ {c} : accepts'[d] = accepts[d] /\ conflictLog'[d] = conflictLog[d]
               /\ conflictLog'[c] = conflictLog[c] \cup ConflictedOf(h, seen)
               /\ h \in Blind => version' = version
               /\ h \notin Blind => \A r \in Record :
                    version'[r] = IF r \in acc THEN seen[r] + 1 ELSE version[r]
               /\ UNCHANGED row
<1> DEFINE c == wk[w].job
           h == row[c].payload
           seen == wk[w].seen
           acc == AcceptedOf(h, seen)
           new == [r \in Record |-> IF r \in acc THEN accepts[c][r] + 1 ELSE accepts[c][r]]
<1>1. c \in Chunk /\ h \in Payload /\ seen \in [Record -> Nat]
  BY AtWork DEF Commit
<1>2. acc \in SUBSET Record
  BY <1>1, PayloadData
<1>3. /\ accepts' = [accepts EXCEPT ![c] = new]
      /\ conflictLog' = [conflictLog EXCEPT ![c] = @ \cup ConflictedOf(h, seen)]
      /\ version' = IF h \in Blind THEN version
                    ELSE [r \in Record |-> IF r \in acc THEN seen[r] + 1 ELSE version[r]]
      /\ UNCHANGED row
  BY DEF Commit
<1>4. /\ \A r \in acc : new[r] = accepts[c][r] + 1
      /\ \A r \in Record \ acc : new[r] = accepts[c][r]
  BY <1>2
<1>5. accepts \in [Chunk -> [Record -> Nat]] /\ conflictLog \in [Chunk -> SUBSET Record]
  BY DEF Shape, TypeOK
<1> HIDE DEF new, acc, h, seen, c
<1>6. accepts'[c] = new /\ \A d \in Chunk \ {c} : accepts'[d] = accepts[d]
  BY <1>1, <1>3, <1>5
<1>7. /\ conflictLog'[c] = conflictLog[c] \cup ConflictedOf(h, seen)
      /\ \A d \in Chunk \ {c} : conflictLog'[d] = conflictLog[d]
  BY <1>1, <1>3, <1>5
<1>8. /\ \A r \in acc : accepts'[c][r] = accepts[c][r] + 1
      /\ \A r \in Record \ acc : accepts'[c][r] = accepts[c][r]
      /\ \A d \in Chunk \ {c} : accepts'[d] = accepts[d] /\ conflictLog'[d] = conflictLog[d]
  BY <1>4, <1>6, <1>7
<1>9. /\ h \in Blind => version' = version
      /\ h \notin Blind => \A r \in Record :
            version'[r] = IF r \in acc THEN seen[r] + 1 ELSE version[r]
      /\ UNCHANGED row
  BY <1>3
<1> QED BY <1>7, <1>8, <1>9 DEF c, h, seen, acc

\* Committed writes and conflicts are never taken back.
LEMMA DataMonotone ==
    ASSUME Shape, [Next]_vars, NEW c \in Chunk
    PROVE  /\ \A r \in Record : accepts[c][r] > 0 => accepts'[c][r] > 0
           /\ conflictLog[c] \subseteq conflictLog'[c]
<1>1. CASE UNCHANGED <<version, accepts, conflictLog>>
  BY <1>1
<1>2. ASSUME NEW w \in Worker, Commit(w)
      PROVE  /\ \A r \in Record : accepts[c][r] > 0 => accepts'[c][r] > 0
             /\ conflictLog[c] \subseteq conflictLog'[c]
  <2> DEFINE d == wk[w].job
             h == row[d].payload
             acc == AcceptedOf(h, wk[w].seen)
             con == ConflictedOf(h, wk[w].seen)
  <2>1. accepts[c] \in [Record -> Nat]
    BY DEF Shape, TypeOK
  <2>2. /\ \A r \in acc : accepts'[d][r] = accepts[d][r] + 1
        /\ \A r \in Record \ acc : accepts'[d][r] = accepts[d][r]
        /\ \A e \in Chunk \ {d} : accepts'[e] = accepts[e] /\ conflictLog'[e] = conflictLog[e]
        /\ conflictLog'[d] = conflictLog[d] \cup con
    BY <1>2, CommitData
  <2> HIDE DEF acc, con, h, d
  <2>3. CASE c = d
    BY <2>1, <2>2, <2>3
  <2>4. CASE c # d
    BY <2>2, <2>4
  <2> QED BY <2>3, <2>4
<1> QED BY <1>1, <1>2, DataStep

\* What a step can do to the row of a chunk: nothing, insert it, move it to a
\* status that is not a completed one, or write a worker's result.
RowInserted(c) ==
    /\ row[c].payload = Nil
    /\ row'[c].status = "PENDING"
    /\ row'[c].payload \in Payload

RowReset(c) ==
    /\ row[c].payload # Nil
    /\ row'[c].payload = row[c].payload
    /\ row'[c].status \in Statuses \ Completed

LEMMA RowsStep ==
    ASSUME Shape, [Next]_vars, NEW c \in Chunk
    PROVE  \/ row'[c] = row[c]
           \/ \E p \in Request : req[p].chunk = c /\ Create(p) /\ RowInserted(c)
           \/ RowReset(c)
           \/ \E w \in Worker : wk[w].job = c /\ MarkCompleted(w)
<1>t. row \in [Chunk -> RowType] /\ PayloadIffRow
  BY DEF Shape, TypeOK, RowsExist
<1>1. CASE UNCHANGED row
  BY <1>1
<1>2. ASSUME NEW p \in Request, Create(p)
      PROVE  row'[c] = row[c] \/ (req[p].chunk = c /\ RowInserted(c))
  <2> DEFINE d == req[p].chunk
             new == [NoRow EXCEPT !.status = "PENDING", !.payload = req[p].payload]
  <2>1. d \in Chunk /\ req[p].payload \in Payload
    BY <1>2 DEF Create, Shape, RowsExist, RequestHasRow
  <2>2. (row[d].status = NoStatus /\ row' = [row EXCEPT ![d] = new]) \/ row' = row
    BY <1>2 DEF Create
  <2>3. new.status = "PENDING" /\ new.payload = req[p].payload
    BY DEF NoRow
  <2>4. row[d].status = NoStatus => row[d].payload = Nil
    BY <1>t, <2>1 DEF PayloadIffRow
  <2> HIDE DEF new, d
  <2>5. row'[c] = row[c] \/ (d = c /\ RowInserted(c))
    BY <1>t, <2>1, <2>2, <2>3, <2>4 DEF RowInserted
  <2> QED BY <2>5 DEF d
<1>3. ASSUME NEW p \in Request, MarkQueued(p) PROVE row'[c] = row[c] \/ RowReset(c)
  <2>1. req[p].chunk \in Chunk /\ row[req[p].chunk].payload # Nil
    BY <1>3 DEF MarkQueued, Shape, RowsExist, RequestHasRow
  <2>2. RowMoved(req[p].chunk, "QUEUED")
    BY <1>3, <1>t, <2>1, StatusFrame DEF MarkQueued
  <2> QED BY <2>1, <2>2 DEF RowMoved, RowReset
<1>4. ASSUME NEW w \in Worker, MarkProcessing(w) \/ MarkFailed(w)
      PROVE  row'[c] = row[c] \/ RowReset(c)
  <2>1. wk[w].job \in Chunk /\ row[wk[w].job].payload # Nil
    BY <1>4, AtWork DEF MarkProcessing, MarkFailed
  <2>2. \E s \in {"PROCESSING", "DEAD_LETTER", "FAILED"} : RowMoved(wk[w].job, s)
    BY <1>4, <1>t, <2>1, StatusFrame DEF MarkProcessing, MarkFailed
  <2> QED BY <2>1, <2>2 DEF RowMoved, RowReset
<1>5. ASSUME NEW w \in Worker, MarkCompleted(w)
      PROVE  row'[c] = row[c] \/ wk[w].job = c
  BY <1>5, <1>t DEF MarkCompleted
<1>6. CASE \E w \in Worker : WorkerNext(w) \/ OutboxFails(w) \/ Crash(w)
  <2>1. \/ \E w \in Worker : MarkProcessing(w) \/ MarkFailed(w) \/ MarkCompleted(w)
        \/ UNCHANGED row
    BY <1>6 DEF WorkerNext, Load, Split, Commit, TxFails, Finish, Throw, OutboxFails, Crash
  <2> QED BY <2>1, <1>1, <1>4, <1>5
<1>7. CASE \E p \in Request : RequestNext(p) \/ RequestFails(p)
  <2>1. (\E p \in Request : Create(p) \/ MarkQueued(p)) \/ UNCHANGED row
    BY <1>7 DEF RequestNext, RequestFails, Find, Reread, Add
  <2> QED BY <2>1, <1>1, <1>2, <1>3
<1>8. CASE \/ \E d \in Chunk : GetStatus(d) \/ Stalled(d)
           \/ \E w \in Worker, d \in Chunk : Take(w, d)
  BY <1>1, <1>8 DEF GetStatus, Stalled, Take
<1> QED BY <1>1, <1>6, <1>7, <1>8, Actors

\* Once registered, a chunk keeps its payload (createPending never overwrites).
LEMMA PayloadStable ==
    ASSUME Shape, [Next]_vars, NEW c \in Chunk, row[c].payload # Nil
    PROVE  row'[c].payload = row[c].payload
<1>1. ASSUME NEW w \in Worker, wk[w].job = c, MarkCompleted(w)
      PROVE  row'[c].payload = row[c].payload
  <2>1. row \in [Chunk -> RowType]
    BY DEF Shape, TypeOK
  <2> QED BY <1>1, <2>1 DEF MarkCompleted, RowType
<1> QED BY <1>1, RowsStep DEF RowInserted, RowReset

\* What has been applied for a registered chunk stays applied.
LEMMA AppliedStable ==
    ASSUME Shape, [Next]_vars, NEW c \in Chunk, row[c].payload # Nil, Applied(c)
    PROVE  Applied(c)'
<1>1. row[c].payload \in Payload
  BY DEF Shape, TypeOK, RowType
<1>2. Touches[row[c].payload] \subseteq Record
  BY <1>1, TouchesAssumption
<1> QED BY <1>2, PayloadStable, DataMonotone DEF Applied

\* The client is told only about rows it could read as completed.
LEMMA ToldStep ==
    ASSUME [Next]_vars, NEW c \in Chunk, c \in told', c \notin told
    PROVE  row[c].status \in Completed /\ row' = row
<1>1. CASE \E p \in Request : RequestNext(p) \/ RequestFails(p)
  BY <1>1 DEF RequestNext, RequestFails, Find, Create, Reread, Add, MarkQueued
<1>2. CASE \/ \E d \in Chunk : GetStatus(d) \/ Stalled(d)
           \/ \E w \in Worker, d \in Chunk : Take(w, d)
  BY <1>2 DEF GetStatus, Stalled, Take
<1>3. CASE \E w \in Worker : WorkerNext(w) \/ OutboxFails(w) \/ Crash(w)
  BY <1>3 DEF WorkerNext, OutboxFails, Crash, Load, MarkProcessing, Split, Commit, TxFails,
              MarkCompleted, MarkFailed, Finish, Throw
<1> QED BY <1>1, <1>2, <1>3, Actors
-----------------------------------------------------------------------------
(* A completed row, and what a client was told, rest on committed data *)

\* After the commit and before markCompleted the result is already durable.
LEMMA ResultCommittedStep == Shape /\ ResultCommitted /\ [Next]_vars => ResultCommitted'
<1> SUFFICES ASSUME Shape, ResultCommitted, [Next]_vars,
                    NEW w \in Worker, wk'[w].pc = "mark"
             PROVE  LET c == wk'[w].job
                        h == row'[c].payload
                    IN  /\ \A r \in AcceptedOf(h, wk'[w].seen) : accepts'[c][r] > 0
                        /\ ConflictedOf(h, wk'[w].seen) \subseteq conflictLog'[c]
  BY DEF ResultCommitted, AcceptedOf, ConflictedOf
<1> DEFINE c == wk[w].job
           h == row[c].payload
           seen == wk[w].seen
           acc == AcceptedOf(h, seen)
           con == ConflictedOf(h, seen)
<1>1. wk'[w].job = c /\ wk'[w].seen = seen /\ wk[w].pc # "idle"
  BY WorkersStep DEF Commit
<1>2. c \in Chunk /\ h \in Payload /\ row'[c].payload = h /\ acc \in SUBSET Record
  BY <1>1, AtWork, PayloadStable, PayloadData
<1>3. CASE wk'[w] = wk[w]
  <2>1. (\A r \in acc : accepts[c][r] > 0) /\ con \subseteq conflictLog[c]
    BY <1>3 DEF ResultCommitted
  <2> HIDE DEF acc, con, h, c, seen
  <2>2. (\A r \in acc : accepts'[c][r] > 0) /\ con \subseteq conflictLog'[c]
    BY <2>1, <1>2, DataMonotone
  <2> QED BY <2>2, <1>1, <1>2 DEF acc, con
<1>4. CASE Commit(w)
  <2>1. /\ \A r \in acc : accepts'[c][r] = accepts[c][r] + 1
        /\ conflictLog'[c] = conflictLog[c] \cup con
    BY <1>4, CommitData
  <2>2. accepts[c] \in [Record -> Nat]
    BY <1>2 DEF Shape, TypeOK
  <2> HIDE DEF acc, con, h, c, seen
  <2>3. (\A r \in acc : accepts'[c][r] > 0) /\ con \subseteq conflictLog'[c]
    BY <2>1, <2>2, <1>2
  <2> QED BY <2>3, <1>1, <1>2 DEF acc, con
<1> QED BY <1>3, <1>4, WorkersStep

\* No step makes the status of a row run ahead of its data.
LEMMA CompletedStep ==
    Shape /\ ResultCommitted /\ CompletedImpliesApplied /\ [Next]_vars => CompletedImpliesApplied'
<1> SUFFICES ASSUME Shape, ResultCommitted, CompletedImpliesApplied, [Next]_vars,
                    NEW c \in Chunk, row'[c].status \in Completed
             PROVE  /\ Applied(c)'
                    /\ \A r \in row'[c].accepted : accepts'[c][r] > 0
                    /\ row'[c].conflicted \subseteq conflictLog'[c]
  BY DEF CompletedImpliesApplied
<1>1. CASE row'[c] = row[c]
  <2>1. row[c].payload # Nil /\ row[c].accepted \subseteq Record
    BY <1>1 DEF Shape, TypeOK, RowType, RowsExist, PayloadIffRow
  <2>2. /\ Applied(c)
        /\ \A r \in row[c].accepted : accepts[c][r] > 0
        /\ row[c].conflicted \subseteq conflictLog[c]
    BY <1>1 DEF CompletedImpliesApplied
  <2> QED BY <1>1, <2>1, <2>2, AppliedStable, DataMonotone
<1>2. CASE RowInserted(c) \/ RowReset(c)
  BY <1>2 DEF RowInserted, RowReset
<1>3. ASSUME NEW w \in Worker, wk[w].job = c, MarkCompleted(w)
      PROVE  /\ Applied(c)'
             /\ \A r \in row'[c].accepted : accepts'[c][r] > 0
             /\ row'[c].conflicted \subseteq conflictLog'[c]
  <2> DEFINE h == row[c].payload
             seen == wk[w].seen
             acc == AcceptedOf(h, seen)
             shown == IF h \in Blind THEN {} ELSE acc
             con == ConflictedOf(h, seen)
             s == IF con = {} THEN "COMPLETED" ELSE "COMPLETED_WITH_CONFLICTS"
  <2>1. /\ row' = [row EXCEPT ![c] = [@ EXCEPT !.status = s, !.accepted = shown, !.conflicted = con]]
        /\ UNCHANGED <<accepts, conflictLog>>
    BY <1>3 DEF MarkCompleted
  <2>2. wk[w].pc = "mark" /\ h \in Payload /\ seen \in [Record -> Nat]
    BY <1>3, AtWork DEF MarkCompleted
  <2>3. /\ acc \in SUBSET Record /\ con \in SUBSET Record /\ Touches[h] = acc \cup con
        /\ shown \subseteq acc /\ s \in Statuses
    BY <2>2, PayloadData DEF ConflictedOf, AcceptedOf
  <2>4. (\A r \in acc : accepts[c][r] > 0) /\ con \subseteq conflictLog[c]
    BY <1>3, <2>2 DEF ResultCommitted
  <2>5. row \in [Chunk -> RowType]
    BY DEF Shape, TypeOK
  <2> HIDE DEF s, shown, acc, con, seen
  <2>6. RowMoved(c, s) /\ row'[c].accepted = shown /\ row'[c].conflicted = con
    <3>1. shown \in SUBSET Record /\ con \in SUBSET Record /\ s \in Statuses
      BY <2>3
    <3>2. row' = [row EXCEPT ![c] = [@ EXCEPT !.status = s, !.accepted = shown, !.conflicted = con]]
      BY <2>1
    <3> HIDE DEF h
    <3>3. RowMoved(c, s)
      BY <2>5, <3>1, <3>2, ResultFrame
    <3>4. row'[c].accepted = shown
      BY <2>5, <3>1, <3>2, ResultFrame
    <3>5. row'[c].conflicted = con
      <4> DEFINE q == [row[c] EXCEPT !.status = s, !.accepted = shown, !.conflicted = con]
      <4>1. q.conflicted = con
        BY <2>5 DEF RowType
      <4>2. row' = [row EXCEPT ![c] = q]
        BY <3>2
      <4> HIDE DEF q
      <4> QED BY <2>5, <4>1, <4>2
    <3> QED BY <3>3, <3>4, <3>5
  <2>7. row'[c].payload = h
    BY <2>6 DEF RowMoved
  <2> QED BY <2>1, <2>3, <2>4, <2>6, <2>7 DEF Applied
<1> QED BY <1>1, <1>2, <1>3, RowsStep

\* What a client was told is never taken back.
LEMMA ToldIsDurableStep ==
    Shape /\ Shape' /\ CompletedImpliesApplied /\ ToldIsDurable /\ [Next]_vars => ToldIsDurable'
<1> SUFFICES ASSUME Shape, Shape', CompletedImpliesApplied, ToldIsDurable, [Next]_vars,
                    NEW c \in Chunk, c \in told'
             PROVE  row'[c].status # NoStatus /\ Applied(c)'
  BY DEF ToldIsDurable, Shape, TypeOK
<1>1. row[c].status # NoStatus /\ Applied(c)
  BY ToldStep DEF ToldIsDurable, CompletedImpliesApplied
<1>2. row[c].payload # Nil
  BY <1>1 DEF Shape, RowsExist, PayloadIffRow
<1>3. row'[c].status # NoStatus
  BY <1>2, PayloadStable DEF Shape, RowsExist, PayloadIffRow
<1> QED BY <1>1, <1>2, <1>3, AppliedStable

DurabilityInv == Shape /\ ResultCommitted /\ CompletedImpliesApplied /\ ToldIsDurable

LEMMA Durability == Spec => []DurabilityInv
<1>1. Init => DurabilityInv
  <2> SUFFICES ASSUME Init PROVE DurabilityInv
    OBVIOUS
  <2>1. ResultCommitted
    BY DEF Init, ResultCommitted, IdleWorker
  <2>2. CompletedImpliesApplied
    BY DEF Init, CompletedImpliesApplied, NoRow
  <2>3. ToldIsDurable
    BY DEF Init, ToldIsDurable
  <2> QED BY <2>1, <2>2, <2>3, InitShape DEF DurabilityInv
<1>2. DurabilityInv /\ [Next]_vars => DurabilityInv'
  BY NextShape, ResultCommittedStep, CompletedStep, ToldIsDurableStep DEF DurabilityInv
<1> QED BY <1>1, <1>2, PTL DEF Spec

\* A row that the outbox reports completed has its records committed, whatever
\* crashes, retries, lost locks and repeated pushes happened on the way.
THEOREM CompletedIsApplied == Spec => []CompletedImpliesApplied
<1>1. DurabilityInv => CompletedImpliesApplied
  BY DEF DurabilityInv
<1> QED BY <1>1, Durability, PTL

\* A client that was told once that its chunk is completed may drop it.
THEOREM ToldIsKept == Spec => []ToldIsDurable
<1>1. DurabilityInv => ToldIsDurable
  BY DEF DurabilityInv
<1> QED BY <1>1, Durability, PTL
-----------------------------------------------------------------------------
(* The compare-and-set: locks, versions and accepted writes *)

\* Worker w is between its split and its commit of a push that looks at versions,
\* and r is a stored record of it.
Holding(w, r) ==
    /\ wk[w].pc = "commit"
    /\ row[wk[w].job].payload \notin Blind
    /\ r \in Touches[row[wk[w].job].payload]
    /\ InitVersion[r] > 0

\* Who holds a lock keeps it, and a lock is released only by its holder.
LEMMA LocksStep ==
    ASSUME Shape, [Next]_vars, NEW r \in Record
    PROVE  \/ rowLock'[r] = rowLock[r]
           \/ rowLock[r] = Nil
           \/ \E v \in Worker : /\ rowLock[r] = v
                                /\ Commit(v) \/ TxFails(v) \/ Crash(v)
<1>1. CASE UNCHANGED rowLock
  BY <1>1
<1>2. ASSUME NEW v \in Worker, Split(v) PROVE rowLock'[r] = rowLock[r] \/ rowLock[r] = Nil
  BY <1>2 DEF Split
<1>3. ASSUME NEW v \in Worker, Commit(v) \/ TxFails(v) \/ Crash(v)
      PROVE  rowLock'[r] = rowLock[r] \/ rowLock[r] = v
  BY <1>3 DEF Commit, TxFails, Crash, Unlock
<1>4. \/ \E v \in Worker : Split(v) \/ Commit(v) \/ TxFails(v) \/ Crash(v)
      \/ UNCHANGED rowLock
  <2>1. CASE \E p \in Request : RequestNext(p) \/ RequestFails(p)
    BY <2>1 DEF RequestNext, RequestFails, Find, Create, Reread, Add, MarkQueued
  <2>2. CASE \/ \E d \in Chunk : GetStatus(d) \/ Stalled(d)
             \/ \E w \in Worker, d \in Chunk : Take(w, d)
    BY <2>2 DEF GetStatus, Stalled, Take
  <2>3. CASE \E w \in Worker : WorkerNext(w) \/ OutboxFails(w) \/ Crash(w)
    BY <2>3 DEF WorkerNext, OutboxFails, Load, MarkProcessing, MarkCompleted, MarkFailed,
                Finish, Throw
  <2> QED BY <2>1, <2>2, <2>3, Actors
<1> QED BY <1>1, <1>2, <1>3, <1>4

\* A commit moves a stored record by one version, from the version it had read
\* and its holder alone.
LEMMA CommitVersion ==
    ASSUME Shape, LocksHeld, NEW w \in Worker, Commit(w), NEW r \in Record, InitVersion[r] > 0
    PROVE  LET h == row[wk[w].job].payload
               acc == AcceptedOf(h, wk[w].seen)
           IN  \/ version'[r] = version[r] /\ ~(h \notin Blind /\ r \in acc)
               \/ /\ Holding(w, r)
                  /\ r \in acc
                  /\ rowLock[r] = w
                  /\ version[r] = wk[w].seen[r]
                  /\ version'[r] = version[r] + 1
<1> DEFINE h == row[wk[w].job].payload
           acc == AcceptedOf(h, wk[w].seen)
<1>1. /\ h \in Blind => version' = version
      /\ h \notin Blind => version'[r] = IF r \in acc THEN wk[w].seen[r] + 1 ELSE version[r]
  BY CommitData
<1>2. CASE h \notin Blind /\ r \in acc
  <2>1. Holding(w, r)
    BY <1>2 DEF Commit, Holding, AcceptedOf
  <2>2. rowLock[r] = w /\ wk[w].seen[r] = version[r]
    BY <2>1 DEF LocksHeld, Holding
  <2> HIDE DEF acc
  <2>3. version'[r] = version[r] + 1
    BY <1>1, <1>2, <2>2
  <2> QED BY <1>2, <2>1, <2>2, <2>3 DEF acc
<1>3. CASE ~(h \notin Blind /\ r \in acc)
  <2> HIDE DEF acc, h
  <2>1. version'[r] = version[r]
    BY <1>1, <1>3
  <2> QED BY <1>3, <2>1 DEF acc, h
<1> QED BY <1>2, <1>3

\* A worker that holds its locks through a step finds the versions it has read.
LEMMA LocksHeldStep == Shape /\ LocksHeld /\ VersionsMoved /\ [Next]_vars => LocksHeld'
<1> SUFFICES ASSUME Shape, LocksHeld, VersionsMoved, [Next]_vars,
                    NEW w \in Worker, NEW r, Holding(w, r)'
             PROVE  rowLock'[r] = w /\ wk'[w].seen[r] = version'[r]
  BY DEF LocksHeld, Holding
<1> DEFINE c == wk[w].job
           h == row[c].payload
<1>1. /\ wk'[w].pc = "commit" /\ wk[w].pc # "idle" /\ wk'[w].job = c
      /\ wk'[w] = wk[w] \/ Split(w)
  BY WorkersStep DEF Holding, Split
<1>2. c \in Chunk /\ h \in Payload /\ row'[c].payload = h
  BY <1>1, AtWork, PayloadStable
<1>3. r \in Record /\ r \in Touches[h] /\ h \notin Blind /\ InitVersion[r] > 0
  BY <1>1, <1>2, TouchesAssumption DEF Holding
<1>4. /\ version[r] \in Nat /\ version[r] > 0 /\ InitVersion[r] \in Nat
      /\ rowLock[r] \in Worker \cup {Nil}
  BY <1>3, VersionAssumption DEF VersionsMoved, Shape, TypeOK
<1>5. CASE Split(w)
  <2> DEFINE rows == IF h \in Blind THEN {} ELSE {x \in Touches[h] : Exists(x)}
             sn == [x \in Record |-> IF x \in rows THEN version[x] ELSE 0]
  <2>1. r \in rows
    BY <1>3, <1>4 DEF Exists
  <2>2. /\ rowLock' = [x \in Record |-> IF x \in rows THEN w ELSE rowLock[x]]
        /\ wk' = [wk EXCEPT ![w] = [@ EXCEPT !.pc = "commit", !.seen = sn]]
        /\ UNCHANGED version
    BY <1>5 DEF Split
  <2>3. sn[r] = version[r] /\ sn \in [Record -> Nat]
    BY <1>3, <2>1 DEF Shape, TypeOK
  <2>4. wk \in [Worker -> WorkerType]
    BY DEF Shape, TypeOK
  <2> HIDE DEF rows, sn
  <2>5. wk'[w].seen = sn
    BY <2>2, <2>3, <2>4, ReadFrame
  <2> QED BY <1>3, <2>1, <2>2, <2>3, <2>5
<1>6. CASE wk'[w] = wk[w]
  <2>1. rowLock[r] = w /\ wk[w].seen[r] = version[r]
    BY <1>1, <1>2, <1>3, <1>6 DEF LocksHeld
  <2>2. ~(Commit(w) \/ TxFails(w) \/ Crash(w))
    <3>1. wk \in [Worker -> WorkerType]
      BY DEF Shape, TypeOK
    <3>2. ASSUME Commit(w) \/ TxFails(w) PROVE wk'[w].pc # "commit"
      BY <3>1, <3>2, StepFrame DEF Commit, TxFails, WorkerMoved
    <3>3. ASSUME Crash(w) PROVE wk'[w].pc # "commit"
      BY <3>1, <3>3, RetireFrame DEF Crash, WorkerReset
    <3> QED BY <1>1, <3>2, <3>3
  <2>3. rowLock'[r] = w
    BY <1>3, <2>1, <2>2, LocksStep, NilAssumption
  <2>4. version'[r] = version[r]
    <3>1. ASSUME NEW v \in Worker, Commit(v) PROVE version'[r] = version[r]
      BY <3>1, <1>3, <2>1, <2>2, CommitVersion
    <3> QED BY <3>1, DataStep
  <2> QED BY <1>6, <2>1, <2>3, <2>4
<1> QED BY <1>1, <1>5, <1>6

\* Stored versions only grow.
LEMMA VersionsGrow ==
    ASSUME Shape, LocksHeld, [Next]_vars, NEW r \in Record, InitVersion[r] > 0
    PROVE  version'[r] >= version[r] /\ version[r] \in Nat
<1>1. version[r] \in Nat
  BY DEF Shape, TypeOK
<1>2. ASSUME NEW w \in Worker, Commit(w) PROVE version'[r] = version[r] \/ version'[r] = version[r] + 1
  BY <1>2, CommitVersion
<1> QED BY <1>1, <1>2, DataStep

\* A write is committed only by the commit of its chunk, and only if accepted.
LEMMA AcceptStep ==
    ASSUME Shape, [Next]_vars, NEW c \in Chunk, NEW r \in Record
    PROVE  \/ accepts'[c][r] = accepts[c][r]
           \/ \E w \in Worker :
                /\ Commit(w) /\ wk[w].job = c
                /\ r \in AcceptedOf(row[c].payload, wk[w].seen)
                /\ accepts'[c][r] = accepts[c][r] + 1
                /\ row' = row
<1>1. ASSUME NEW w \in Worker, Commit(w)
      PROVE  \/ accepts'[c][r] = accepts[c][r]
             \/ /\ wk[w].job = c
                /\ r \in AcceptedOf(row[c].payload, wk[w].seen)
                /\ accepts'[c][r] = accepts[c][r] + 1
                /\ row' = row
  <2> DEFINE d == wk[w].job
             acc == AcceptedOf(row[d].payload, wk[w].seen)
  <2>1. /\ \A x \in acc : accepts'[d][x] = accepts[d][x] + 1
        /\ \A x \in Record \ acc : accepts'[d][x] = accepts[d][x]
        /\ \A e \in Chunk \ {d} : accepts'[e] = accepts[e]
        /\ row' = row
    BY <1>1, CommitData
  <2>2. CASE d = c /\ r \in acc
    BY <2>1, <2>2
  <2>3. CASE d # c \/ r \notin acc
    <3> HIDE DEF acc, d
    <3> QED BY <2>1, <2>3
  <2> QED BY <2>2, <2>3
<1> QED BY <1>1, DataStep

\* What a registered chunk competes with is settled when it is registered.
LEMMA PayloadStep ==
    ASSUME Shape, [Next]_vars, NEW c \in Chunk, NEW r \in Record
    PROVE  row'[c].payload = row[c].payload \/ (accepts[c][r] = 0 /\ row[c].payload = Nil)
BY PayloadStable DEF Shape, RowsExist, JobHasRow

\* An accepted write has moved its record past the version it was based on.
LEMMA VersionsMovedStep == Shape /\ Shape' /\ LocksHeld /\ VersionsMoved /\ [Next]_vars => VersionsMoved'
<1> SUFFICES ASSUME Shape, Shape', LocksHeld, VersionsMoved, [Next]_vars PROVE VersionsMoved'
  OBVIOUS
<1>1. ASSUME NEW r \in Record PROVE version'[r] >= InitVersion[r]
  <2>1. InitVersion[r] \in Nat /\ version[r] >= InitVersion[r] /\ version'[r] \in Nat
    BY VersionAssumption DEF VersionsMoved, Shape, TypeOK
  <2>2. CASE InitVersion[r] > 0
    BY <2>1, <2>2, VersionsGrow
  <2> QED BY <2>1, <2>2
<1>2. ASSUME NEW c \in Chunk, NEW r \in Record, row'[c].payload \in Payload \ Blind,
             accepts'[c][r] > 0, InitVersion[r] > 0
      PROVE  version'[r] > BaseVersion[row'[c].payload][r]
  <2> DEFINE base == BaseVersion[row'[c].payload][r]
  <2>0. version[r] \in Nat /\ version'[r] \in Nat
    BY DEF Shape, TypeOK
  <2>1. base \in Nat /\ version'[r] >= version[r]
    BY <1>2, VersionAssumption, VersionsGrow
  <2>2. CASE accepts'[c][r] = accepts[c][r]
    <3>1. row'[c].payload = row[c].payload
      BY <1>2, <2>2, PayloadStep
    <3>2. version[r] > base
      BY <1>2, <2>2, <3>1 DEF VersionsMoved
    <3> QED BY <2>0, <2>1, <3>2
  <2>3. ASSUME NEW w \in Worker, Commit(w), wk[w].job = c,
               r \in AcceptedOf(row[c].payload, wk[w].seen), row' = row
        PROVE  version'[r] > base
    <3>1. version[r] = wk[w].seen[r] /\ version'[r] = version[r] + 1
      BY <1>2, <2>3, CommitVersion
    <3>2. version[r] > 0
      BY <1>2, <2>0, VersionAssumption DEF VersionsMoved
    <3>3. version[r] = base
      BY <1>2, <2>3, <3>1, <3>2 DEF AcceptedOf
    <3> QED BY <2>1, <3>1, <3>3
  <2> QED BY <2>2, <2>3, AcceptStep
<1> QED BY <1>1, <1>2 DEF VersionsMoved

\* The write a commit accepts on a stored record is the first of all that carry
\* the same base version.
LEMMA FirstAccepted ==
    ASSUME Shape, LocksHeld, VersionsMoved, NEW w \in Worker, Commit(w),
           NEW r \in Record, InitVersion[r] > 0, NEW c \in Chunk,
           row[wk[w].job].payload \notin Blind,
           r \in AcceptedOf(row[wk[w].job].payload, wk[w].seen),
           row[c].payload \in Payload \ Blind,
           BaseVersion[row[c].payload][r] = BaseVersion[row[wk[w].job].payload][r]
    PROVE  accepts[c][r] = 0
<1>1. version[r] = wk[w].seen[r]
  BY CommitVersion
<1>2. version[r] \in Nat /\ version[r] > 0
  BY VersionAssumption DEF VersionsMoved, Shape, TypeOK
<1>3. version[r] = BaseVersion[row[c].payload][r]
  BY <1>1, <1>2 DEF AcceptedOf
<1>4. ~(accepts[c][r] > 0)
  BY <1>2, <1>3 DEF VersionsMoved
<1>5. accepts[c][r] \in Nat
  BY DEF Shape, TypeOK
<1> QED BY <1>4, <1>5

LEMMA AcceptedOnceStep ==
    Shape /\ LocksHeld /\ VersionsMoved /\ AcceptedAtMostOnce /\ [Next]_vars => AcceptedAtMostOnce'
<1> SUFFICES ASSUME Shape, LocksHeld, VersionsMoved, AcceptedAtMostOnce, [Next]_vars,
                    NEW c \in Chunk, NEW d \in Chunk, NEW r \in Record,
                    Competes(c, d, r)', InitVersion[r] > 0
             PROVE  /\ accepts'[c][r] <= 1
                    /\ c # d => accepts'[c][r] + accepts'[d][r] <= 1
  BY DEF AcceptedAtMostOnce
<1> DEFINE Base(e) == BaseVersion[row[e].payload][r]
<1>t. accepts[c][r] \in Nat /\ accepts[d][r] \in Nat
  BY DEF Shape, TypeOK
<1>0. /\ accepts[c][r] <= 1
      /\ accepts[d][r] <= 1
      /\ c # d => accepts[c][r] + accepts[d][r] <= 1
  <2>1. ASSUME NEW e \in {c, d}, accepts[e][r] > 0 PROVE Competes(e, e, r)
    <3>1. row'[e].payload = row[e].payload
      BY <2>1, PayloadStep
    <3> QED BY <3>1 DEF Competes
  <2>2. ASSUME accepts[c][r] > 0, accepts[d][r] > 0 PROVE Competes(c, d, r)
    <3>1. row'[c].payload = row[c].payload /\ row'[d].payload = row[d].payload
      BY <2>2, PayloadStep
    <3> QED BY <3>1 DEF Competes
  <2>3. accepts[c][r] <= 1 /\ accepts[d][r] <= 1
    BY <1>t, <2>1 DEF AcceptedAtMostOnce
  <2>4. ASSUME accepts[c][r] > 0, accepts[d][r] > 0, c # d
        PROVE  accepts[c][r] + accepts[d][r] <= 1
    BY <2>2, <2>4 DEF AcceptedAtMostOnce
  <2> QED BY <1>t, <2>3, <2>4
<1>1. ASSUME NEW w \in Worker, Commit(w), row' = row, wk[w].job \in {c, d},
             r \in AcceptedOf(row[wk[w].job].payload, wk[w].seen)
      PROVE  accepts[c][r] = 0 /\ accepts[d][r] = 0
  <2>1. /\ row[c].payload \in Payload \ Blind /\ row[d].payload \in Payload \ Blind
        /\ Base(c) = Base(d)
    BY <1>1 DEF Competes
  <2> QED BY <1>1, <2>1, FirstAccepted
<1>2. \/ accepts'[c][r] = accepts[c][r]
      \/ accepts'[c][r] = accepts[c][r] + 1 /\ accepts[c][r] = 0 /\ accepts[d][r] = 0
  BY <1>1, AcceptStep
<1>3. \/ accepts'[d][r] = accepts[d][r]
      \/ accepts'[d][r] = accepts[d][r] + 1 /\ accepts[c][r] = 0 /\ accepts[d][r] = 0
  BY <1>1, AcceptStep
<1>4. c # d => accepts'[c][r] = accepts[c][r] \/ accepts'[d][r] = accepts[d][r]
  <2>1. ASSUME NEW w \in Worker, Commit(w), c # d
        PROVE  accepts'[c] = accepts[c] \/ accepts'[d] = accepts[d]
    <3>1. \A e \in Chunk \ {wk[w].job} : accepts'[e] = accepts[e]
      BY <2>1, CommitData
    <3> QED BY <2>1, <3>1
  <2> QED BY <2>1, DataStep
<1> QED BY <1>t, <1>0, <1>2, <1>3, <1>4

CompareAndSetInv == Shape /\ LocksHeld /\ VersionsMoved /\ AcceptedAtMostOnce

LEMMA CompareAndSet == Spec => []CompareAndSetInv
<1>1. Init => CompareAndSetInv
  <2> SUFFICES ASSUME Init PROVE CompareAndSetInv
    OBVIOUS
  <2>1. LocksHeld
    BY DEF Init, LocksHeld, IdleWorker
  <2>2. VersionsMoved
    BY VersionAssumption DEF Init, VersionsMoved
  <2>3. AcceptedAtMostOnce
    BY DEF Init, AcceptedAtMostOnce
  <2> QED BY <2>1, <2>2, <2>3, InitShape DEF CompareAndSetInv
<1>2. CompareAndSetInv /\ [Next]_vars => CompareAndSetInv'
  BY NextShape, LocksHeldStep, VersionsMovedStep, AcceptedOnceStep DEF CompareAndSetInv
<1> QED BY <1>1, <1>2, PTL DEF Spec

\* Of all deliveries of all chunks that carry the same base version of a stored
\* record at most one is accepted: a push is applied at least once, its writes at
\* most once.
THEOREM AcceptedOnce == Spec => []AcceptedAtMostOnce
<1>1. CompareAndSetInv => AcceptedAtMostOnce
  BY DEF CompareAndSetInv
<1> QED BY <1>1, CompareAndSet, PTL

-----------------------------------------------------------------------------
(* The retry policy: who holds a job, and what a failure may still lead to *)

\* While no live worker loses its lock, a busy worker holds the job it works on
\* and knows how many attempts were made of it.
Holds(w) ==
    /\ wk[w].pc = "idle" => wk[w].job = Nil
    /\ wk[w].pc # "idle" =>
         HoldsJob(w) /\ wk[w].attemptsMade = job[wk[w].job].attemptsMade

OwnsJob == \A w \in Worker : Holds(w)

\* The queue keeps each completed job once, and only completed jobs.
KeptDone ==
    /\ \A i \in DOMAIN kept : job[kept[i]].state = "completed"
    /\ \A i, k \in DOMAIN kept : kept[i] = kept[k] => i = k

\* Between the load and the end of its work a worker's row is not completed.
Working == {"start", "split", "commit", "mark", "catch"}
StillOpen == \A w \in Worker : wk[w].pc \in Working => row[wk[w].job].status \notin Completed

LockInv == Shape /\ OwnsJob /\ KeptDone /\ StillOpen

\* Two busy workers are on different chunks.
LEMMA OneWorker ==
    ASSUME OwnsJob, NEW v \in Worker, NEW w \in Worker, v # w, wk[w].pc # "idle"
    PROVE  wk[v].job # wk[w].job
BY DEF OwnsJob, Holds, HoldsJob

\* What the fields of a job are after it was unlocked, redelivered or retried.
LEMMA JobOutcomes ==
    ASSUME NEW q \in JobType
    PROVE  /\ \A st \in {"waiting", "completed", "failed"} :
                /\ Unlocked(q, st).state = st
                /\ Unlocked(q, st).attemptsMade = q.attemptsMade
                /\ Unlocked(q, st).stalled = q.stalled
           /\ Redelivered(q).state = "waiting"
           /\ Redelivered(q).attemptsMade = q.attemptsMade
           /\ Redelivered(q).stalled = q.stalled + 1
           /\ Spent(q).state = IF q.attemptsMade + 1 < MaxAttempts THEN "waiting" ELSE "failed"
           /\ Spent(q).attemptsMade = q.attemptsMade + 1
           /\ Spent(q).stalled = q.stalled
<1>1. \A st \in {"waiting", "completed", "failed"} :
        /\ Unlocked(q, st) \in JobType
        /\ Unlocked(q, st).state = st
        /\ Unlocked(q, st).attemptsMade = q.attemptsMade
        /\ Unlocked(q, st).stalled = q.stalled
  BY JobFields DEF Unlocked, JobType
<1>2. \A r \in JobType :
        /\ [r EXCEPT !.attemptsMade = @ + 1].state = r.state
        /\ [r EXCEPT !.attemptsMade = @ + 1].attemptsMade = r.attemptsMade + 1
        /\ [r EXCEPT !.attemptsMade = @ + 1].stalled = r.stalled
        /\ [r EXCEPT !.stalled = @ + 1].state = r.state
        /\ [r EXCEPT !.stalled = @ + 1].attemptsMade = r.attemptsMade
        /\ [r EXCEPT !.stalled = @ + 1].stalled = r.stalled + 1
  BY DEF JobType
<1>3. /\ Redelivered(q).state = "waiting"
      /\ Redelivered(q).attemptsMade = q.attemptsMade
      /\ Redelivered(q).stalled = q.stalled + 1
  BY <1>1, <1>2 DEF Redelivered
<1> DEFINE st == IF q.attemptsMade + 1 < MaxAttempts THEN "waiting" ELSE "failed"
<1>4. st \in {"waiting", "failed"}
  OBVIOUS
<1>5. Spent(q) = [Unlocked(q, st) EXCEPT !.attemptsMade = @ + 1]
  BY DEF Spent
<1> HIDE DEF st
<1>6. Spent(q).state = st /\ Spent(q).attemptsMade = q.attemptsMade + 1
      /\ Spent(q).stalled = q.stalled
  BY <1>1, <1>2, <1>4, <1>5
<1> QED BY <1>1, <1>3, <1>6 DEF st

-----------------------------------------------------------------------------
(* Effects: what each actor's step does to the jobs, the workers and the rows *)

\* A request registers a chunk, adds its job and marks its row queued, no more.
RequestEffect ==
    /\ UNCHANGED <<wk, kept>>
    /\ \A c \in Chunk :
         \/ job'[c] = job[c]
         \/ job[c].state = "none" /\ job'[c].state = "waiting" /\ job'[c].stalled = 0
    /\ \A c \in Chunk :
         \/ row'[c].status = row[c].status
         \/ row'[c].status = "PENDING" /\ row[c].status = NoStatus
         \/ row'[c].status = "QUEUED"
              /\ \E p \in Request : req[p].pc = "mark" /\ req[p].chunk = c /\ req'[p].pc = "done"
    /\ faults' = faults \/ \E k \in FaultKinds : Fault(k)

LEMMA RequestDoes ==
    ASSUME Shape, \/ \E p \in Request : RequestNext(p) \/ RequestFails(p)
                  \/ \E c \in Chunk : GetStatus(c)
    PROVE  RequestEffect
<1>t. /\ req \in [Request -> ReqType] /\ row \in [Chunk -> RowType]
      /\ job \in [Chunk -> JobType]
  BY DEF Shape, TypeOK
<1>1. ASSUME NEW p \in Request, Find(p) \/ Reread(p) PROVE RequestEffect
  BY <1>1 DEF Find, Reread, RequestEffect
<1>2. ASSUME NEW p \in Request, RequestFails(p) PROVE RequestEffect
  <2>1. UNCHANGED <<wk, kept, job, row>> /\ Fault("request") /\ "request" \in FaultKinds
    BY <1>2 DEF RequestFails, Fault
  <2> QED BY <2>1 DEF RequestEffect
<1>3. ASSUME NEW c \in Chunk, GetStatus(c) PROVE RequestEffect
  BY <1>3 DEF GetStatus, RequestEffect
<1>4. ASSUME NEW p \in Request, Create(p) PROVE RequestEffect
  <2> DEFINE d == req[p].chunk
             new == [NoRow EXCEPT !.status = "PENDING", !.payload = req[p].payload]
  <2>1. UNCHANGED <<wk, kept, job, faults>>
    BY <1>4 DEF Create
  <2>2. (row[d].status = NoStatus /\ row' = [row EXCEPT ![d] = new]) \/ row' = row
    BY <1>4 DEF Create
  <2>3. new.status = "PENDING"
    BY DEF NoRow
  <2> HIDE DEF new, d
  <2>4. \A c \in Chunk : \/ row'[c].status = row[c].status
                         \/ row'[c].status = "PENDING" /\ row[c].status = NoStatus
    BY <1>t, <2>2, <2>3
  <2> QED BY <2>1, <2>4 DEF RequestEffect
<1>5. ASSUME NEW p \in Request, Add(p) PROVE RequestEffect
  <2> DEFINE d == req[p].chunk
             new == [NoJob EXCEPT !.state = "waiting"]
  <2>1. UNCHANGED <<row, wk, kept, faults>>
    BY <1>5 DEF Add
  <2>2. (job[d].state = "none" /\ job' = [job EXCEPT ![d] = new]) \/ job' = job
    BY <1>5 DEF Add, AddJob
  <2>3. new.state = "waiting" /\ new.stalled = 0
    BY DEF NoJob
  <2> HIDE DEF new, d
  <2>4. \A c \in Chunk :
          \/ job'[c] = job[c]
          \/ job[c].state = "none" /\ job'[c].state = "waiting" /\ job'[c].stalled = 0
    BY <1>t, <2>2, <2>3
  <2> QED BY <2>1, <2>4 DEF RequestEffect
<1>6. ASSUME NEW p \in Request, MarkQueued(p) PROVE RequestEffect
  <2>1. /\ UNCHANGED <<job, wk, kept, faults>>
        /\ req[p].pc = "mark"
        /\ req[p].chunk \in Chunk
    BY <1>6 DEF MarkQueued, Shape, RowsExist, RequestHasRow
  <2>2. RowMoved(req[p].chunk, "QUEUED") /\ ReqMoved(p, "done")
    BY <1>6, <1>t, <2>1, StatusFrame, AnswerFrame DEF MarkQueued
  <2>3. /\ row'[req[p].chunk].status = "QUEUED" /\ req'[p].pc = "done"
        /\ \A d \in Chunk \ {req[p].chunk} : row'[d] = row[d]
    BY <2>2 DEF RowMoved, ReqMoved
  <2> QED BY <2>1, <2>3 DEF RequestEffect
<1> QED BY <1>1, <1>2, <1>3, <1>4, <1>5, <1>6 DEF RequestNext

\* A free worker takes a waiting job, with the attempts it has made.
TakeEffect(w, c) ==
    /\ UNCHANGED <<row, kept, faults>>
    /\ wk[w].pc = "idle"
    /\ job[c].state = "waiting"
    /\ job'[c].state = "active"
    /\ job'[c].owner = w
    /\ job'[c].attemptsMade = job[c].attemptsMade
    /\ job'[c].stalled = job[c].stalled
    /\ \A d \in Chunk \ {c} : job'[d] = job[d]
    /\ WorkerReset(w, "load", c)
    /\ wk'[w].attemptsMade = job[c].attemptsMade

LEMMA TakeDoes ==
    ASSUME Shape, NEW w \in Worker, NEW c \in Chunk, Take(w, c)
    PROVE  TakeEffect(w, c)
<1>t. wk \in [Worker -> WorkerType] /\ job \in [Chunk -> JobType]
  BY DEF Shape, TypeOK
<1> DEFINE n == [job[c] EXCEPT !.state = "active", !.owner = w]
<1>1. /\ n.state = "active" /\ n.owner = w /\ n.attemptsMade = job[c].attemptsMade
      /\ n.stalled = job[c].stalled
  BY <1>t DEF JobType
<1>2. job' = [job EXCEPT ![c] = n]
  BY DEF Take
<1> HIDE DEF n
<1>3. job'[c] = n /\ \A d \in Chunk \ {c} : job'[d] = job[d]
  BY <1>t, <1>2
<1>4. job[c].attemptsMade \in Nat
  BY <1>t DEF JobType
<1>5. WorkerReset(w, "load", c) /\ wk'[w].attemptsMade = job[c].attemptsMade
  BY <1>t, <1>4, TakeFrame DEF Take
<1>6. UNCHANGED <<row, kept, faults>> /\ wk[w].pc = "idle" /\ job[c].state = "waiting"
  BY DEF Take
<1> QED BY <1>1, <1>3, <1>5, <1>6 DEF TakeEffect

\* An expired lock sends the job back, or, too often, fails it.
StalledEffect(c) ==
    /\ UNCHANGED <<row, kept, wk>>
    /\ job[c].state = "active"
    /\ \A d \in Chunk \ {c} : job'[d] = job[d]
    /\ job'[c].attemptsMade = job[c].attemptsMade
    /\ \/ job'[c].state = "waiting" /\ job'[c].stalled = job[c].stalled + 1
       \/ /\ job'[c].state = "failed" /\ job'[c].stalled = job[c].stalled
          /\ job[c].stalled >= MaxStalled
    /\ \/ Dead(c) /\ faults' = faults
       \/ Fault("stall")

LEMMA StalledDoes ==
    ASSUME Shape, NEW c \in Chunk, Stalled(c)
    PROVE  StalledEffect(c)
<1>t. job \in [Chunk -> JobType] /\ job[c] \in JobType
  BY DEF Shape, TypeOK
<1>1. /\ UNCHANGED <<row, kept, wk>> /\ job[c].state = "active"
      /\ ((Dead(c) /\ faults' = faults) \/ Fault("stall"))
  BY DEF Stalled
<1> DEFINE back == Redelivered(job[c])
           fail == Unlocked(job[c], "failed")
<1>2. \/ job' = [job EXCEPT ![c] = back]
      \/ job' = [job EXCEPT ![c] = fail] /\ job[c].stalled >= MaxStalled
  BY DEF Stalled
<1>3. /\ back.state = "waiting" /\ back.stalled = job[c].stalled + 1
      /\ back.attemptsMade = job[c].attemptsMade
      /\ fail.state = "failed" /\ fail.stalled = job[c].stalled
      /\ fail.attemptsMade = job[c].attemptsMade
  BY <1>t, JobOutcomes
<1> HIDE DEF back, fail
<1>4. \A d \in Chunk \ {c} : job'[d] = job[d]
  BY <1>t, <1>2
<1>5. job'[c] = back \/ (job'[c] = fail /\ job[c].stalled >= MaxStalled)
  BY <1>t, <1>2
<1> QED BY <1>1, <1>3, <1>4, <1>5 DEF StalledEffect

\* process() goes on with the same job; it writes the status of its own row only.
MoveEffect(w) ==
    LET c == wk[w].job
        s == row[c].status
        t == row'[c].status
        From(l, m) == wk[w].pc = l /\ wk'[w].pc = m
    IN  /\ UNCHANGED <<job, kept>>
        /\ wk[w].pc # "idle" /\ wk'[w].pc # "idle"
        /\ WorkerMoved(w, wk'[w].pc)
        /\ \A d \in Chunk \ {c} : row'[d] = row[d]
        /\ \/ From("load", "finish") /\ s \in Completed /\ t = s
           \/ From("load", "start") /\ s \notin Completed /\ t = s
           \/ From("start", "split") /\ t = "PROCESSING"
           \/ From("split", "commit") /\ t = s
           \/ From("commit", "mark") /\ t = s
           \/ wk[w].pc \in {"split", "commit"} /\ wk'[w].pc = "catch" /\ t = s
           \/ From("mark", "finish") /\ t \in Completed
           \/ From("catch", "throw") /\ t = "DEAD_LETTER" /\ wk[w].attemptsMade + 1 >= MaxAttempts
           \/ From("catch", "throw") /\ t = "FAILED" /\ ~(wk[w].attemptsMade + 1 >= MaxAttempts)
           \/ wk[w].pc \in {"start", "mark"} /\ wk'[w].pc = "catch" /\ t = s /\ Fault("outbox")
           \/ wk[w].pc \in {"load", "catch"} /\ wk'[w].pc = "throw" /\ t = s /\ Fault("outbox")
        /\ faults' = faults \/ Fault("outbox")

\* MoveEffect from the label reached, the status left and the reason.
LEMMA MoveFrom ==
    ASSUME NEW w \in Worker, wk[w].pc # "idle", UNCHANGED <<job, kept>>,
           NEW l \in {"start", "split", "commit", "mark", "catch", "finish", "throw"},
           WorkerMoved(w, l),
           \A d \in Chunk \ {wk[w].job} : row'[d] = row[d],
           LET s == row[wk[w].job].status
               t == row'[wk[w].job].status
           IN  \/ wk[w].pc = "load" /\ l = "finish" /\ s \in Completed /\ t = s
               \/ wk[w].pc = "load" /\ l = "start" /\ s \notin Completed /\ t = s
               \/ wk[w].pc = "start" /\ l = "split" /\ t = "PROCESSING"
               \/ wk[w].pc = "split" /\ l = "commit" /\ t = s
               \/ wk[w].pc = "commit" /\ l = "mark" /\ t = s
               \/ wk[w].pc \in {"split", "commit"} /\ l = "catch" /\ t = s
               \/ wk[w].pc = "mark" /\ l = "finish" /\ t \in Completed
               \/ /\ wk[w].pc = "catch" /\ l = "throw" /\ t = "DEAD_LETTER"
                  /\ wk[w].attemptsMade + 1 >= MaxAttempts
               \/ /\ wk[w].pc = "catch" /\ l = "throw" /\ t = "FAILED"
                  /\ ~(wk[w].attemptsMade + 1 >= MaxAttempts)
               \/ wk[w].pc \in {"start", "mark"} /\ l = "catch" /\ t = s /\ Fault("outbox")
               \/ wk[w].pc \in {"load", "catch"} /\ l = "throw" /\ t = s /\ Fault("outbox"),
           faults' = faults \/ Fault("outbox")
    PROVE  MoveEffect(w)
<1>1. wk'[w].pc = l
  BY DEF WorkerMoved
<1> QED BY <1>1, Zenon DEF MoveEffect

LEMMA MoveDoes ==
    ASSUME Shape, NEW w \in Worker,
           \/ Load(w) \/ MarkProcessing(w) \/ Split(w) \/ Commit(w) \/ TxFails(w)
           \/ MarkCompleted(w) \/ MarkFailed(w) \/ OutboxFails(w)
    PROVE  MoveEffect(w)
<1> DEFINE c == wk[w].job
<1>t. /\ wk \in [Worker -> WorkerType] /\ row \in [Chunk -> RowType]
      /\ version \in [Record -> Nat]
  BY DEF Shape, TypeOK
<1>p. wk[w].pc # "idle" /\ UNCHANGED <<job, kept>>
  BY DEF Load, MarkProcessing, Split, Commit, TxFails, MarkCompleted, MarkFailed, OutboxFails
<1>c. c \in Chunk
  BY <1>p, AtWork
<1>1. CASE Load(w)
  <2>1. row' = row /\ faults' = faults /\ wk[w].pc = "load"
    BY <1>1 DEF Load
  <2>2. CASE row[c].status \in Completed
    <3>1. WorkerMoved(w, "finish")
      BY <1>1, <1>t, <2>2, StepFrame DEF Load
    <3> QED BY <1>p, <2>1, <2>2, <3>1, MoveFrom
  <2>3. CASE row[c].status \notin Completed
    <3>1. WorkerMoved(w, "start")
      BY <1>1, <1>t, <2>3, StepFrame DEF Load
    <3> QED BY <1>p, <2>1, <2>3, <3>1, MoveFrom
  <2> QED BY <2>2, <2>3
<1>2. CASE MarkProcessing(w)
  <2>1. faults' = faults /\ wk[w].pc = "start"
    BY <1>2 DEF MarkProcessing
  <2>2. WorkerMoved(w, "split") /\ RowMoved(c, "PROCESSING")
    BY <1>2, <1>t, <1>c, StepFrame, StatusFrame DEF MarkProcessing
  <2>3. row'[c].status = "PROCESSING" /\ \A d \in Chunk \ {c} : row'[d] = row[d]
    BY <2>2 DEF RowMoved
  <2> QED BY <1>p, <2>1, <2>2, <2>3, MoveFrom
<1>3. CASE Split(w)
  <2> DEFINE h == row[wk[w].job].payload
             rows == IF h \in Blind THEN {} ELSE {r \in Touches[h] : Exists(r)}
             sn == [r \in Record |-> IF r \in rows THEN version[r] ELSE 0]
  <2>1. row' = row /\ faults' = faults /\ wk[w].pc = "split"
    BY <1>3 DEF Split
  <2>2. sn \in [Record -> Nat]
    BY <1>t
  <2>3. wk' = [wk EXCEPT ![w] = [@ EXCEPT !.pc = "commit", !.seen = sn]]
    BY <1>3 DEF Split
  <2> HIDE DEF sn
  <2>4. WorkerMoved(w, "commit")
    BY <2>2, <2>3, <1>t, ReadFrame
  <2> QED BY <1>p, <2>1, <2>4, MoveFrom
<1>4. CASE Commit(w)
  <2>1. row' = row /\ faults' = faults /\ wk[w].pc = "commit"
    BY <1>4 DEF Commit
  <2>2. WorkerMoved(w, "mark")
    BY <1>4, <1>t, StepFrame DEF Commit
  <2> QED BY <1>p, <2>1, <2>2, MoveFrom
<1>5. CASE TxFails(w)
  <2>1. row' = row /\ faults' = faults /\ wk[w].pc \in {"split", "commit"}
    BY <1>5 DEF TxFails
  <2>2. WorkerMoved(w, "catch")
    BY <1>5, <1>t, StepFrame DEF TxFails
  <2> QED BY <1>p, <2>1, <2>2, MoveFrom
<1>6. CASE MarkCompleted(w)
  <2>1. faults' = faults /\ wk[w].pc = "mark"
    BY <1>6 DEF MarkCompleted
  <2>2. WorkerMoved(w, "finish")
    BY <1>6, <1>t, StepFrame DEF MarkCompleted
  <2>3. row'[c].status \in Completed /\ \A d \in Chunk \ {c} : row'[d] = row[d]
    <3> DEFINE h == row[c].payload
               acc == IF h \in Blind THEN {} ELSE AcceptedOf(h, wk[w].seen)
               con == ConflictedOf(h, wk[w].seen)
               s == IF con = {} THEN "COMPLETED" ELSE "COMPLETED_WITH_CONFLICTS"
    <3>1. row' = [row EXCEPT ![c] = [@ EXCEPT !.status = s, !.accepted = acc, !.conflicted = con]]
      BY <1>6 DEF MarkCompleted
    <3>2. s \in Completed /\ acc \in SUBSET Record /\ con \in SUBSET Record
      BY <1>p, AtWork, PayloadData
    <3> HIDE DEF acc, con, s, c
    <3>3. RowMoved(c, s)
      BY <3>1, <3>2, <1>t, <1>c, ResultFrame
    <3> QED BY <3>2, <3>3 DEF RowMoved
  <2> QED BY <1>p, <2>1, <2>2, <2>3, MoveFrom
<1>7. CASE MarkFailed(w)
  <2> DEFINE last == wk[w].attemptsMade + 1 >= MaxAttempts
  <2>1. faults' = faults /\ wk[w].pc = "catch"
    BY <1>7 DEF MarkFailed
  <2>2. WorkerMoved(w, "throw")
    BY <1>7, <1>t, StepFrame DEF MarkFailed
  <2>3. row' = [row EXCEPT ![c].status = IF last THEN "DEAD_LETTER" ELSE "FAILED"]
    BY <1>7 DEF MarkFailed
  <2> HIDE DEF last, c
  <2>4. CASE last
    <3>1. RowMoved(c, "DEAD_LETTER")
      BY <1>c, <1>t, <2>3, <2>4, StatusFrame
    <3>2. row'[c].status = "DEAD_LETTER" /\ \A d \in Chunk \ {c} : row'[d] = row[d]
      BY <3>1 DEF RowMoved
    <3> QED BY <1>p, <2>1, <2>2, <2>4, <3>2, MoveFrom DEF last, c
  <2>5. CASE ~last
    <3>1. RowMoved(c, "FAILED")
      BY <1>c, <1>t, <2>3, <2>5, StatusFrame
    <3>2. row'[c].status = "FAILED" /\ \A d \in Chunk \ {c} : row'[d] = row[d]
      BY <3>1 DEF RowMoved
    <3> QED BY <1>p, <2>1, <2>2, <2>5, <3>2, MoveFrom DEF last, c
  <2> QED BY <2>4, <2>5
<1>8. CASE OutboxFails(w)
  <2>1. row' = row /\ Fault("outbox") /\ wk[w].pc \in {"load", "start", "mark", "catch"}
    BY <1>8 DEF OutboxFails
  <2>2. CASE wk[w].pc \in {"start", "mark"}
    <3>1. WorkerMoved(w, "catch")
      BY <1>8, <1>t, <2>2, StepFrame DEF OutboxFails
    <3> QED BY <1>p, <2>1, <2>2, <3>1, MoveFrom
  <2>3. CASE wk[w].pc \in {"load", "catch"}
    <3>1. WorkerMoved(w, "throw")
      BY <1>8, <1>t, <2>3, StepFrame DEF OutboxFails
    <3> QED BY <1>p, <2>1, <2>3, <3>1, MoveFrom
  <2> QED BY <2>1, <2>2, <2>3
<1> QED BY <1>1, <1>2, <1>3, <1>4, <1>5, <1>6, <1>7, <1>8

\* The worker is done: its job is completed, and the queue may forget one
\* completed job, the oldest it keeps.
FinishEffect(w) ==
    /\ UNCHANGED <<row, faults>>
    /\ wk[w].pc = "finish"
    /\ WorkerReset(w, "idle", Nil)
    /\ \A d \in Chunk :
         \/ d # wk[w].job /\ job'[d] = job[d]
         \/ /\ d = wk[w].job /\ job'[d].state = "completed"
            /\ job'[d].attemptsMade = job[d].attemptsMade /\ job'[d].stalled = job[d].stalled
         \/ (d = wk[w].job \/ job[d].state = "completed") /\ job'[d] = NoJob
    /\ KeptDone'

LEMMA FinishDoes ==
    ASSUME LockInv, NEW w \in Worker, Finish(w)
    PROVE  FinishEffect(w)
<1>t. /\ wk \in [Worker -> WorkerType] /\ job \in [Chunk -> JobType] /\ kept \in Seq(Chunk)
  BY DEF LockInv, Shape, TypeOK
<1> DEFINE j == wk[w].job
           log == Append(kept, j)
           n == Unlocked(job[j], "completed")
           done == [job EXCEPT ![j] = n]
<1>1. UNCHANGED <<row, faults>> /\ wk[w].pc = "finish" /\ WorkerReset(w, "idle", Nil)
  BY <1>t, RetireFrame DEF Finish
<1>2. j \in Chunk /\ HoldsJob(w) /\ job[j].state = "active"
  BY <1>1, AtWork DEF LockInv, OwnsJob, Holds, HoldsJob
<1>3. \/ job' = done /\ kept' = log
      \/ job' = [done EXCEPT ![Head(log)] = NoJob] /\ kept' = Tail(log)
  BY <1>2 DEF Finish
<1>4. /\ n.state = "completed" /\ n.attemptsMade = job[j].attemptsMade
      /\ n.stalled = job[j].stalled
  BY <1>2, <1>t, JobOutcomes
<1>5. /\ log \in Seq(Chunk) /\ Len(log) = Len(kept) + 1
      /\ \A i \in 1..Len(kept) : log[i] = kept[i]
      /\ log[Len(log)] = j
      /\ Head(log) = log[1] /\ Tail(log) \in Seq(Chunk) /\ Len(Tail(log)) = Len(kept)
      /\ \A i \in 1..Len(kept) : Tail(log)[i] = log[i + 1]
  <2>1. /\ log \in Seq(Chunk) /\ Len(log) = Len(kept) + 1
        /\ \A i \in 1..Len(kept) : log[i] = kept[i]
        /\ log[Len(log)] = j
    BY <1>t, <1>2
  <2> HIDE DEF log
  <2>2. log # <<>> /\ Len(kept) \in Nat
    BY <1>t, <2>1
  <2> QED BY <2>1, <2>2
<1> HIDE DEF n, log, j
<1>6. done \in [Chunk -> {job[d] : d \in Chunk} \cup {n}] /\ done[j] = n
      /\ \A d \in Chunk \ {j} : done[d] = job[d]
  BY <1>t, <1>2
<1> HIDE DEF done
<1>7. \A i \in 1..Len(kept) : job[kept[i]].state = "completed" /\ kept[i] \in Chunk /\ kept[i] # j
  BY <1>t, <1>2 DEF LockInv, KeptDone
<1>8. /\ \A i \in 1..Len(log) : done[log[i]].state = "completed" /\ log[i] \in Chunk
      /\ \A i, k \in 1..Len(log) : log[i] = log[k] => i = k
  <2>0. Len(kept) \in Nat
    BY <1>t
  <2>1. \A i \in 1..Len(log) : i \in 1..Len(kept) \/ (i = Len(log) /\ log[i] = j)
    BY <2>0, <1>5
  <2>2. \A i \in 1..Len(log) : done[log[i]].state = "completed" /\ log[i] \in Chunk
    BY <2>1, <1>2, <1>4, <1>5, <1>6, <1>7
  <2>3. ASSUME NEW i \in 1..Len(log), NEW k \in 1..Len(log), log[i] = log[k] PROVE i = k
    <3>1. CASE i \in 1..Len(kept) /\ k \in 1..Len(kept)
      <4>1. kept[i] = kept[k]
        BY <2>3, <3>1, <1>5
      <4> QED BY <3>1, <4>1, <1>t DEF LockInv, KeptDone
    <3>2. CASE i \in 1..Len(kept) /\ log[k] = j
      BY <2>3, <3>2, <1>5, <1>7
    <3>3. CASE k \in 1..Len(kept) /\ log[i] = j
      BY <2>3, <3>3, <1>5, <1>7
    <3>4. CASE i = Len(log) /\ k = Len(log)
      BY <3>4
    <3> QED BY <2>1, <3>1, <3>2, <3>3, <3>4
  <2> QED BY <2>2, <2>3
<1>9. log[1] \in Chunk /\ 1 \in 1..Len(log) /\ (log[1] = j \/ job[log[1]].state = "completed")
  <2>1. 1 \in 1..Len(log)
    BY <1>t, <1>5
  <2>2. log[1] = j \/ 1 \in 1..Len(kept)
    BY <1>t, <1>5
  <2> QED BY <1>5, <1>7, <1>8, <2>1, <2>2
<1>10. CASE job' = done /\ kept' = log
  <2>1. KeptDone'
    <3>1. DOMAIN kept' = 1..Len(log)
      BY <1>5, <1>10
    <3> QED BY <3>1, <1>8, <1>10 DEF KeptDone
  <2>2. \A d \in Chunk :
         \/ d # j /\ job'[d] = job[d]
         \/ /\ d = j /\ job'[d].state = "completed"
            /\ job'[d].attemptsMade = job[d].attemptsMade /\ job'[d].stalled = job[d].stalled
    BY <1>4, <1>6, <1>10
  <2> QED BY <1>1, <2>1, <2>2 DEF FinishEffect, j
<1>11. CASE job' = [done EXCEPT ![Head(log)] = NoJob] /\ kept' = Tail(log)
  <2>1. job'[log[1]] = NoJob /\ \A d \in Chunk \ {log[1]} : job'[d] = done[d]
    BY <1>5, <1>6, <1>9, <1>11
  <2>2. KeptDone'
    <3>1. DOMAIN kept' = 1..Len(kept) /\ Len(kept) \in Nat
      BY <1>t, <1>5, <1>11
    <3>2. \A i \in 1..Len(kept) : kept'[i] = log[i + 1] /\ i + 1 \in 1..Len(log) /\ i + 1 # 1
      BY <3>1, <1>5, <1>11
    <3>3. \A i \in 1..Len(kept) : job'[kept'[i]].state = "completed"
      BY <3>2, <2>1, <1>8, <1>9
    <3>4. ASSUME NEW i \in 1..Len(kept), NEW k \in 1..Len(kept), kept'[i] = kept'[k] PROVE i = k
      <4>1. i + 1 = k + 1
        BY <3>2, <3>4, <1>8
      <4> QED BY <4>1, <3>1
    <3> QED BY <3>1, <3>3, <3>4 DEF KeptDone
  <2>3. \A d \in Chunk :
         \/ d # j /\ job'[d] = job[d]
         \/ /\ d = j /\ job'[d].state = "completed"
            /\ job'[d].attemptsMade = job[d].attemptsMade /\ job'[d].stalled = job[d].stalled
         \/ (d = j \/ job[d].state = "completed") /\ job'[d] = NoJob
    BY <1>4, <1>6, <1>9, <2>1
  <2> QED BY <1>1, <2>2, <2>3 DEF FinishEffect, j
<1> QED BY <1>3, <1>10, <1>11

\* The worker failed: an attempt is spent.
ThrowEffect(w) ==
    LET j == wk[w].job
    IN  /\ UNCHANGED <<row, kept, faults>>
        /\ wk[w].pc = "throw"
        /\ WorkerReset(w, "idle", Nil)
        /\ job[j].state = "active"
        /\ \A d \in Chunk \ {j} : job'[d] = job[d]
        /\ job'[j].state = IF job[j].attemptsMade + 1 < MaxAttempts THEN "waiting" ELSE "failed"
        /\ job'[j].attemptsMade = job[j].attemptsMade + 1
        /\ job'[j].stalled = job[j].stalled

LEMMA ThrowDoes ==
    ASSUME LockInv, NEW w \in Worker, Throw(w)
    PROVE  ThrowEffect(w)
<1>t. wk \in [Worker -> WorkerType] /\ job \in [Chunk -> JobType]
  BY DEF LockInv, Shape, TypeOK
<1> DEFINE j == wk[w].job
           n == Spent(job[j])
<1>1. UNCHANGED <<row, kept, faults>> /\ wk[w].pc = "throw" /\ WorkerReset(w, "idle", Nil)
  BY <1>t, RetireFrame DEF Throw
<1>2. j \in Chunk /\ HoldsJob(w) /\ job[j].state = "active"
  BY <1>1, AtWork DEF LockInv, OwnsJob, Holds, HoldsJob
<1>3. job' = [job EXCEPT ![j] = n]
  BY <1>2 DEF Throw
<1>4. /\ n.state = IF job[j].attemptsMade + 1 < MaxAttempts THEN "waiting" ELSE "failed"
      /\ n.attemptsMade = job[j].attemptsMade + 1
      /\ n.stalled = job[j].stalled
  BY <1>2, <1>t, JobOutcomes
<1> HIDE DEF n, j
<1>5. job'[j] = n /\ \A d \in Chunk \ {j} : job'[d] = job[d]
  BY <1>t, <1>2, <1>3
<1> QED BY <1>1, <1>2, <1>4, <1>5, Zenon DEF ThrowEffect, j

\* The process of the worker stops: the job stays as it is, without a worker.
CrashEffect(w) ==
    /\ UNCHANGED <<row, job, kept>>
    /\ wk[w].pc # "idle"
    /\ WorkerReset(w, "idle", Nil)
    /\ Fault("crash")

LEMMA CrashDoes == ASSUME Shape, NEW w \in Worker, Crash(w) PROVE CrashEffect(w)
<1>1. wk \in [Worker -> WorkerType]
  BY DEF Shape, TypeOK
<1> QED BY <1>1, RetireFrame DEF Crash, CrashEffect

\* The step of a system in which no live worker loses its lock.
LEMMA Effects ==
    ASSUME LockInv, [Next]_vars, "stall" \notin FaultKinds
    PROVE  \/ RequestEffect
           \/ \E w \in Worker, c \in Chunk : TakeEffect(w, c)
           \/ \E c \in Chunk : StalledEffect(c) /\ Dead(c) /\ faults' = faults
           \/ \E w \in Worker : MoveEffect(w) \/ FinishEffect(w) \/ ThrowEffect(w) \/ CrashEffect(w)
           \/ UNCHANGED vars
<1>s. Shape
  BY DEF LockInv
<1>1. CASE \/ \E p \in Request : RequestNext(p) \/ RequestFails(p)
           \/ \E c \in Chunk : GetStatus(c)
  BY <1>1, <1>s, RequestDoes
<1>2. ASSUME NEW c \in Chunk, Stalled(c)
      PROVE  StalledEffect(c) /\ Dead(c) /\ faults' = faults
  BY <1>2, <1>s, StalledDoes DEF StalledEffect, Fault
<1>3. ASSUME NEW w \in Worker, NEW c \in Chunk, Take(w, c) PROVE TakeEffect(w, c)
  BY <1>3, <1>s, TakeDoes
<1>4. ASSUME NEW w \in Worker, WorkerNext(w) \/ OutboxFails(w) \/ Crash(w)
      PROVE  MoveEffect(w) \/ FinishEffect(w) \/ ThrowEffect(w) \/ CrashEffect(w)
  BY <1>4, <1>s, MoveDoes, FinishDoes, ThrowDoes, CrashDoes DEF WorkerNext
<1> QED BY <1>1, <1>2, <1>3, <1>4, Actors

-----------------------------------------------------------------------------
(* A worker never takes a completed row back *)

LEMMA OwnsJobStep == LockInv /\ [Next]_vars /\ "stall" \notin FaultKinds => OwnsJob'
<1> SUFFICES ASSUME LockInv, [Next]_vars, "stall" \notin FaultKinds, NEW w \in Worker
             PROVE  Holds(w)'
  BY DEF OwnsJob
<1>h. Holds(w) /\ (wk[w].pc # "idle" => wk[w].job \in Chunk)
  BY AtWork DEF LockInv, OwnsJob
<1>i. \A c \in Chunk : job[c] \in JobType
  BY DEF LockInv, Shape, TypeOK
\* A worker that does not move keeps its job as long as the job does not.
<1>k. ASSUME wk'[w] = wk[w], wk[w].pc # "idle" => job'[wk[w].job] = job[wk[w].job]
      PROVE  Holds(w)'
  BY <1>h, <1>k DEF Holds, HoldsJob
<1>1. CASE RequestEffect
  BY <1>1, <1>h, <1>k DEF RequestEffect, Holds, HoldsJob
<1>2. ASSUME NEW v \in Worker, NEW c \in Chunk, TakeEffect(v, c) PROVE Holds(w)'
  <2>1. CASE v = w
    BY <1>2, <2>1, NilAssumption DEF TakeEffect, WorkerReset, Holds, HoldsJob
  <2>2. CASE v # w
    <3>1. wk'[w] = wk[w]
      BY <1>2, <2>2 DEF TakeEffect, WorkerReset
    <3>2. wk[w].pc # "idle" => wk[w].job # c
      BY <1>2, <1>h DEF TakeEffect, Holds, HoldsJob
    <3> QED BY <1>2, <1>h, <1>k, <3>1, <3>2 DEF TakeEffect
  <2> QED BY <2>1, <2>2
<1>3. ASSUME NEW c \in Chunk, StalledEffect(c), Dead(c) PROVE Holds(w)'
  <2>1. wk[w].pc # "idle" => wk[w].job # c
    BY <1>3, <1>h DEF Dead, Holds, HoldsJob
  <2> QED BY <1>3, <1>h, <1>k, <2>1 DEF StalledEffect
<1>4. ASSUME NEW v \in Worker, MoveEffect(v) PROVE Holds(w)'
  <2>1. CASE v = w
    <3>1. /\ wk'[w].pc # "idle" /\ wk'[w].job = wk[w].job
          /\ wk'[w].attemptsMade = wk[w].attemptsMade /\ job' = job /\ wk[w].pc # "idle"
      BY <1>4, <2>1 DEF MoveEffect, WorkerMoved
    <3> QED BY <3>1, <1>h DEF Holds, HoldsJob
  <2>2. CASE v # w
    <3>1. wk'[w] = wk[w] /\ job' = job
      BY <1>4, <2>2 DEF MoveEffect, WorkerMoved
    <3> QED BY <1>k, <3>1
  <2> QED BY <2>1, <2>2
<1>5. ASSUME NEW v \in Worker, FinishEffect(v) \/ ThrowEffect(v) \/ CrashEffect(v) PROVE Holds(w)'
  <2>1. WorkerReset(v, "idle", Nil) /\ wk[v].pc # "idle"
    BY <1>5 DEF FinishEffect, ThrowEffect, CrashEffect
  <2>2. CASE v = w
    BY <2>1, <2>2 DEF WorkerReset, Holds
  <2>3. CASE v # w
    <3>1. wk'[w] = wk[w]
      BY <2>1, <2>3 DEF WorkerReset
    <3>2. wk[w].pc # "idle" => wk[w].job # wk[v].job /\ job[wk[w].job].state = "active"
      BY <2>1, <2>3, <1>h, OneWorker DEF LockInv, Holds, HoldsJob
    <3>3. wk[w].pc # "idle" => job'[wk[w].job] = job[wk[w].job]
      BY <1>5, <1>h, <3>2 DEF FinishEffect, ThrowEffect, CrashEffect
    <3> QED BY <1>k, <3>1, <3>3
  <2> QED BY <2>2, <2>3
<1>6. CASE UNCHANGED vars
  BY <1>6, <1>k
<1> QED BY <1>1, <1>2, <1>3, <1>4, <1>5, <1>6, Effects

LEMMA KeptDoneStep == LockInv /\ [Next]_vars /\ "stall" \notin FaultKinds => KeptDone'
<1> SUFFICES ASSUME LockInv, [Next]_vars, "stall" \notin FaultKinds PROVE KeptDone'
  OBVIOUS
\* The steps that keep no job more or less do not touch the completed ones.
<1>k. ASSUME kept' = kept, \A c \in Chunk : job[c].state = "completed" => job'[c] = job[c]
      PROVE  KeptDone'
  <2>1. \A i \in DOMAIN kept : kept[i] \in Chunk
    BY DEF LockInv, Shape, TypeOK
  <2> QED BY <1>k, <2>1 DEF LockInv, KeptDone
<1>1. CASE RequestEffect
  BY <1>1, <1>k DEF RequestEffect
<1>2. ASSUME NEW v \in Worker, NEW c \in Chunk, TakeEffect(v, c) PROVE KeptDone'
  BY <1>2, <1>k DEF TakeEffect
<1>3. ASSUME NEW c \in Chunk, StalledEffect(c) PROVE KeptDone'
  BY <1>3, <1>k DEF StalledEffect
<1>4. ASSUME NEW v \in Worker, MoveEffect(v) \/ FinishEffect(v) \/ ThrowEffect(v) \/ CrashEffect(v)
      PROVE  KeptDone'
  BY <1>4, <1>k DEF MoveEffect, FinishEffect, ThrowEffect, CrashEffect
<1>5. CASE UNCHANGED vars
  BY <1>5, <1>k
<1> QED BY <1>1, <1>2, <1>3, <1>4, <1>5, Effects

LEMMA StillOpenStep == LockInv /\ [Next]_vars /\ "stall" \notin FaultKinds => StillOpen'
<1> SUFFICES ASSUME LockInv, [Next]_vars, "stall" \notin FaultKinds, NEW w \in Worker,
                    wk'[w].pc \in Working
             PROVE  row'[wk'[w].job].status \notin Completed
  BY DEF StillOpen
<1>h. /\ wk[w].pc \in Working => row[wk[w].job].status \notin Completed
      /\ wk[w].pc # "idle" => wk[w].job \in Chunk
  BY AtWork DEF LockInv, StillOpen
<1>1. CASE RequestEffect
  <2>1. wk'[w] = wk[w] /\ wk[w].pc \in Working /\ wk[w].job \in Chunk
    BY <1>1, <1>h DEF RequestEffect, Working
  <2> QED BY <1>1, <1>h, <2>1 DEF RequestEffect
<1>2. ASSUME NEW v \in Worker, NEW c \in Chunk, TakeEffect(v, c)
      PROVE  row'[wk'[w].job].status \notin Completed
  <2>1. wk'[w] = wk[w] /\ row' = row
    BY <1>2 DEF TakeEffect, WorkerReset, Working
  <2> QED BY <1>h, <2>1
<1>3. ASSUME NEW c \in Chunk, StalledEffect(c) PROVE row'[wk'[w].job].status \notin Completed
  BY <1>3, <1>h DEF StalledEffect
<1>4. ASSUME NEW v \in Worker, MoveEffect(v) PROVE row'[wk'[w].job].status \notin Completed
  <2>1. CASE v = w
    BY <1>4, <1>h, <2>1 DEF MoveEffect, WorkerMoved, Working
  <2>2. CASE v # w
    <3>1. wk'[w] = wk[w] /\ wk[w].pc # "idle" /\ wk[v].pc # "idle"
      BY <1>4, <2>2 DEF MoveEffect, WorkerMoved, Working
    <3>2. wk[w].job # wk[v].job
      BY <2>2, <3>1, OneWorker DEF LockInv
    <3>3. row'[wk[w].job] = row[wk[w].job]
      BY <1>4, <1>h, <3>1, <3>2 DEF MoveEffect
    <3> QED BY <1>h, <3>1, <3>3
  <2> QED BY <2>1, <2>2
<1>5. ASSUME NEW v \in Worker, FinishEffect(v) \/ ThrowEffect(v) \/ CrashEffect(v)
      PROVE  row'[wk'[w].job].status \notin Completed
  <2>1. wk'[w] = wk[w] /\ row' = row
    BY <1>5 DEF FinishEffect, ThrowEffect, CrashEffect, WorkerReset, Working
  <2> QED BY <1>h, <2>1
<1>6. CASE UNCHANGED vars
  BY <1>6, <1>h
<1> QED BY <1>1, <1>2, <1>3, <1>4, <1>5, <1>6, Effects

LEMMA LockInvHolds == ASSUME "stall" \notin FaultKinds PROVE Spec => []LockInv
<1>1. Init => LockInv
  <2> SUFFICES ASSUME Init PROVE LockInv
    OBVIOUS
  <2>1. OwnsJob /\ KeptDone /\ StillOpen
    BY DEF Init, OwnsJob, Holds, KeptDone, StillOpen, Working, IdleWorker
  <2> QED BY <2>1, InitShape DEF LockInv
<1>2. LockInv /\ [Next]_vars => LockInv'
  <2>1. LockInv => Shape
    BY DEF LockInv
  <2> QED BY <2>1, NextShape, OwnsJobStep, KeptDoneStep, StillOpenStep DEF LockInv
<1> QED BY <1>1, <1>2, PTL DEF Spec

LEMMA KeepsCompletedStep ==
    ASSUME LockInv, [Next]_vars, "stall" \notin FaultKinds, NEW c \in Chunk,
           row[c].status \in Completed, row'[c].status \notin Completed
    PROVE  \E p \in Request : req[p].pc = "mark" /\ req[p].chunk = c /\ req'[p].pc = "done"
<1>1. CASE RequestEffect
  BY <1>1 DEF RequestEffect
<1>2. ASSUME NEW v \in Worker, MoveEffect(v) PROVE FALSE
  <2>1. c = wk[v].job
    BY <1>2 DEF MoveEffect
  <2>2. wk[v].pc \notin Working
    BY <2>1 DEF LockInv, StillOpen
  <2> QED BY <1>2, <2>1, <2>2 DEF MoveEffect, Working
<1>3. CASE row' = row
  BY <1>3
<1> QED BY <1>1, <1>2, <1>3, Effects
        DEF TakeEffect, StalledEffect, FinishEffect, ThrowEffect, CrashEffect

\* While no live worker loses its lock on a job, whatever else fails (crashes,
\* outbox statements, requests), no worker takes a completed row back: only a
\* request that read the row before it was completed can (markQueued).
THEOREM CompletedIsKept == ASSUME "stall" \notin FaultKinds PROVE Spec => WorkersKeepCompleted
<1>1. LockInv /\ [Next]_vars =>
        [\A c \in Chunk :
            row[c].status \in Completed /\ row'[c].status \notin Completed =>
                \E p \in Request : req[p].pc = "mark" /\ req[p].chunk = c /\ req'[p].pc = "done"]_vars
  BY KeepsCompletedStep
<1> QED BY <1>1, LockInvHolds, PTL DEF Spec, WorkersKeepCompleted

-----------------------------------------------------------------------------
(* The status of a failed chunk agrees with what its job is about to do *)

Failures == {"FAILED", "DEAD_LETTER"}

\* Every delivery that was cut short was cut short by a crash of its worker.
FewStalls ==
    /\ faults <= MaxFaults
    /\ \A c \in Chunk :
         /\ job[c].stalled <= faults
         /\ job[c].state = "active" /\ Dead(c) => job[c].stalled < faults

\* A chunk whose job does not exist, or is completed, is not reported as failed.
Settled == \A c \in Chunk : job[c].state \in {"none", "completed"} => row[c].status \notin Failures

\* A worker about to complete its job does not leave a failure behind, and one
\* about to fail it announces a retry only if there will be one.
Ending ==
    \A w \in Worker :
        /\ wk[w].pc = "finish" => row[wk[w].job].status \notin Failures
        /\ wk[w].pc = "throw" /\ row[wk[w].job].status = "FAILED" =>
             wk[w].attemptsMade + 1 < MaxAttempts

RetryInv == LockInv /\ FewStalls /\ Settled /\ Ending /\ FailureIsRecorded

\* The faults of this section: crashes and failed requests, no more in number than
\* the stalls BullMQ forgives a job.
FewCrashes == FaultKinds \subseteq {"crash", "request"} /\ MaxFaults <= MaxStalled

LEMMA FewStallsStep == RetryInv /\ [Next]_vars /\ FewCrashes => FewStalls'
<1> SUFFICES ASSUME RetryInv, [Next]_vars, FewCrashes PROVE FewStalls'
  OBVIOUS
<1>t. /\ faults \in Nat /\ MaxFaults \in Nat /\ faults <= MaxFaults
      /\ \A c \in Chunk : /\ job[c].stalled \in Nat /\ job[c].stalled <= faults
                          /\ job[c].state = "active" /\ Dead(c) => job[c].stalled < faults
  BY BoundAssumption DEF RetryInv, LockInv, Shape, TypeOK, JobType, FewStalls
<1>s. LockInv /\ "stall" \notin FaultKinds /\ "outbox" \notin FaultKinds
  BY DEF RetryInv, FewCrashes
<1>f. faults' \in {faults, faults + 1} /\ faults' <= MaxFaults
  <2>1. faults' = faults \/ \E k \in {"crash", "request", "outbox"} : Fault(k)
    BY <1>s, Effects DEF RequestEffect, TakeEffect, MoveEffect, FinishEffect, ThrowEffect,
                         CrashEffect, Fault, FewCrashes
  <2> QED BY <1>t, <2>1 DEF Fault
<1> SUFFICES ASSUME NEW c \in Chunk
             PROVE  /\ job'[c].stalled <= faults'
                    /\ job'[c].state = "active" /\ Dead(c)' => job'[c].stalled < faults'
  BY <1>f DEF FewStalls
\* A job that does not change stays as dead as it was, unless its worker crashes.
<1>k. ASSUME job'[c] = job[c],
             job[c].state = "active" /\ Dead(c)' => Dead(c) \/ faults' = faults + 1
      PROVE  /\ job'[c].stalled <= faults'
             /\ job'[c].state = "active" /\ Dead(c)' => job'[c].stalled < faults'
  BY <1>t, <1>f, <1>k
<1>1. CASE RequestEffect
  <2>1. job'[c] = job[c] => (Dead(c)' => Dead(c))
    BY <1>1 DEF RequestEffect, Dead
  <2>2. CASE job'[c] = job[c]
    BY <2>1, <2>2, <1>k
  <2>3. CASE job'[c].state = "waiting" /\ job'[c].stalled = 0
    BY <2>3, <1>t, <1>f
  <2> QED BY <1>1, <2>2, <2>3 DEF RequestEffect
<1>2. ASSUME NEW w \in Worker, NEW d \in Chunk, TakeEffect(w, d)
      PROVE  /\ job'[c].stalled <= faults'
             /\ job'[c].state = "active" /\ Dead(c)' => job'[c].stalled < faults'
  <2>1. CASE c = d
    <3>1. ~Dead(c)' /\ job'[c].stalled = job[c].stalled /\ faults' = faults
      BY <1>2, <2>1 DEF TakeEffect, WorkerReset, Dead
    <3> QED BY <3>1, <1>t
  <2>2. CASE c # d
    <3>1. job'[c] = job[c] /\ \A v \in Worker \ {w} : wk'[v] = wk[v]
      BY <1>2, <2>2 DEF TakeEffect, WorkerReset
    <3>2. wk[w].job = Nil
      BY <1>2, <1>s DEF TakeEffect, LockInv, OwnsJob, Holds
    <3>3. Dead(c)' => Dead(c)
      BY <3>1, <3>2, NilAssumption DEF Dead
    <3> QED BY <3>1, <3>3, <1>k
  <2> QED BY <2>1, <2>2
<1>3. ASSUME NEW d \in Chunk, StalledEffect(d), Dead(d), faults' = faults
      PROVE  /\ job'[c].stalled <= faults'
             /\ job'[c].state = "active" /\ Dead(c)' => job'[c].stalled < faults'
  <2>1. CASE c = d
    <3>1. job'[c].state # "active" /\ job[c].stalled < faults
          /\ job'[c].stalled \in {job[c].stalled, job[c].stalled + 1}
      BY <1>3, <2>1, <1>t DEF StalledEffect
    <3> QED BY <3>1, <1>3, <1>t
  <2>2. CASE c # d
    <3>1. job'[c] = job[c] /\ wk' = wk
      BY <1>3, <2>2 DEF StalledEffect
    <3>2. Dead(c)' => Dead(c)
      BY <3>1 DEF Dead
    <3> QED BY <3>1, <3>2, <1>k
  <2> QED BY <2>1, <2>2
<1>4. ASSUME NEW w \in Worker, MoveEffect(w)
      PROVE  /\ job'[c].stalled <= faults'
             /\ job'[c].state = "active" /\ Dead(c)' => job'[c].stalled < faults'
  <2>1. job' = job /\ \A v \in Worker : wk'[v].job = wk[v].job
    BY <1>4 DEF MoveEffect, WorkerMoved
  <2>2. Dead(c)' => Dead(c)
    BY <2>1 DEF Dead
  <2> QED BY <2>1, <2>2, <1>k
<1>5. ASSUME NEW w \in Worker, FinishEffect(w) \/ ThrowEffect(w)
      PROVE  /\ job'[c].stalled <= faults'
             /\ job'[c].state = "active" /\ Dead(c)' => job'[c].stalled < faults'
  <2>0. faults' = faults /\ \A v \in Worker \ {w} : wk'[v] = wk[v]
    BY <1>5 DEF FinishEffect, ThrowEffect, WorkerReset
  <2>1. CASE c # wk[w].job /\ job'[c] = job[c]
    <3>1. Dead(c)' => Dead(c)
      BY <2>0, <2>1 DEF Dead
    <3> QED BY <2>1, <3>1, <1>k
  <2>2. CASE job'[c].state # "active" /\ job'[c].stalled \in {0, job[c].stalled}
    BY <2>0, <2>2, <1>t
  <2> QED BY <1>5, <2>1, <2>2 DEF FinishEffect, ThrowEffect, NoJob
<1>6. ASSUME NEW w \in Worker, CrashEffect(w)
      PROVE  /\ job'[c].stalled <= faults'
             /\ job'[c].state = "active" /\ Dead(c)' => job'[c].stalled < faults'
  <2>1. job' = job /\ faults' = faults + 1
    BY <1>6 DEF CrashEffect, Fault
  <2> QED BY <2>1, <1>k
<1>7. CASE UNCHANGED vars
  <2>1. job' = job /\ (Dead(c)' => Dead(c))
    BY <1>7 DEF Dead
  <2> QED BY <2>1, <1>k
<1> QED BY <1>s, <1>1, <1>2, <1>3, <1>4, <1>5, <1>6, <1>7, Effects

\* A job that no worker holds is not given up: it is delivered again.
LEMMA StalledRetries ==
    ASSUME RetryInv, FewCrashes, NEW c \in Chunk, StalledEffect(c), Dead(c)
    PROVE  job'[c].state = "waiting"
<1>1. job[c].stalled < faults /\ faults <= MaxFaults /\ job[c].stalled \in Nat /\ faults \in Nat
  BY DEF RetryInv, FewStalls, StalledEffect, LockInv, Shape, TypeOK, JobType
<1>2. ~(job[c].stalled >= MaxStalled)
  BY <1>1, BoundAssumption DEF FewCrashes
<1> QED BY <1>2 DEF StalledEffect

LEMMA SettledStep == RetryInv /\ [Next]_vars /\ FewCrashes => Settled'
<1> SUFFICES ASSUME RetryInv, [Next]_vars, FewCrashes, NEW c \in Chunk,
                    job'[c].state \in {"none", "completed"}
             PROVE  row'[c].status \notin Failures
  BY DEF Settled
<1>s. /\ LockInv /\ "stall" \notin FaultKinds
      /\ job[c].state \in {"none", "completed"} => row[c].status \notin Failures
  BY DEF RetryInv, FewCrashes, Settled
<1>1. CASE RequestEffect
  BY <1>1, <1>s DEF RequestEffect, Failures
<1>2. ASSUME NEW w \in Worker, NEW d \in Chunk, TakeEffect(w, d)
      PROVE  row'[c].status \notin Failures
  BY <1>2, <1>s DEF TakeEffect
<1>3. ASSUME NEW d \in Chunk, StalledEffect(d) PROVE row'[c].status \notin Failures
  BY <1>3, <1>s DEF StalledEffect
<1>4. ASSUME NEW w \in Worker, MoveEffect(w) PROVE row'[c].status \notin Failures
  <2>1. job' = job /\ wk[w].pc # "idle" /\ \A d \in Chunk \ {wk[w].job} : row'[d] = row[d]
    BY <1>4 DEF MoveEffect
  <2>2. c # wk[w].job
    BY <2>1, <1>s DEF LockInv, OwnsJob, Holds, HoldsJob
  <2> QED BY <2>1, <2>2, <1>s
<1>5. ASSUME NEW w \in Worker, FinishEffect(w) PROVE row'[c].status \notin Failures
  <2>1. row' = row /\ row[wk[w].job].status \notin Failures
    BY <1>5 DEF FinishEffect, RetryInv, Ending
  <2> QED BY <1>5, <2>1, <1>s DEF FinishEffect
<1>6. ASSUME NEW w \in Worker, ThrowEffect(w) \/ CrashEffect(w)
      PROVE  row'[c].status \notin Failures
  BY <1>6, <1>s DEF ThrowEffect, CrashEffect
<1>7. CASE UNCHANGED vars
  BY <1>7, <1>s
<1> QED BY <1>s, <1>1, <1>2, <1>3, <1>4, <1>5, <1>6, <1>7, Effects

LEMMA EndingStep == RetryInv /\ [Next]_vars /\ FewCrashes => Ending'
<1> DEFINE Ends(w) == /\ wk[w].pc = "finish" => row[wk[w].job].status \notin Failures
                      /\ wk[w].pc = "throw" /\ row[wk[w].job].status = "FAILED" =>
                           wk[w].attemptsMade + 1 < MaxAttempts
<1> SUFFICES ASSUME RetryInv, [Next]_vars, FewCrashes, NEW w \in Worker PROVE Ends(w)'
  BY DEF Ending
<1>s. /\ LockInv /\ "stall" \notin FaultKinds /\ "outbox" \notin FaultKinds
      /\ Ends(w) /\ (wk[w].pc # "idle" => wk[w].job \in Chunk)
  BY AtWork DEF RetryInv, LockInv, FewCrashes, Ending
<1>1. CASE RequestEffect
  BY <1>1, <1>s DEF RequestEffect, Failures
<1>2. ASSUME NEW v \in Worker, row' = row, WorkerReset(v, wk'[v].pc, wk'[v].job),
             wk'[v].pc \in {"load", "idle"}
      PROVE  Ends(w)'
  BY <1>2, <1>s DEF WorkerReset
<1>3. CASE UNCHANGED <<row, wk>>
  BY <1>3, <1>s
<1>4. ASSUME NEW v \in Worker, MoveEffect(v) PROVE Ends(w)'
  <2>1. CASE v = w
    <3>1. ~Fault("outbox") /\ wk[w].attemptsMade \in Nat /\ MaxAttempts \in Nat
          /\ wk'[w].job = wk[w].job /\ wk'[w].attemptsMade = wk[w].attemptsMade
      BY <1>4, <1>s, <2>1, BoundAssumption
         DEF Fault, LockInv, Shape, TypeOK, WorkerType, MoveEffect, WorkerMoved
    <3>2. wk'[w].pc = "finish" => row'[wk[w].job].status \in Completed
      BY <1>4, <2>1 DEF MoveEffect
    <3>3. wk'[w].pc = "throw" /\ row'[wk[w].job].status = "FAILED" =>
            ~(wk[w].attemptsMade + 1 >= MaxAttempts)
      BY <1>4, <2>1, <3>1 DEF MoveEffect
    <3> QED BY <3>1, <3>2, <3>3 DEF Failures
  <2>2. CASE v # w /\ wk[w].pc = "idle"
    <3>1. wk'[w].pc = "idle"
      BY <1>4, <2>2 DEF MoveEffect, WorkerMoved
    <3> QED BY <3>1
  <2>3. CASE v # w /\ wk[w].pc # "idle"
    <3>1. wk'[w] = wk[w] /\ wk[v].pc # "idle"
      BY <1>4, <2>3 DEF MoveEffect, WorkerMoved
    <3>2. wk[w].job # wk[v].job
      BY <2>3, <3>1, <1>s, OneWorker DEF LockInv
    <3>3. row'[wk[w].job] = row[wk[w].job]
      BY <1>4, <1>s, <2>3, <3>2 DEF MoveEffect
    <3> QED BY <1>s, <3>1, <3>3
  <2> QED BY <2>1, <2>2, <2>3
<1>5. ASSUME NEW v \in Worker,
             (\E c \in Chunk : TakeEffect(v, c)) \/ FinishEffect(v) \/ ThrowEffect(v) \/ CrashEffect(v)
      PROVE  Ends(w)'
  <2>1. row' = row /\ wk'[v].pc \in {"load", "idle"} /\ WorkerReset(v, wk'[v].pc, wk'[v].job)
    BY <1>5 DEF TakeEffect, FinishEffect, ThrowEffect, CrashEffect, WorkerReset
  <2> QED BY <1>2, <2>1
<1>6. ASSUME NEW c \in Chunk, StalledEffect(c) PROVE UNCHANGED <<row, wk>>
  BY <1>6 DEF StalledEffect
<1> HIDE DEF Ends
<1> QED BY <1>s, <1>1, <1>3, <1>4, <1>5, <1>6, Effects

LEMMA RecordedStep == RetryInv /\ [Next]_vars /\ FewCrashes => FailureIsRecorded'
<1> DEFINE Recorded(c) ==
             /\ row[c].status = "FAILED" => job[c].state \in {"waiting", "active"}
             /\ row[c].status = "DEAD_LETTER" => job[c].attemptsMade + 1 >= MaxAttempts
<1> SUFFICES ASSUME RetryInv, [Next]_vars, FewCrashes, NEW c \in Chunk PROVE Recorded(c)'
  BY DEF FailureIsRecorded, FailedIsRetried, DeadLetterIsExhausted
<1>s. LockInv /\ "stall" \notin FaultKinds /\ "outbox" \notin FaultKinds /\ Recorded(c)
  BY DEF RetryInv, FewCrashes, FailureIsRecorded, FailedIsRetried, DeadLetterIsExhausted
<1>t. job[c].attemptsMade \in Nat /\ MaxAttempts \in Nat
  BY <1>s, BoundAssumption DEF LockInv, Shape, TypeOK, JobType
<1>n. job[c].state \in {"none", "completed"} => row[c].status \notin Failures
  BY DEF RetryInv, Settled
<1>1. CASE RequestEffect
  BY <1>1, <1>s, <1>n DEF RequestEffect, Failures
<1>2. ASSUME NEW w \in Worker, NEW d \in Chunk, TakeEffect(w, d) PROVE Recorded(c)'
  BY <1>2, <1>s DEF TakeEffect
<1>3. ASSUME NEW d \in Chunk, StalledEffect(d), Dead(d) PROVE Recorded(c)'
  <2>1. CASE c = d
    BY <1>3, <1>s, <2>1, StalledRetries DEF StalledEffect
  <2>2. CASE c # d
    BY <1>3, <1>s, <2>2 DEF StalledEffect
  <2> QED BY <2>1, <2>2
<1>4. ASSUME NEW w \in Worker, MoveEffect(w) PROVE Recorded(c)'
  <2>1. CASE c # wk[w].job
    <3>1. job' = job /\ row'[c] = row[c]
      BY <1>4, <2>1 DEF MoveEffect
    <3> QED BY <3>1, <1>s
  <2>2. CASE c = wk[w].job
    <3>1. /\ job' = job /\ job[c].state = "active"
          /\ job[c].attemptsMade = wk[w].attemptsMade
      BY <1>4, <1>s, <2>2 DEF MoveEffect, LockInv, OwnsJob, Holds, HoldsJob
    <3>2. row'[c].status = "DEAD_LETTER" =>
            row[c].status = "DEAD_LETTER" \/ wk[w].attemptsMade + 1 >= MaxAttempts
      BY <1>4, <2>2 DEF MoveEffect
    <3> QED BY <3>1, <3>2, <1>s
  <2> QED BY <2>1, <2>2
<1>5. ASSUME NEW w \in Worker, FinishEffect(w) PROVE Recorded(c)'
  <2>1. row' = row /\ row[wk[w].job].status \notin Failures
    BY <1>5 DEF FinishEffect, RetryInv, Ending
  <2>2. CASE c # wk[w].job /\ job'[c] = job[c]
    BY <1>s, <2>1, <2>2
  <2>3. CASE row[c].status \notin Failures
    BY <2>1, <2>3 DEF Failures
  <2> QED BY <1>5, <1>n, <2>1, <2>2, <2>3 DEF FinishEffect
<1>6. ASSUME NEW w \in Worker, ThrowEffect(w) PROVE Recorded(c)'
  <2>1. CASE c # wk[w].job
    BY <1>6, <1>s, <2>1 DEF ThrowEffect
  <2>2. CASE c = wk[w].job
    <3>1. /\ wk[w].pc = "throw" /\ row' = row
          /\ job'[c].attemptsMade = job[c].attemptsMade + 1
          /\ job[c].attemptsMade + 1 < MaxAttempts => job'[c].state = "waiting"
      BY <1>6, <2>2 DEF ThrowEffect
    <3>2. job[c].attemptsMade = wk[w].attemptsMade
      BY <1>s, <2>2, <3>1 DEF LockInv, OwnsJob, Holds
    <3>3. row[c].status = "FAILED" => wk[w].attemptsMade + 1 < MaxAttempts
      BY <2>2, <3>1 DEF RetryInv, Ending
    <3>4. row'[c].status = "FAILED" => job'[c].state = "waiting"
      BY <3>1, <3>2, <3>3
    <3>5. row'[c].status = "DEAD_LETTER" => job'[c].attemptsMade + 1 >= MaxAttempts
      BY <3>1, <1>s, <1>t
    <3> QED BY <3>4, <3>5
  <2> QED BY <2>1, <2>2
<1>7. ASSUME NEW w \in Worker, CrashEffect(w) PROVE Recorded(c)'
  BY <1>7, <1>s DEF CrashEffect
<1>8. CASE UNCHANGED vars
  BY <1>8, <1>s
<1> HIDE DEF Recorded
<1> QED BY <1>s, <1>1, <1>2, <1>3, <1>4, <1>5, <1>6, <1>7, <1>8, Effects

\* When workers only crash, and no more often than BullMQ forgives a job, the outbox
\* reports FAILED only while another attempt is coming and DEAD_LETTER only when the
\* attempts are used up (markFailed and the "attempts" option of the job).
THEOREM FailureReported ==
    ASSUME FaultKinds \subseteq {"crash", "request"}, MaxFaults <= MaxStalled
    PROVE  Spec => []FailureIsRecorded
<1>0. FewCrashes /\ "stall" \notin FaultKinds
  BY DEF FewCrashes
<1>1. Init => FewStalls /\ Settled /\ Ending /\ FailureIsRecorded
  BY BoundAssumption
     DEF Init, FewStalls, Settled, Ending, FailureIsRecorded, FailedIsRetried,
         DeadLetterIsExhausted, NoJob, NoRow, IdleWorker, Failures
<1>2. RetryInv /\ [Next]_vars /\ LockInv' => RetryInv'
  BY <1>0, FewStallsStep, SettledStep, EndingStep, RecordedStep DEF RetryInv
<1>3. Spec => []LockInv
  BY <1>0, LockInvHolds
<1>4. LockInv /\ FewStalls /\ Settled /\ Ending /\ FailureIsRecorded => RetryInv
  BY DEF RetryInv
<1>5. RetryInv => FailureIsRecorded
  BY DEF RetryInv
<1> QED BY <1>1, <1>2, <1>3, <1>4, <1>5, PTL DEF Spec

-----------------------------------------------------------------------------
(* The refinement of PushPromise: every step registers, applies or tells, or *)
(* changes nothing the promise speaks of.                                    *)

Chosen == [c \in Chunk |-> row[c].payload]

LEMMA InitRefines == Init => Promise!Init
BY DEF Init, NoRow, Promise!Init

\* Only an INSERT changes which payload is registered.
LEMMA ChosenStep ==
    ASSUME Shape, [Next]_vars, \A p \in Request : ~(Create(p) /\ row' # row)
    PROVE  Chosen' = Chosen
<1>1. ASSUME NEW c \in Chunk PROVE row'[c].payload = row[c].payload
  <2>1. CASE row'[c] = row[c]
    BY <2>1
  <2>2. CASE RowReset(c)
    BY <2>2 DEF RowReset
  <2>3. ASSUME NEW w \in Worker, wk[w].job = c, MarkCompleted(w)
        PROVE  row'[c].payload = row[c].payload
    BY <2>3, AtWork, PayloadStable DEF MarkCompleted
  <2>4. ASSUME NEW p \in Request, Create(p), RowInserted(c) PROVE FALSE
    <3>1. row' = row
      BY <2>4
    <3>2. Nil \notin Payload
      BY NilAssumption
    <3> QED BY <2>4, <3>1, <3>2 DEF RowInserted
  <2> QED BY <2>1, <2>2, <2>3, <2>4, RowsStep
<1> QED BY <1>1 DEF Chosen

\* A successful INSERT of createPending registers the payload of the request.
LEMMA CreateRefines ==
    ASSUME Shape, NEW p \in Request, Create(p), row' # row
    PROVE  Promise!Next
<1>1. PICK c \in Chunk, h \in Payload : c = req[p].chunk /\ h = req[p].payload
  BY DEF Create, Shape, RowsExist, RequestHasRow
<1> DEFINE new == [NoRow EXCEPT !.status = "PENDING", !.payload = h]
<1>2. /\ row[c].status = NoStatus
      /\ row' = [row EXCEPT ![c] = new]
      /\ UNCHANGED <<version, accepts, conflictLog, told>>
  BY <1>1 DEF Create
<1>3. row[c].payload = Nil /\ row \in [Chunk -> RowType]
  BY <1>2 DEF Shape, TypeOK, RowsExist, PayloadIffRow
<1>4. new.payload = h
  BY DEF NoRow
<1> HIDE DEF new
<1>5. Chosen' = [Chosen EXCEPT ![c] = h] /\ Chosen[c] = Nil
  BY <1>2, <1>3, <1>4 DEF Chosen
<1>6. Promise!Register(c, h)
  BY <1>2, <1>5 DEF Promise!Register, Chosen
<1> QED BY <1>6 DEF Promise!Next

\* Telling a client, by push-status or by the early return of enqueue.
LEMMA TellRefines ==
    ASSUME Shape, CompletedImpliesApplied, NEW c \in Chunk, row[c].status \in Completed,
           told' = told \cup {c}, UNCHANGED <<row, version, accepts, conflictLog>>
    PROVE  Promise!Next
<1>1. row[c].payload # Nil /\ Applied(c)
  BY DEF Shape, RowsExist, PayloadIffRow, CompletedImpliesApplied
<1>2. Promise!Tell(c)
  BY <1>1 DEF Promise!Tell, Applied
<1> QED BY <1>2 DEF Promise!Next

\* The COMMIT of the chunk's transaction applies the compare-and-set.
LEMMA CommitRefines ==
    ASSUME Shape, Shape', LocksHeld, VersionsMoved, NEW w \in Worker, Commit(w)
    PROVE  Promise!Next
<1>1. PICK c \in Chunk, h \in Payload, seen \in [Record -> Nat] :
        c = wk[w].job /\ h = row[c].payload /\ seen = wk[w].seen
  BY AtWork DEF Commit
<1>2. PICK acc \in SUBSET Record : acc = AcceptedOf(h, seen)
  BY PayloadData
<1>3. acc \subseteq Touches[h] /\ h # Nil
  BY <1>2, NilAssumption DEF AcceptedOf
<1>4. Promise!MayAccept(h, acc)
  <2>1. h \in Blind => acc = Touches[h]
    BY <1>2 DEF AcceptedOf
  <2>2. ASSUME h \notin Blind, NEW r \in Touches[h], InitVersion[r] > 0
        PROVE  r \in acc <=> version[r] = BaseVersion[h][r]
    <3>1. r \in Record
      BY TouchesAssumption
    <3>2. seen[r] = version[r]
      BY <1>1, <2>2 DEF LocksHeld, Commit
    <3>3. seen[r] # 0
      BY <2>2, <3>1, <3>2, VersionAssumption DEF VersionsMoved, Shape, TypeOK
    <3> QED BY <1>2, <2>2, <3>2, <3>3 DEF AcceptedOf
  <2> QED BY <1>3, <2>1, <2>2 DEF Promise!MayAccept
<1>5. accepts' = [accepts EXCEPT ![c] = [r \in Record |-> IF r \in acc THEN @[r] + 1 ELSE @[r]]]
  BY <1>1, <1>2 DEF Commit
<1>6. conflictLog' = [conflictLog EXCEPT ![c] = @ \cup (Touches[h] \ acc)]
  BY <1>1, <1>2 DEF Commit, ConflictedOf
<1>7. IF h \in Blind
      THEN version' = version
      ELSE /\ version' \in [Record -> Nat]
           /\ \A r \in Record : IF r \notin acc THEN version'[r] = version[r]
                                ELSE InitVersion[r] > 0 => version'[r] = version[r] + 1
  <2>1. CASE h \in Blind
    BY <1>1, <2>1 DEF Commit
  <2>2. CASE h \notin Blind
    <3>1. \A r \in Record : version'[r] = IF r \in acc THEN seen[r] + 1 ELSE version[r]
      BY <1>1, <1>2, <2>2, CommitData
    <3>2. ASSUME NEW r \in acc, InitVersion[r] > 0 PROVE version'[r] = version[r] + 1
      BY <1>1, <1>3, <2>2, <3>1, <3>2 DEF LocksHeld, Commit
    <3>3. version' \in [Record -> Nat]
      BY DEF Shape, TypeOK
    <3> QED BY <2>2, <3>1, <3>2, <3>3
  <2> QED BY <2>1, <2>2
<1>8. row[c].payload = h /\ row' = row /\ told' = told
  BY <1>1 DEF Commit
<1>9. Promise!Apply(c, acc)
  BY <1>3, <1>4, <1>5, <1>6, <1>7, <1>8 DEF Promise!Apply
<1> QED BY <1>9 DEF Promise!Next

\* The steps that can tell a client something.
LEMMA ToldByRow ==
    ASSUME Shape, [Next]_vars, told' # told
    PROVE  \E c \in Chunk : /\ row[c].status \in Completed
                            /\ told' = told \cup {c}
                            /\ UNCHANGED <<row, version, accepts, conflictLog>>
<1>1. CASE \E p \in Request : RequestNext(p) \/ RequestFails(p)
  BY <1>1 DEF RequestNext, RequestFails, Find, Create, Reread, Add, MarkQueued
<1>2. CASE \/ \E d \in Chunk : GetStatus(d) \/ Stalled(d)
           \/ \E w \in Worker, d \in Chunk : Take(w, d)
  BY <1>2 DEF GetStatus, Stalled, Take
<1>3. CASE \E w \in Worker : WorkerNext(w) \/ OutboxFails(w) \/ Crash(w)
  BY <1>3 DEF WorkerNext, OutboxFails, Crash, Load, MarkProcessing, Split, Commit, TxFails,
              MarkCompleted, MarkFailed, Finish, Throw
<1> QED BY <1>1, <1>2, <1>3, Actors

\* Every step is a step of the promise, or changes nothing it speaks of.
LEMMA StepRefines ==
    Shape /\ Shape' /\ CompletedImpliesApplied /\ LocksHeld /\ VersionsMoved /\ [Next]_vars
        => [Promise!Next]_(Promise!vars)
<1> SUFFICES ASSUME Shape, Shape', CompletedImpliesApplied, LocksHeld, VersionsMoved, [Next]_vars
             PROVE  Promise!Next \/ Promise!vars' = Promise!vars
  OBVIOUS
<1>1. CASE \E w \in Worker : Commit(w)
  BY <1>1, CommitRefines
<1>2. CASE \E p \in Request : Create(p) /\ row' # row
  BY <1>2, CreateRefines
<1>3. CASE told' # told
  BY <1>3, ToldByRow, TellRefines
<1>4. CASE /\ ~ \E w \in Worker : Commit(w)
           /\ ~ \E p \in Request : Create(p) /\ row' # row
           /\ told' = told
  <2>1. Chosen' = Chosen
    BY <1>4, ChosenStep
  <2>2. UNCHANGED <<version, accepts, conflictLog>>
    BY <1>4, DataStep
  <2> QED BY <1>4, <2>1, <2>2 DEF Promise!vars, Chosen
<1> QED BY <1>1, <1>2, <1>3, <1>4

\* The asynchronous push implements the promise: the first payload registered
\* for a chunk counts, it is applied as one compare-and-set, and a client hears
\* "completed" only afterwards.
THEOREM KeepsPromise == Spec => PromiseSpec
<1>1. Init => Promise!Init
  BY InitRefines
<1>2. DurabilityInv /\ CompareAndSetInv /\ DurabilityInv' /\ [Next]_vars
        => [Promise!Next]_(Promise!vars)
  BY StepRefines DEF DurabilityInv, CompareAndSetInv
<1> QED BY <1>1, <1>2, Durability, CompareAndSet, PTL DEF Spec, PromiseSpec, Promise!Spec

=============================================================================

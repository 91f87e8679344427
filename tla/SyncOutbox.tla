----------------------------- MODULE SyncOutbox -----------------------------
(***************************************************************************)
(* The asynchronous push of one chunk: the HTTP handler that registers it   *)
(* in the outbox table and enqueues it (SyncPushProducerService.enqueue),   *)
(* the BullMQ queue, the worker that applies it (SyncPushProcessor.process  *)
(* for a job that is not a batch) and the transaction it commits            *)
(* (SyncService.processPushChunkNow with the optimistic split).             *)
(*                                                                          *)
(* One process per HTTP request and one per worker slot; every step is one  *)
(* statement against PostgreSQL or one command to Redis, so all the         *)
(* interleavings of two requests, two workers and a request with a worker   *)
(* are explored.  A chunk stands for its natural key (syncSessionId,        *)
(* entityName, chunkIndex); since that key is unique it also stands for the *)
(* outbox row's id, and for the queue job, whose jobId is that id.  A       *)
(* payload stands for the hash and the records of a request body.           *)
(***************************************************************************)
EXTENDS Naturals, Sequences

CONSTANTS
    Chunk,          \* natural keys of the outbox
    Payload,        \* request bodies, told apart by payloadHash
    Record,         \* rows of the synchronised tables
    Request,        \* HTTP requests POST /sync/push
    Worker,         \* worker slots (SYNC_QUEUE_CONCURRENCY of each instance)
    Nil,            \* no chunk, no payload, no worker
    Workload,       \* set of <<request, chunk, payload>> the clients may send
    Touches,        \* Touches[h]: the records of payload h
    BaseVersion,    \* BaseVersion[h][r]: the baseVersion h carries for record r
    InitVersion,    \* InitVersion[r]: stored version of r, 0 when r is absent
    Blind,          \* payloads of entities whose adapter upserts unconditionally
    MaxAttempts,    \* the "attempts" option of the job (5 in the code)
    MaxStalled,     \* BullMQ's maxStalledCount (its default, 1)
    KeepCompleted,  \* the "removeOnComplete" count of the job (1000 in the code)
    FaultKinds,     \* which faults may occur: "crash", "stall", "outbox", "request"
    MaxFaults       \* bound on how many faults occur

ASSUME NilAssumption == Nil \notin Chunk \cup Payload \cup Worker
ASSUME WorkloadAssumption == Workload \subseteq Request \X Chunk \X Payload
ASSUME TouchesAssumption == Touches \in [Payload -> SUBSET Record]
ASSUME VersionAssumption ==
    /\ BaseVersion \in [Payload -> [Record -> Nat]]
    /\ InitVersion \in [Record -> Nat]
    \* a client learns a version from the server, so it never runs ahead of it
    /\ \A h \in Payload, r \in Record : BaseVersion[h][r] <= InitVersion[r]
ASSUME BlindAssumption == Blind \subseteq Payload
ASSUME BoundAssumption ==
    /\ MaxAttempts \in Nat \ {0}
    /\ MaxStalled \in Nat
    /\ KeepCompleted \in Nat
    /\ MaxFaults \in Nat

VARIABLES
    row,          \* outbox table, by chunk
    job,          \* BullMQ job hash, by chunk (its jobId)
    kept,         \* completed jobs still kept by the queue, oldest first
    req,          \* local state of each HTTP request
    wk,           \* local state of each worker slot
    version,      \* version column of each record, 0 when absent
    rowLock,      \* holder of the FOR UPDATE lock on each record
    accepts,      \* accepts[c][r]: committed writes of chunk c to record r
    conflictLog,  \* conflictLog[c]: records with a CONFLICT change log of chunk c
    told,         \* chunks a client has been told are completed
    faults        \* faults so far

queueVars == <<job, kept>>
dataVars  == <<version, rowLock, accepts, conflictLog>>
vars      == <<row, queueVars, req, wk, dataVars, told, faults>>

Completed == {"COMPLETED", "COMPLETED_WITH_CONFLICTS"}
Statuses  == {"PENDING", "QUEUED", "PROCESSING", "FAILED", "DEAD_LETTER"} \cup Completed
NoStatus  == "NONE"     \* the outbox has no row for the chunk

NoRow      == [status |-> NoStatus, payload |-> Nil, accepted |-> {}, conflicted |-> {}]
NoJob      == [state |-> "none", attemptsMade |-> 0, stalled |-> 0, owner |-> Nil]
IdleReq    == [pc |-> "idle", chunk |-> Nil, payload |-> Nil,
               seen |-> NoStatus, reply |-> "none"]
NoVersions == [r \in Record |-> 0]
IdleWorker == [pc |-> "idle", job |-> Nil, attemptsMade |-> 0, seen |-> NoVersions]

Init ==
    /\ row = [c \in Chunk |-> NoRow]
    /\ job = [c \in Chunk |-> NoJob]
    /\ kept = <<>>
    /\ req = [p \in Request |-> IdleReq]
    /\ wk = [w \in Worker |-> IdleWorker]
    /\ version = InitVersion
    /\ rowLock = [r \in Record |-> Nil]
    /\ accepts = [c \in Chunk |-> [r \in Record |-> 0]]
    /\ conflictLog = [c \in Chunk |-> {}]
    /\ told = {}
    /\ faults = 0

\* A fault of kind k happens now, within the bound.
Fault(k) ==
    /\ k \in FaultKinds
    /\ faults < MaxFaults
    /\ faults' = faults + 1

-----------------------------------------------------------------------------
(* POST /sync/push: SyncPushProducerService.enqueue *)

Goto(p, label) == req' = [req EXCEPT ![p].pc = label]
\* Mutant of Answer: the reply is the status read before, not a fixed "accepted".
AnswerStatus(p, reply) == req' = [req EXCEPT ![p] = [@ EXCEPT !.pc = "done", !.reply = req[p].seen]]
Answer(p, reply) == req' = [req EXCEPT ![p] = [@ EXCEPT !.pc = "done", !.reply = reply]]

ReqAt(label, c, h, status, reply) ==
    [pc |-> label, chunk |-> c, payload |-> h, seen |-> status, reply |-> reply]

\* findByNaturalKey, the hash check and the early return for a completed row.
Find(p) ==
    /\ req[p].pc = "idle"
    /\ \E c \in Chunk, h \in Payload :
        LET s == row[c].status
        IN  /\ <<p, c, h>> \in Workload
            /\ \/ /\ s = NoStatus
                  /\ req' = [req EXCEPT ![p] = ReqAt("create", c, h, s, "none")]
                  /\ UNCHANGED told
               \/ /\ s # NoStatus
                  /\ row[c].payload # h
                  /\ req' = [req EXCEPT ![p] = ReqAt("done", c, h, s, "conflict")]
                  /\ UNCHANGED told
               \/ /\ s \in Completed
                  /\ row[c].payload = h
                  /\ req' = [req EXCEPT ![p] = ReqAt("done", c, h, s, "accepted")]
                  /\ told' = told \cup {c}
               \/ /\ s \notin Completed \cup {NoStatus}
                  /\ row[c].payload = h
                  /\ req' = [req EXCEPT ![p] = ReqAt("add", c, h, s, "none")]
                  /\ UNCHANGED told
    /\ UNCHANGED <<row, queueVars, wk, dataVars, faults>>

\* Mutant of Create: an upsert, which overwrites the row of another request.
CreateUpserts(p) ==
    /\ req[p].pc = "create"
    /\ row' = [row EXCEPT ![req[p].chunk] = [NoRow EXCEPT !.status = "PENDING",
                                                          !.payload = req[p].payload]]
    /\ req' = [req EXCEPT ![p] = [@ EXCEPT !.pc = "add", !.seen = "PENDING"]]
    /\ UNCHANGED <<queueVars, wk, dataVars, told, faults>>

\* createPending: the INSERT, which the unique index lets only one request win.
Create(p) ==
    /\ req[p].pc = "create"
    /\ LET c == req[p].chunk
       IN  \/ /\ row[c].status = NoStatus
              /\ row' = [row EXCEPT ![c] = [NoRow EXCEPT !.status = "PENDING",
                                                         !.payload = req[p].payload]]
              /\ req' = [req EXCEPT ![p] = [@ EXCEPT !.pc = "add", !.seen = "PENDING"]]
           \/ /\ row[c].status # NoStatus
              /\ Goto(p, "reread")
              /\ UNCHANGED row
    /\ UNCHANGED <<queueVars, wk, dataVars, told, faults>>

\* createPending after a unique violation: the row of the winner is returned
\* as it is; its payloadHash is not compared again.
Reread(p) ==
    /\ req[p].pc = "reread"
    /\ LET s == row[req[p].chunk].status
       IN  req' = [req EXCEPT ![p] = [@ EXCEPT !.pc = "add", !.seen = s]]
    /\ UNCHANGED <<row, queueVars, wk, dataVars, told, faults>>

\* Queue.add: a jobId the queue still knows, in whatever state, adds nothing.
AddJob(j) == IF job[j].state = "none"
             THEN job' = [job EXCEPT ![j] = [NoJob EXCEPT !.state = "waiting"]]
             ELSE UNCHANGED job

\* Enqueue; an outbox read as COMPLETED (and only that) skips markQueued.
Add(p) ==
    /\ req[p].pc = "add"
    /\ AddJob(req[p].chunk)
    /\ IF req[p].seen = "COMPLETED" THEN Answer(p, "accepted") ELSE Goto(p, "mark")
    /\ UNCHANGED <<row, kept, wk, dataVars, told, faults>>

\* markQueued: an unconditional UPDATE of the status, then the reply.
MarkQueued(p) ==
    /\ req[p].pc = "mark"
    /\ row' = [row EXCEPT ![req[p].chunk].status = "QUEUED"]
    /\ Answer(p, "accepted")
    /\ UNCHANGED <<queueVars, wk, dataVars, told, faults>>

\* The request dies between two steps: the process stops, or a statement or
\* the Redis command throws and the handler answers an error.
RequestFails(p) ==
    /\ req[p].pc \notin {"idle", "done"}
    /\ Fault("request")
    /\ Answer(p, "error")
    /\ UNCHANGED <<row, queueVars, wk, dataVars, told>>

\* Mutant of GetStatus: every status in which the worker is done counts as completed.
GetStatusDone(c) ==
    /\ row[c].status \in Completed \cup {"FAILED", "DEAD_LETTER"}
    /\ c \notin told
    /\ told' = told \cup {c}
    /\ UNCHANGED <<row, queueVars, req, wk, dataVars, faults>>

\* GET /sync/push-status: the client reads that the chunk is completed.
GetStatus(c) ==
    /\ row[c].status \in Completed
    /\ c \notin told
    /\ told' = told \cup {c}
    /\ UNCHANGED <<row, queueVars, req, wk, dataVars, faults>>

-----------------------------------------------------------------------------
(* The queue (BullMQ): delivery, acknowledgement, retry, stalled jobs *)

\* A free slot fetches a waiting job and holds its lock.
Take(w, j) ==
    /\ wk[w].pc = "idle"
    /\ job[j].state = "waiting"
    /\ job' = [job EXCEPT ![j] = [@ EXCEPT !.state = "active", !.owner = w]]
    /\ wk' = [wk EXCEPT ![w] = [IdleWorker EXCEPT !.pc = "load", !.job = j,
                                                  !.attemptsMade = job[j].attemptsMade]]
    /\ UNCHANGED <<row, kept, req, dataVars, told, faults>>

HoldsJob(w) == /\ wk[w].job # Nil
               /\ job[wk[w].job].state = "active"
               /\ job[wk[w].job].owner = w

Retire(w) == wk' = [wk EXCEPT ![w] = IdleWorker]

\* How a job leaves the active state: unlocked in state st; redelivered because
\* its lock expired; with one attempt spent, waiting for its backoff or failed.
Unlocked(q, st) == [q EXCEPT !.state = st, !.owner = Nil]
Redelivered(q)  == [Unlocked(q, "waiting") EXCEPT !.stalled = @ + 1]
Spent(q) == [Unlocked(q, IF q.attemptsMade + 1 < MaxAttempts THEN "waiting" ELSE "failed")
                EXCEPT !.attemptsMade = @ + 1]

\* process() returned: moveToCompleted, which also removes the oldest completed
\* job beyond the count to keep; refused when the lock was lost.
Finish(w) ==
    /\ wk[w].pc = "finish"
    /\ LET j == wk[w].job
           log == Append(kept, j)
           done == [job EXCEPT ![j] = Unlocked(@, "completed")]
       IN  \/ /\ HoldsJob(w)
              /\ Len(log) <= KeepCompleted
              /\ job' = done
              /\ kept' = log
           \/ /\ HoldsJob(w)
              /\ Len(log) > KeepCompleted
              /\ job' = [done EXCEPT ![Head(log)] = NoJob]
              /\ kept' = Tail(log)
           \/ /\ ~HoldsJob(w)
              /\ UNCHANGED queueVars
    /\ Retire(w)
    /\ UNCHANGED <<row, req, dataVars, told, faults>>

\* process() threw: one attempt is spent; with none left the job stays failed.
Throw(w) ==
    /\ wk[w].pc = "throw"
    /\ \/ HoldsJob(w) /\ job' = [job EXCEPT ![wk[w].job] = Spent(@)]
       \/ ~HoldsJob(w) /\ UNCHANGED job
    /\ Retire(w)
    /\ UNCHANGED <<row, kept, req, dataVars, told, faults>>

Dead(j) == \A w \in Worker : ~(wk[w].job = j /\ job[j].owner = w)

\* The lock of an active job expires: its worker is dead, or (a fault) alive
\* but too slow to renew it.  The job is delivered again, up to MaxStalled times.
Stalled(j) ==
    /\ job[j].state = "active"
    /\ \/ Dead(j) /\ UNCHANGED faults
       \/ ~Dead(j) /\ Fault("stall")
    /\ \/ /\ job[j].stalled < MaxStalled
          /\ job' = [job EXCEPT ![j] = Redelivered(@)]
       \/ /\ job[j].stalled >= MaxStalled
          /\ job' = [job EXCEPT ![j] = Unlocked(@, "failed")]
    /\ UNCHANGED <<row, kept, req, wk, dataVars, told>>

-----------------------------------------------------------------------------
(* The worker: SyncPushProcessor.process, one outbox row per job *)

Step(w, label) == wk' = [wk EXCEPT ![w].pc = label]

\* Mutants of Load: no filter on completed rows; a row in progress is left to others.
LoadUnfiltered(w) ==
    /\ wk[w].pc = "load"
    /\ Step(w, "start")
    /\ UNCHANGED <<row, queueVars, req, dataVars, told, faults>>

LoadSkipsProcessing(w) ==
    /\ wk[w].pc = "load"
    /\ Step(w, IF row[wk[w].job].status \in Completed \cup {"PROCESSING"}
               THEN "finish" ELSE "start")
    /\ UNCHANGED <<row, queueVars, req, dataVars, told, faults>>

\* findById, before the try block: a completed row ends the job; otherwise the
\* loaded status decides everything that follows.
Load(w) ==
    /\ wk[w].pc = "load"
    /\ Step(w, IF row[wk[w].job].status \in Completed THEN "finish" ELSE "start")
    /\ UNCHANGED <<row, queueVars, req, dataVars, told, faults>>

MarkProcessing(w) ==
    /\ wk[w].pc = "start"
    /\ row' = [row EXCEPT ![wk[w].job].status = "PROCESSING"]
    /\ Step(w, "split")
    /\ UNCHANGED <<queueVars, req, dataVars, told, faults>>

Exists(r) == version[r] > 0

Unlock(w) == rowLock' = [r \in Record |-> IF rowLock[r] = w THEN Nil ELSE rowLock[r]]

\* Mutant of AcceptedOf: a stored version ahead of the base version is accepted too.
AcceptedAhead(h, seen) ==
    {r \in Touches[h] : h \in Blind \/ seen[r] = 0 \/ seen[r] >= BaseVersion[h][r]}

\* The records of h an optimistic push accepts, from the versions it has read:
\* those that are absent and those whose version is still the base version.
AcceptedOf(h, seen) ==
    {r \in Touches[h] : h \in Blind \/ seen[r] = 0 \/ seen[r] = BaseVersion[h][r]}

ConflictedOf(h, seen) == Touches[h] \ AcceptedOf(h, seen)

\* Mutant of Split: a SELECT without FOR UPDATE.
SplitUnlocked(w) ==
    /\ wk[w].pc = "split"
    /\ wk' = [wk EXCEPT ![w] = [@ EXCEPT !.pc = "commit", !.seen = version]]
    /\ UNCHANGED <<row, queueVars, req, dataVars, told, faults>>

\* splitOptimisticConflicts: SELECT ... FOR UPDATE waits for, locks and reads the
\* rows that exist; a row that does not exist yet cannot be locked.
Split(w) ==
    /\ wk[w].pc = "split"
    /\ LET h == row[wk[w].job].payload
           rows == IF h \in Blind THEN {} ELSE {r \in Touches[h] : Exists(r)}
       IN  /\ \A r \in rows : rowLock[r] = Nil
           /\ rowLock' = [r \in Record |-> IF r \in rows THEN w ELSE rowLock[r]]
           /\ wk' = [wk EXCEPT ![w] =
                [@ EXCEPT !.pc = "commit",
                          !.seen = [r \in Record |-> IF r \in rows THEN version[r] ELSE 0]]]
    /\ UNCHANGED <<row, queueVars, req, version, accepts, conflictLog, told, faults>>

\* The upsert of the accepted records, the conflicts and the change log become
\* visible with the COMMIT of processPushChunkNow's transaction.
Commit(w) ==
    /\ wk[w].pc = "commit"
    /\ LET c == wk[w].job
           h == row[c].payload
           seen == wk[w].seen
           acc == AcceptedOf(h, seen)
       IN  /\ version' = IF h \in Blind
                         THEN version
                         ELSE [r \in Record |-> IF r \in acc THEN seen[r] + 1 ELSE version[r]]
           /\ accepts' = [accepts EXCEPT ![c] = [r \in Record |-> IF r \in acc THEN @[r] + 1 ELSE @[r]]]
           /\ conflictLog' = [conflictLog EXCEPT ![c] = @ \cup ConflictedOf(h, seen)]
    /\ Unlock(w)
    /\ Step(w, "mark")
    /\ UNCHANGED <<row, queueVars, req, told, faults>>

\* Mutant of TxFails: the rejection of the transaction is swallowed.
TxFailsSwallowed(w) ==
    /\ wk[w].pc \in {"split", "commit"}
    /\ Unlock(w)
    /\ Step(w, "mark")
    /\ UNCHANGED <<row, queueVars, req, version, accepts, conflictLog, told, faults>>

\* The operator or device check refuses, a statement fails, PostgreSQL aborts a
\* deadlocked transaction: everything is rolled back and process() catches.
TxFails(w) ==
    /\ wk[w].pc \in {"split", "commit"}
    /\ Unlock(w)
    /\ Step(w, "catch")
    /\ UNCHANGED <<row, queueVars, req, version, accepts, conflictLog, told, faults>>

\* markCompleted / markCompletedWithConflicts, after the commit and apart from it.
MarkCompleted(w) ==
    /\ wk[w].pc = "mark"
    /\ LET c == wk[w].job
           h == row[c].payload
           acc == IF h \in Blind THEN {} ELSE AcceptedOf(h, wk[w].seen)
           con == ConflictedOf(h, wk[w].seen)
           status == IF con = {} THEN "COMPLETED" ELSE "COMPLETED_WITH_CONFLICTS"
       IN  row' = [row EXCEPT ![c] = [@ EXCEPT !.status = status, !.accepted = acc,
                                               !.conflicted = con]]
    /\ Step(w, "finish")
    /\ UNCHANGED <<queueVars, req, dataVars, told, faults>>

\* Mutant of MarkFailed: the last attempt is missed.
MarkFailedLate(w) ==
    /\ wk[w].pc = "catch"
    /\ LET isLastAttempt == wk[w].attemptsMade + 1 > MaxAttempts
       IN  row' = [row EXCEPT ![wk[w].job].status = IF isLastAttempt THEN "DEAD_LETTER" ELSE "FAILED"]
    /\ Step(w, "throw")
    /\ UNCHANGED <<queueVars, req, dataVars, told, faults>>

\* The catch block: markFailed by the attempt number the job was delivered with.
MarkFailed(w) ==
    /\ wk[w].pc = "catch"
    /\ LET isLastAttempt == wk[w].attemptsMade + 1 >= MaxAttempts
       IN  row' = [row EXCEPT ![wk[w].job].status = IF isLastAttempt THEN "DEAD_LETTER" ELSE "FAILED"]
    /\ Step(w, "throw")
    /\ UNCHANGED <<queueVars, req, dataVars, told, faults>>

\* An outbox statement of the worker throws: inside the try block the catch
\* block runs, outside it process() rejects at once.
OutboxFails(w) ==
    /\ wk[w].pc \in {"load", "start", "mark", "catch"}
    /\ Fault("outbox")
    /\ Step(w, IF wk[w].pc \in {"start", "mark"} THEN "catch" ELSE "throw")
    /\ UNCHANGED <<row, queueVars, req, dataVars, told>>

\* The process of the worker stops: its open transaction is rolled back, its
\* job stays active in Redis until the lock expires, and the slot restarts.
Crash(w) ==
    /\ wk[w].pc # "idle"
    /\ Fault("crash")
    /\ Unlock(w)
    /\ Retire(w)
    /\ UNCHANGED <<row, queueVars, req, version, accepts, conflictLog, told>>

-----------------------------------------------------------------------------

RequestNext(p) == Find(p) \/ Create(p) \/ Reread(p) \/ Add(p) \/ MarkQueued(p)

WorkerNext(w) ==
    \/ Load(w) \/ MarkProcessing(w) \/ Split(w) \/ Commit(w) \/ TxFails(w)
    \/ MarkCompleted(w) \/ MarkFailed(w) \/ Finish(w) \/ Throw(w)

Next ==
    \/ \E p \in Request : RequestNext(p) \/ RequestFails(p)
    \/ \E c \in Chunk : GetStatus(c) \/ Stalled(c)
    \/ \E w \in Worker, c \in Chunk : Take(w, c)
    \/ \E w \in Worker : WorkerNext(w) \/ OutboxFails(w) \/ Crash(w)

Spec == Init /\ [][Next]_vars

\* What the runtime guarantees: a handler that was started and a worker that
\* took a job go on, an idle worker fetches the jobs that wait, and BullMQ's
\* stalled check finds the jobs of dead workers.
Fairness ==
    /\ \A p \in Request : WF_vars(RequestNext(p))
    /\ \A w \in Worker : WF_vars(WorkerNext(w))
    /\ \A c \in Chunk : WF_vars(\E w \in Worker : Take(w, c))
    /\ \A c \in Chunk : WF_vars(Dead(c) /\ Stalled(c))

FairSpec == Spec /\ Fairness

-----------------------------------------------------------------------------
(* Invariants *)

RowType ==
    [status : Statuses \cup {NoStatus}, payload : Payload \cup {Nil},
     accepted : SUBSET Record, conflicted : SUBSET Record]
JobType ==
    [state : {"none", "waiting", "active", "completed", "failed"},
     attemptsMade : Nat, stalled : Nat, owner : Worker \cup {Nil}]
ReqType ==
    [pc : {"idle", "create", "reread", "add", "mark", "done"},
     chunk : Chunk \cup {Nil}, payload : Payload \cup {Nil},
     seen : Statuses \cup {NoStatus}, reply : {"none", "accepted", "conflict", "error"}]
WorkerType ==
    [pc : {"idle", "load", "start", "split", "commit", "mark", "catch", "finish", "throw"},
     job : Chunk \cup {Nil}, attemptsMade : Nat, seen : [Record -> Nat]]

TypeOK ==
    /\ row \in [Chunk -> RowType]
    /\ job \in [Chunk -> JobType]
    /\ kept \in Seq(Chunk)
    /\ req \in [Request -> ReqType]
    /\ wk \in [Worker -> WorkerType]
    /\ version \in [Record -> Nat]
    /\ rowLock \in [Record -> Worker \cup {Nil}]
    /\ accepts \in [Chunk -> [Record -> Nat]]
    /\ conflictLog \in [Chunk -> SUBSET Record]
    /\ told \in SUBSET Chunk
    /\ faults \in Nat

\* Every record of the chunk has been committed, as a write or as a conflict.
Applied(c) == \A r \in Touches[row[c].payload] : accepts[c][r] > 0 \/ r \in conflictLog[c]

\* A row the outbox reports completed has its effect committed: no crash, retry,
\* lost lock or concurrent request makes the status run ahead of the data, and
\* the record ids it reports were really accepted or really put in conflict.
CompletedImpliesApplied ==
    \A c \in Chunk : row[c].status \in Completed =>
        /\ Applied(c)
        /\ \A r \in row[c].accepted : accepts[c][r] > 0
        /\ row[c].conflicted \subseteq conflictLog[c]

\* Whatever happens to the row afterwards, a client that was once told that its
\* chunk is completed can drop it: the data is committed.
ToldIsDurable == \A c \in told : row[c].status # NoStatus /\ Applied(c)

\* Delivery is at least once, the effect is at most once: among all deliveries
\* of all chunks that carry the same base version of a record that was already
\* stored, at most one is accepted (splitOptimisticConflicts under FOR UPDATE).
Competes(c, d, r) ==
    /\ row[c].payload \in Payload \ Blind
    /\ row[d].payload \in Payload \ Blind
    /\ r \in Touches[row[c].payload] \cap Touches[row[d].payload]
    /\ BaseVersion[row[c].payload][r] = BaseVersion[row[d].payload][r]

AcceptedAtMostOnce ==
    \A c, d \in Chunk, r \in Record : Competes(c, d, r) /\ InitVersion[r] > 0 =>
        /\ accepts[c][r] <= 1
        /\ c # d => accepts[c][r] + accepts[d][r] <= 1

-----------------------------------------------------------------------------
(* The inductive invariant behind the invariants above *)

\* A row has a payload exactly when it exists.
PayloadIffRow == \A c \in Chunk : row[c].status = NoStatus <=> row[c].payload = Nil

\* Whatever refers to a chunk has a row: a job, a committed write, a request
\* past its INSERT and a worker.
JobHasRow(c) ==
    row[c].payload = Nil => job[c].state = "none" /\ \A r \in Record : accepts[c][r] = 0

RequestHasRow(p) ==
    /\ req[p].pc \in {"create", "reread", "add", "mark"} => req[p].chunk \in Chunk
    /\ req[p].pc = "create" => req[p].payload \in Payload
    /\ req[p].pc \in {"reread", "add", "mark"} => row[req[p].chunk].payload # Nil

WorkerHasRow(w) ==
    wk[w].pc # "idle" => wk[w].job \in Chunk /\ row[wk[w].job].payload # Nil

RowsExist ==
    /\ PayloadIffRow
    /\ \A c \in Chunk : JobHasRow(c)
    /\ \A p \in Request : RequestHasRow(p)
    /\ \A w \in Worker : WorkerHasRow(w)

\* A worker about to write its result has committed what the result says.
ResultCommitted ==
    \A w \in Worker : wk[w].pc = "mark" =>
        LET c == wk[w].job
            h == row[c].payload
        IN  /\ \A r \in AcceptedOf(h, wk[w].seen) : accepts[c][r] > 0
            /\ ConflictedOf(h, wk[w].seen) \subseteq conflictLog[c]

\* Between the split and the commit of a worker nobody moves the stored records
\* it has read: it holds their locks and what it has read is current.
LocksHeld ==
    \A w \in Worker : wk[w].pc = "commit" =>
        LET h == row[wk[w].job].payload
        IN  h \notin Blind =>
            \A r \in Touches[h] : InitVersion[r] > 0 =>
                rowLock[r] = w /\ wk[w].seen[r] = version[r]

\* Stored records never disappear, and an accepted write has moved its record
\* past the base version it was accepted on.
VersionsMoved ==
    /\ \A r \in Record : version[r] >= InitVersion[r]
    /\ \A c \in Chunk, r \in Record :
        row[c].payload \in Payload \ Blind /\ accepts[c][r] > 0 /\ InitVersion[r] > 0 =>
            version[r] > BaseVersion[row[c].payload][r]

-----------------------------------------------------------------------------
(* Step properties *)

\* The outbox, the queue and the workers together implement the promise of the
\* push: register once, apply as a compare-and-set, tell only afterwards.
Promise == INSTANCE PushPromise WITH chosen <- [c \in Chunk |-> row[c].payload]
PromiseSpec == Promise!Spec

\* A worker whose lock on the job is still its own never takes a completed row
\* back to an unfinished status (the filter on the loaded status in process()).
WorkersKeepCompleted ==
    [][\A c \in Chunk :
        row[c].status \in Completed /\ row'[c].status \notin Completed =>
            \E p \in Request : req[p].pc = "mark" /\ req[p].chunk = c /\ req'[p].pc = "done"]_vars

(* Invariants of the retry policy *)

\* FAILED means that another attempt is coming: the job is waiting or at work.
FailedIsRetried ==
    \A c \in Chunk : row[c].status = "FAILED" => job[c].state \in {"waiting", "active"}

\* DEAD_LETTER is reported only when the attempts are used up: the job has
\* failed for good or is on its last attempt.
DeadLetterIsExhausted ==
    \A c \in Chunk : row[c].status = "DEAD_LETTER" =>
        job[c].attemptsMade + 1 >= MaxAttempts

\* The status that a client is told of a failure agrees with what the queue is about
\* to do, also between the failure of an attempt and the end of its job.
FailureIsRecorded == FailedIsRetried /\ DeadLetterIsExhausted

(* Liveness *)

Accepted(c) == \E p \in Request : req[p].chunk = c /\ req[p].reply = "accepted"
Decided(c)  == \/ row[c].payload # Nil /\ Applied(c)
               \/ job[c].state = "failed"

\* An accepted push is not forgotten: its records are committed in the end, or
\* the queue has spent every attempt on it.
AcceptedIsDecided == \A c \in Chunk : Accepted(c) ~> Decided(c)

-----------------------------------------------------------------------------
(* What the documentation says and the code does not do *)

\* The client polls push-status until the chunk is finished (README, "Flujo"):
\* an accepted push ends in a final status.
AcceptedIsFinished ==
    \A c \in Chunk : Accepted(c) ~> row[c].status \in Completed \cup {"DEAD_LETTER"}

\* A request that reuses a chunkIndex with other data is refused: an accepted
\* push is the push that the outbox keeps (the hash check of enqueue).
AcceptedIsStored ==
    \A p \in Request : req[p].reply = "accepted" => row[req[p].chunk].payload = req[p].payload

\* The push is idempotent (README, push): a record reported in conflict is one
\* the chunk has not written itself.
ConflictIsForeign ==
    \A c \in Chunk : \A r \in row[c].conflicted : accepts[c][r] = 0

=============================================================================

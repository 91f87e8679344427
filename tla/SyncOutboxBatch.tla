--------------------------- MODULE SyncOutboxBatch ---------------------------
(***************************************************************************)
(* The batch push beside the single push: SyncPushProducerService           *)
(* .enqueueBatch registers several chunks and enqueues one job for them,    *)
(* SyncPushProcessor.process applies them in one transaction.  Both kinds   *)
(* of push share the outbox table, the worker slots and the records, so     *)
(* this module composes with SyncOutbox, whose steps stay as they are.      *)
(*                                                                          *)
(* The job of a batch has the id "<syncSessionId>-batch" of its first       *)
(* pending chunk, and markCompleted writes through its own connection, so   *)
(* its result is visible before the transaction of the batch commits.       *)
(***************************************************************************)
EXTENDS SyncOutbox, SequencesExt

CONSTANTS
    BatchRequest,   \* HTTP requests POST /sync/push/batch
    BatchOf,        \* BatchOf[b]: the chunks of b, a sequence of [chunk, payload]
    Session,        \* syncSessionIds
    SessionOf       \* SessionOf[c]: the session in the natural key of chunk c

\* A batch without chunks is answered at once and changes nothing: left out.
ASSUME BatchAssumption ==
    /\ BatchOf \in [BatchRequest -> Seq([chunk : Chunk, payload : Payload]) \ {<<>>}]
    /\ SessionOf \in [Chunk -> Session]

VARIABLES
    breq,   \* local state of each batch request
    bjob,   \* BullMQ job "<session>-batch", by session
    bwk     \* local state of each worker slot while it runs a batch job

batchVars == <<breq, bjob, bwk>>
allVars   == <<vars, batchVars>>

NoBatch   == [state |-> "none", attemptsMade |-> 0, stalled |-> 0, owner |-> Nil, chunks |-> <<>>]
IdleBatch == [pc |-> "idle", job |-> Nil, attemptsMade |-> 0, chunks |-> <<>>, i |-> 1, pending |-> <<>>,
              own |-> NoVersions, acc |-> [c \in Chunk |-> {}], con |-> [c \in Chunk |-> {}]]

BatchInit ==
    /\ Init
    /\ breq = [b \in BatchRequest |-> [pc |-> "find", i |-> 1, pending |-> <<>>, reply |-> "none"]]
    /\ bjob = [s \in Session |-> NoBatch]
    /\ bwk = [w \in Worker |-> IdleBatch]

-----------------------------------------------------------------------------
(* POST /sync/push/batch: SyncPushProducerService.enqueueBatch *)

Item(b) == BatchOf[b][breq[b].i]

BGoto(b, label) == breq' = [breq EXCEPT ![b].pc = label]
BAnswer(b, reply) == breq' = [breq EXCEPT ![b] = [@ EXCEPT !.pc = "done", !.reply = reply]]

\* The current chunk is pushed to "outboxes" with the status just read, and the
\* loop goes on; after the last one the batch is enqueued, or answered at once
\* when every chunk is completed.
Collect(b, status) ==
    LET pending == IF status \in Completed THEN breq[b].pending
                   ELSE Append(breq[b].pending, Item(b).chunk)
        last == breq[b].i = Len(BatchOf[b])
    IN  breq' = [breq EXCEPT ![b] =
            IF ~last THEN [@ EXCEPT !.pc = "find", !.i = breq[b].i + 1, !.pending = pending]
            ELSE IF pending # <<>> THEN [@ EXCEPT !.pc = "add", !.pending = pending]
            ELSE [@ EXCEPT !.pc = "done", !.reply = "accepted"]]

BFind(b) ==
    /\ breq[b].pc = "find"
    /\ LET s == row[Item(b).chunk].status
       IN  \/ s = NoStatus /\ BGoto(b, "create")
           \/ /\ s # NoStatus
              /\ row[Item(b).chunk].payload # Item(b).payload
              /\ BAnswer(b, "conflict")
           \/ /\ s # NoStatus
              /\ row[Item(b).chunk].payload = Item(b).payload
              /\ Collect(b, s)
    /\ UNCHANGED <<vars, bjob, bwk>>

BCreate(b) ==
    /\ breq[b].pc = "create"
    /\ LET c == Item(b).chunk
       IN  \/ /\ row[c].status = NoStatus
              /\ row' = [row EXCEPT ![c] = [NoRow EXCEPT !.status = "PENDING",
                                                         !.payload = Item(b).payload]]
              /\ Collect(b, "PENDING")
           \/ /\ row[c].status # NoStatus
              /\ BGoto(b, "reread")
              /\ UNCHANGED row
    /\ UNCHANGED <<queueVars, req, wk, dataVars, told, faults, bjob, bwk>>

BReread(b) ==
    /\ breq[b].pc = "reread"
    /\ Collect(b, row[Item(b).chunk].status)
    /\ UNCHANGED <<vars, bjob, bwk>>

\* Queue.add under the session's batch id: a job that is still known keeps its
\* own list of chunks and nothing is enqueued.
BAdd(b) ==
    /\ breq[b].pc = "add"
    /\ LET s == SessionOf[breq[b].pending[1]]
       IN  IF bjob[s].state = "none"
           THEN bjob' = [bjob EXCEPT ![s] = [NoBatch EXCEPT !.state = "waiting",
                                                            !.chunks = breq[b].pending]]
           ELSE UNCHANGED bjob
    /\ breq' = [breq EXCEPT ![b] = [@ EXCEPT !.pc = "mark", !.i = 1]]
    /\ UNCHANGED <<vars, bwk>>

\* The loop of markQueued over the pending chunks.
BMarkQueued(b) ==
    /\ breq[b].pc = "mark"
    /\ row' = [row EXCEPT ![breq[b].pending[breq[b].i]].status = "QUEUED"]
    /\ IF breq[b].i < Len(breq[b].pending)
       THEN breq' = [breq EXCEPT ![b].i = @ + 1]
       ELSE BAnswer(b, "accepted")
    /\ UNCHANGED <<queueVars, req, wk, dataVars, told, faults, bjob, bwk>>

\* The request dies between two steps; what it has created so far stays.
BRequestFails(b) ==
    /\ breq[b].pc # "done"
    /\ Fault("request")
    /\ BAnswer(b, "error")
    /\ UNCHANGED <<row, queueVars, req, wk, dataVars, told, bjob, bwk>>

-----------------------------------------------------------------------------
(* The queue, for batch jobs *)

\* A slot takes one job at a time, of either kind, with the data of the job.
BTake(w, s) ==
    /\ bwk[w].pc = "idle"
    /\ wk[w].pc = "idle"
    /\ bjob[s].state = "waiting"
    /\ bjob' = [bjob EXCEPT ![s] = [@ EXCEPT !.state = "active", !.owner = w]]
    /\ bwk' = [bwk EXCEPT ![w] = [IdleBatch EXCEPT !.pc = "load", !.job = s,
                                                   !.attemptsMade = bjob[s].attemptsMade,
                                                   !.chunks = bjob[s].chunks]]
    /\ UNCHANGED <<vars, breq>>

HoldsBatch(w) == bjob[bwk[w].job].state = "active" /\ bjob[bwk[w].job].owner = w

BRetire(w) == bwk' = [bwk EXCEPT ![w] = IdleBatch]

BFinish(w) ==
    /\ bwk[w].pc = "finish"
    /\ \/ HoldsBatch(w) /\ bjob' = [bjob EXCEPT ![bwk[w].job] = Unlocked(@, "completed")]
       \/ ~HoldsBatch(w) /\ UNCHANGED bjob
    /\ BRetire(w)
    /\ UNCHANGED <<vars, breq>>

\* removeOnComplete: the count is one for the jobs of both kinds and of every session, so
\* that jobs beside those of the model decide when a completed batch job is removed.
BForget(s) ==
    /\ bjob[s].state = "completed"
    /\ bjob' = [bjob EXCEPT ![s] = NoBatch]
    /\ UNCHANGED <<vars, breq, bwk>>

BThrow(w) ==
    /\ bwk[w].pc = "throw"
    /\ \/ HoldsBatch(w) /\ bjob' = [bjob EXCEPT ![bwk[w].job] = Spent(@)]
       \/ ~HoldsBatch(w) /\ UNCHANGED bjob
    /\ BRetire(w)
    /\ UNCHANGED <<vars, breq>>

BDead(s) == \A w \in Worker : ~(bwk[w].job = s /\ bjob[s].owner = w)

BStalled(s) ==
    /\ bjob[s].state = "active"
    /\ \/ BDead(s) /\ UNCHANGED faults
       \/ ~BDead(s) /\ Fault("stall")
    /\ \/ /\ bjob[s].stalled < MaxStalled
          /\ bjob' = [bjob EXCEPT ![s] = Redelivered(@)]
       \/ /\ bjob[s].stalled >= MaxStalled
          /\ bjob' = [bjob EXCEPT ![s] = Unlocked(@, "failed")]
    /\ UNCHANGED <<row, queueVars, req, wk, dataVars, told, breq, bwk>>

-----------------------------------------------------------------------------
(* The worker: SyncPushProcessor.process for a batch *)

BStep(w, label, i) == bwk' = [bwk EXCEPT ![w] = [@ EXCEPT !.pc = label, !.i = i]]

\* The chunk a worker is at in its loop over the pending ones, and whether it is
\* the last.
Current(w) == bwk[w].pending[bwk[w].i]
IsLast(w)  == bwk[w].i = Len(bwk[w].pending)

\* findById in a loop, before the try block; completed rows are filtered out by
\* the status read here.
BLoad(w) ==
    /\ bwk[w].pc = "load"
    /\ LET chunks == bwk[w].chunks
           c == chunks[bwk[w].i]
           pending == IF row[c].status \in Completed THEN bwk[w].pending
                      ELSE Append(bwk[w].pending, c)
       IN  bwk' = [bwk EXCEPT ![w] =
            IF @.i < Len(chunks) THEN [@ EXCEPT !.i = bwk[w].i + 1, !.pending = pending]
            ELSE IF pending # <<>> THEN [@ EXCEPT !.pc = "start", !.i = 1, !.pending = pending]
            ELSE [@ EXCEPT !.pc = "finish", !.i = 1]]
    /\ UNCHANGED <<vars, breq, bjob>>

BMarkProcessing(w) ==
    /\ bwk[w].pc = "start"
    /\ row' = [row EXCEPT ![Current(w)].status = "PROCESSING"]
    /\ IF IsLast(w) THEN BStep(w, "split", 1) ELSE BStep(w, "start", bwk[w].i + 1)
    /\ UNCHANGED <<queueVars, req, wk, dataVars, told, faults, breq, bjob>>

\* Mutant of Visible: the transaction does not see its own earlier writes.
VisibleCommitted(w, r) == version[r]

\* What the open transaction of w sees as the version of r.
Visible(w, r) == IF bwk[w].own[r] > 0 THEN bwk[w].own[r] ELSE version[r]

\* processPushChunkWithTx for one chunk: split and upsert, inside the open
\* transaction; rows the transaction has locked itself do not make it wait.
BSplit(w) ==
    /\ bwk[w].pc = "split"
    /\ LET c == Current(w)
           h == row[c].payload
           rows == IF h \in Blind THEN {} ELSE {r \in Touches[h] : Visible(w, r) > 0}
           seen == [r \in Record |-> IF r \in rows THEN Visible(w, r) ELSE 0]
           acc == AcceptedOf(h, seen)
           own == bwk[w].own
       IN  /\ \A r \in rows : rowLock[r] \in {Nil, w}
           /\ rowLock' = [r \in Record |-> IF r \in rows THEN w ELSE rowLock[r]]
           /\ bwk' = [bwk EXCEPT ![w] = [@ EXCEPT
                !.pc = "mark",
                !.own = IF h \in Blind THEN own
                        ELSE [r \in Record |-> IF r \in acc THEN seen[r] + 1 ELSE own[r]],
                !.acc = [bwk[w].acc EXCEPT ![c] = bwk[w].acc[c] \cup acc],
                !.con = [bwk[w].con EXCEPT ![c] = ConflictedOf(h, seen)]]]
    /\ UNCHANGED <<row, queueVars, req, wk, version, accepts, conflictLog, told, faults, breq, bjob>>

\* markCompleted of one chunk, on another connection: visible at once, while the
\* transaction that writes the records is still open.  The result is that of the
\* split just made, also for a chunk that the batch carries twice.
BMarkCompleted(w) ==
    /\ bwk[w].pc = "mark"
    /\ LET c == Current(w)
           con == bwk[w].con[c]
           status == IF con = {} THEN "COMPLETED" ELSE "COMPLETED_WITH_CONFLICTS"
       IN  row' = [row EXCEPT ![c] = [@ EXCEPT
                !.status = status,
                !.accepted = IF row[c].payload \in Blind THEN {} ELSE Touches[row[c].payload] \ con,
                !.conflicted = con]]
    /\ IF IsLast(w) THEN BStep(w, "commit", 1) ELSE BStep(w, "split", bwk[w].i + 1)
    /\ UNCHANGED <<queueVars, req, wk, dataVars, told, faults, breq, bjob>>

BCommit(w) ==
    /\ bwk[w].pc = "commit"
    /\ version' = [r \in Record |-> Visible(w, r)]
    /\ accepts' = [c \in Chunk |-> [r \in Record |->
            IF r \in bwk[w].acc[c] THEN accepts[c][r] + 1 ELSE accepts[c][r]]]
    /\ conflictLog' = [c \in Chunk |-> conflictLog[c] \cup bwk[w].con[c]]
    /\ Unlock(w)
    /\ BStep(w, "finish", 1)
    /\ UNCHANGED <<row, queueVars, req, wk, told, faults, breq, bjob>>

\* Mutant of BTxFails: the rejection of the transaction is swallowed.
BTxFailsSwallowed(w) ==
    /\ bwk[w].pc = "split"
    /\ Unlock(w)
    /\ BStep(w, "finish", 1)
    /\ UNCHANGED <<row, queueVars, req, wk, version, accepts, conflictLog, told, faults, breq, bjob>>

\* A handler throws, or PostgreSQL aborts a deadlocked transaction: every chunk
\* of the batch is rolled back, also those already marked completed.
BTxFails(w) ==
    /\ bwk[w].pc = "split"
    /\ Unlock(w)
    /\ BStep(w, "catch", 1)
    /\ UNCHANGED <<row, queueVars, req, wk, version, accepts, conflictLog, told, faults, breq, bjob>>

\* Mutants of BMarkFailed: rows completed by now are left alone; the error is not
\* thrown again.
BMarkFailedFresh(w) ==
    /\ bwk[w].pc = "catch"
    /\ LET isLastAttempt == bwk[w].attemptsMade + 1 >= MaxAttempts
           status == IF isLastAttempt THEN "DEAD_LETTER" ELSE "FAILED"
       IN  row' = [row EXCEPT ![Current(w)].status = IF @ \in Completed THEN @ ELSE status]
    /\ IF IsLast(w) THEN BStep(w, "throw", 1) ELSE BStep(w, "catch", bwk[w].i + 1)
    /\ UNCHANGED <<queueVars, req, wk, dataVars, told, faults, breq, bjob>>

BMarkFailedSwallowed(w) ==
    /\ bwk[w].pc = "catch"
    /\ row' = [row EXCEPT ![Current(w)].status = "FAILED"]
    /\ IF IsLast(w) THEN BStep(w, "finish", 1) ELSE BStep(w, "catch", bwk[w].i + 1)
    /\ UNCHANGED <<queueVars, req, wk, dataVars, told, faults, breq, bjob>>

\* The catch block: markFailed for every chunk that was not completed when it
\* was loaded.
BMarkFailed(w) ==
    /\ bwk[w].pc = "catch"
    /\ LET isLastAttempt == bwk[w].attemptsMade + 1 >= MaxAttempts
       IN  row' = [row EXCEPT ![Current(w)].status = IF isLastAttempt THEN "DEAD_LETTER" ELSE "FAILED"]
    /\ IF IsLast(w) THEN BStep(w, "throw", 1) ELSE BStep(w, "catch", bwk[w].i + 1)
    /\ UNCHANGED <<queueVars, req, wk, dataVars, told, faults, breq, bjob>>

\* An outbox statement, or the COMMIT, throws.
BOutboxFails(w) ==
    /\ bwk[w].pc \in {"load", "start", "mark", "commit", "catch"}
    /\ Fault("outbox")
    /\ Unlock(w)
    /\ IF bwk[w].pc \in {"load", "catch"} THEN BStep(w, "throw", 1) ELSE BStep(w, "catch", 1)
    /\ UNCHANGED <<row, queueVars, req, wk, version, accepts, conflictLog, told, breq, bjob>>

BCrash(w) ==
    /\ bwk[w].pc # "idle"
    /\ Fault("crash")
    /\ Unlock(w)
    /\ BRetire(w)
    /\ UNCHANGED <<row, queueVars, req, wk, version, accepts, conflictLog, told, breq, bjob>>

-----------------------------------------------------------------------------

BatchRequestNext(b) == BFind(b) \/ BCreate(b) \/ BReread(b) \/ BAdd(b) \/ BMarkQueued(b)

BatchWorkerNext(w) ==
    \/ BLoad(w) \/ BMarkProcessing(w) \/ BSplit(w) \/ BMarkCompleted(w) \/ BCommit(w)
    \/ BTxFails(w) \/ BMarkFailed(w) \/ BFinish(w) \/ BThrow(w)

\* A step of the single push; a slot at a batch job takes no other.
SingleNext ==
    /\ Next
    /\ \A w \in Worker : wk'[w].pc # "idle" => bwk[w].pc = "idle"
    /\ UNCHANGED batchVars

BatchNext ==
    \/ SingleNext
    \/ \E b \in BatchRequest : BatchRequestNext(b) \/ BRequestFails(b)
    \/ \E s \in Session : BStalled(s) \/ BForget(s)
    \/ \E w \in Worker, s \in Session : BTake(w, s)
    \/ \E w \in Worker : BatchWorkerNext(w) \/ BOutboxFails(w) \/ BCrash(w)

BatchSpec == BatchInit /\ [][BatchNext]_allVars

\* As for the single push: handlers, workers and the stalled check go on.
BatchFairness ==
    /\ \A p \in Request : WF_allVars(RequestNext(p) /\ UNCHANGED batchVars)
    /\ \A w \in Worker : WF_allVars(WorkerNext(w) /\ UNCHANGED batchVars)
    /\ \A c \in Chunk : WF_allVars(\E w \in Worker : bwk[w].pc = "idle" /\ Take(w, c) /\ UNCHANGED batchVars)
    /\ \A c \in Chunk : WF_allVars(Dead(c) /\ Stalled(c) /\ UNCHANGED batchVars)
    /\ \A b \in BatchRequest : WF_allVars(BatchRequestNext(b))
    /\ \A w \in Worker : WF_allVars(BatchWorkerNext(w))
    /\ \A s \in Session : WF_allVars(\E w \in Worker : BTake(w, s))
    /\ \A s \in Session : WF_allVars(BDead(s) /\ BStalled(s))

FairBatchSpec == BatchSpec /\ BatchFairness

-----------------------------------------------------------------------------
(* Properties *)

\* Worker w has an open transaction that covers chunk c, or is about to mark c
\* failed after a rollback.
InFlight(w, c) ==
    \E k \in 1 .. Len(bwk[w].pending) :
        /\ bwk[w].pending[k] = c
        /\ \/ bwk[w].pc \in {"split", "mark", "commit"}
           \/ bwk[w].pc = "catch" /\ k >= bwk[w].i

\* As long as no worker dies and the outbox answers, a row that is completed before
\* its data is committed is at least accounted for: its transaction is open, or
\* has been rolled back and the row is about to be marked failed.
CompletedOrInFlight ==
    \A c \in Chunk : row[c].status \in Completed =>
        Applied(c) \/ \E w \in Worker : InFlight(w, c)

\* A batch job that the queue counts as completed has applied all its chunks.
JobDoneIsApplied ==
    \A s \in Session : bjob[s].state = "completed" =>
        \A k \in 1 .. Len(bjob[s].chunks) : Applied(bjob[s].chunks[k])

\* A chunk that its batch job carries is applied in the end, or the job has used
\* up its attempts.
Carried(c) == \E s \in Session : c \in ToSet(bjob[s].chunks)
BatchDecided(c) == \/ row[c].payload # Nil /\ Applied(c)
                   \/ \E s \in Session : c \in ToSet(bjob[s].chunks) /\ bjob[s].state = "failed"
CarriedIsDecided == \A c \in Chunk : Carried(c) ~> BatchDecided(c)

(* What the documentation says and the code does not do *)

\* A push is processed in the background once it was accepted (README, push):
\* a batch that was accepted is applied, or one of its jobs has failed.
BatchAccepted(c) ==
    \E b \in BatchRequest : breq[b].reply = "accepted" /\ c \in ToSet(breq[b].pending)
BatchAcceptedIsDecided == \A c \in Chunk : BatchAccepted(c) ~> BatchDecided(c)

-----------------------------------------------------------------------------
(* The inductive invariant behind the invariants above *)

BatchReqType ==
    [pc : {"find", "create", "reread", "add", "mark", "done"}, i : Nat \ {0},
     pending : Seq(Chunk), reply : {"none", "accepted", "conflict", "error"}]
BatchJobType ==
    [state : {"none", "waiting", "active", "completed", "failed"}, attemptsMade : Nat,
     stalled : Nat, owner : Worker \cup {Nil}, chunks : Seq(Chunk)]
BatchWorkerType ==
    [pc : {"idle", "load", "start", "split", "mark", "commit", "catch", "finish", "throw"},
     job : Session \cup {Nil}, attemptsMade : Nat, chunks : Seq(Chunk), i : Nat \ {0},
     pending : Seq(Chunk),
     own : [Record -> Nat], acc : [Chunk -> SUBSET Record], con : [Chunk -> SUBSET Record]]

BatchTypeOK ==
    /\ breq \in [BatchRequest -> BatchReqType]
    /\ bjob \in [Session -> BatchJobType]
    /\ bwk \in [Worker -> BatchWorkerType]

\* Every chunk of a list has a row.
Registered(chunks) == \A k \in 1 .. Len(chunks) : row[chunks[k]].payload # Nil

\* The loops of a request and of a worker stay within their lists, and what they
\* have listed has a row.
BatchRequestInLoop(b) ==
    /\ breq[b].pc \in {"find", "create", "reread"} => breq[b].i <= Len(BatchOf[b])
    /\ breq[b].pc \in {"add", "mark"} => breq[b].pending # <<>>
    /\ breq[b].pc = "mark" => breq[b].i <= Len(breq[b].pending)
    /\ breq[b].pc = "reread" => row[Item(b).chunk].payload # Nil
    /\ Registered(breq[b].pending)

BatchJobHasRows(s) ==
    /\ bjob[s].state # "none" => bjob[s].chunks # <<>>
    /\ Registered(bjob[s].chunks)

BatchWorkerInLoop(w) ==
    /\ bwk[w].pc # "idle" => bwk[w].job \in Session
    /\ bwk[w].pc = "load" => bwk[w].i <= Len(bwk[w].chunks)
    /\ bwk[w].pc \in {"start", "split", "mark", "commit", "catch"} =>
            bwk[w].i <= Len(bwk[w].pending)
    /\ Registered(bwk[w].chunks)
    /\ Registered(bwk[w].pending)

BatchInLoops ==
    /\ \A b \in BatchRequest : BatchRequestInLoop(b)
    /\ \A s \in Session : BatchJobHasRows(s)
    /\ \A w \in Worker : BatchWorkerInLoop(w)

\* A slot runs one job at a time.
OneJobPerSlot == \A w \in Worker : bwk[w].pc # "idle" => wk[w].pc = "idle"

InTx(w) == bwk[w].pc \in {"split", "mark", "commit"}

\* A delivery starts with no writes.
TxStartsEmpty(w) ==
    bwk[w].pc \in {"load", "start"} =>
        /\ \A r \in Record : bwk[w].own[r] = 0
        /\ \A c \in Chunk : bwk[w].acc[c] = {}

\* Stored records the open transaction of w has written it has locked, and it is
\* ahead of their committed version.
TxHoldsLocks(w) ==
    InTx(w) => \A r \in Record : InitVersion[r] > 0 /\ bwk[w].own[r] > 0 =>
        rowLock[r] = w /\ bwk[w].own[r] > version[r]

\* Nobody has committed a write on the base version of a write it has accepted, and
\* it has left that version behind.
TxMovesVersions(w) ==
    InTx(w) => \A c \in Chunk : \A r \in bwk[w].acc[c] :
        /\ row[c].payload # Nil
        /\ row[c].payload \notin Blind /\ InitVersion[r] > 0 =>
            /\ version[r] <= BaseVersion[row[c].payload][r]
            /\ bwk[w].own[r] > BaseVersion[row[c].payload][r]

\* Of two chunks that compete for a record it has accepted one at most.
TxAcceptsOnce(w) ==
    InTx(w) => \A c, d \in Chunk : c # d =>
        \A r \in bwk[w].acc[c] \cap bwk[w].acc[d] :
            ~(Competes(c, d, r) /\ InitVersion[r] > 0)

OpenTransactions ==
    \A w \in Worker :
        TxStartsEmpty(w) /\ TxHoldsLocks(w) /\ TxMovesVersions(w) /\ TxAcceptsOnce(w)

\* The chunks that an open transaction has been through are written, or in
\* conflict, once it commits.
Through(w) ==
    IF bwk[w].pc = "split" THEN bwk[w].i - 1
    ELSE IF bwk[w].pc = "mark" THEN bwk[w].i ELSE Len(bwk[w].pending)
TxCovers ==
    \A w \in Worker : InTx(w) => \A k \in 1 .. Through(w) :
        LET c == bwk[w].pending[k]
        IN  Touches[row[c].payload] \subseteq bwk[w].acc[c] \cup bwk[w].con[c]

=============================================================================

# Verification of valeska-api

TLA+ specifications of valeska-api, the backend of a desktop application that
works offline: what it promises to the clients, how outbox, queue, workers and
the optimistic split keep the promise, what the columns and references of each
entity make of a push, how devices are provisioned, spreadsheets imported and
updates offered, where the documentation promises more than the code does, and
proofs that the core properties hold for any number of clients, chunks, workers
and faults.

Paths are relative to the root of the checkout (`src/src/...` is the NestJS
source, `src/README.md` its documentation). `PROJECT.json` maps every definition
to the lines it models.

## 1. The system

Desktop clients work offline and synchronise with this server. A client pushes
chunks of records; the server registers each chunk in an outbox table, a BullMQ
queue delivers it to a worker, the worker writes the records in one transaction
and files a conflict for each record whose version has moved. The client polls
the status of its push, pulls what others have written, entity by entity with a
cursor, and an operator resolves open conflicts.

    client --push--> controller --> producer --> outbox (PostgreSQL)
                                      |              ^   ^
                                      v              |   | status
                                    BullMQ (Redis)   |   |
                                      |              |   |
                                      v              |   |
                                    worker ----------+---+
                                      |  transaction: split, upsert,
                                      v  conflicts, change log
    client --pull---> cursor queries  records, sync_conflictos
    operator --resolve--> resolution service --^

### Inventory

| component | state | operations | hard behaviour | what makes it correct |
|---|---|---|---|---|
| Push producer (`services/sync-push-producer.service.ts`) and outbox (`services/sync-outbox.service.ts`) | table `sync_outbox_jobs`: one row per (session, entity, chunk) with hash, status, result | `enqueue`, `enqueueBatch`, `getStatus`, `createPending`, `mark*` | two requests for one key; a request that stops between INSERT, `Queue.add` and `markQueued`; `markQueued` after the worker has finished | one row and one payload per key; an accepted push is processed; COMPLETED means committed |
| Job queue (`queue/`, BullMQ) | jobs by jobId, their lock, attempts, stalled count | add, take, acknowledge, fail, stalled check | at-least-once delivery, lost locks, job ids that are remembered | external; modelled from the options the code sets |
| Push worker (`processors/sync-push.processor.ts`) | nothing but its job | `process`, for one chunk or for a batch | a crash between two statements; transaction and outbox row are written by different connections; retry policy counted twice (queue and catch block) | a redelivered chunk has no second effect; FAILED is retried; DEAD_LETTER is final |
| Push transaction (`sync.service.ts`, `adapters/optimistic-sync-utils.ts`) | versioned records, `sync_conflictos`, `sync_change_log` | `processPushChunkNow`, `processPushChunkWithTx`, `splitOptimisticConflicts` | two workers on one record; rows that do not exist yet cannot be locked; reuse of open conflicts | no lost update; at most one open conflict per record; the change log is a history |
| Conflict resolution (`services/sync-conflict-resolution.service.ts`) | the same tables | `resolve` | two operators; a push between look and resolution; opposite lock orders | a conflict is resolved once, what was seen is what is resolved, versions grow |
| Entity adapters (`infrastructure/adapters/typeorm-*.ts`) | the tables | optimistic upserts (tramites, detalles, clientes, vehiculos), unconditional upserts (the rest), `save` of conflicts, cursor queries | rows that refer to rows of other chunks; columns a record leaves out; redelivered unconditional upserts | pulls serve what was pushed last; a session whose rows come in order is stored |
| Pull (`sync.service.ts` `processPullSync`, `getSyncState`) | none; the cursor is the client's | pull of a page, state | timestamps are chosen before the COMMIT that shows them; equal timestamps; clocks of devices; microseconds against milliseconds | no row is skipped; a state that equals the cursor means that nothing is missing |
| Excel import and maintenance mode (`tramites/services/import-excel.service.ts`) | flag `isImporting` of each process | `importExcel`, `checkMaintenanceMode` | failing rows inside one transaction; a flag per process; workers that do not look at it; restarts | all rows are stored or none; the flag is set just while an import runs; clients that pull miss nothing |
| Authentication, provisioning (`auth/auth.service.ts`) | users, devices, sucursales, reset codes | `provisionDevice`, `register`, `generateResetCode`, `resetPassword`; `validateOperatorDevice` in `sync.service.ts` | read, then save what was read, without a transaction; pushes of the same rows | one device per MAC; who was provisioned may synchronise; a new password stays |
| Desktop updates (`desktop-updates/`) | manifest file, directory of installers | `findUpdate`, `compareVersions`, `getInstallerPath` | versions of different lengths; edits between question, download and installation | a client only goes forward, and reaches the newest release there is for it |
| Sync health (`services/sync-health.service.ts`) | none | counts of orphans, statistics | counts while a session is half stored | an orphan is explained by a chunk that is still to come |
| HTTP layer, observability, migrations, bootstrap | | | | wiring, metrics and schema: not modelled |

The hazards, each at its line and with the properties that cover it, are the
list `hazards` of `PROJECT.json`.

## 2. Modules

| module | what it is |
|---|---|
| `PushPromise` | abstract specification of the asynchronous push: register once, apply as one atomic compare-and-set, tell afterwards |
| `SyncOutbox` | producer, outbox, queue, worker and transaction for one-chunk jobs, statement by statement |
| `SyncOutboxBatch` | extends `SyncOutbox` by batch requests and batch jobs, which share rows, workers and records with the single ones |
| `OptimisticSync` | contents, versions, conflicts, change log, resolution: the transactions of pushes and of `resolve`, statement by statement |
| `PullCursor` | one table under concurrent writers, and a client that pulls it page by page |
| `EntityRows` | the sixteen tables and the columns of their upserts, as pure operators: what a push makes of a row, and why PostgreSQL rejects it |
| `EntityPush` | extends `EntityRows`: the chunks of a session, run in any order, retried and redelivered, and what the health endpoint counts meanwhile |
| `AuthFlows` | provisioning, registration and password resets, statement by statement, beside pushes of users and devices |
| `ImportExcel` | imports at several processes, maintenance mode, workers and a client that pulls |
| `DesktopUpdates` | the manifest, the choice of a release, and the clients that install it |
| `MCSyncOutbox`, `MCSyncOutboxBatch`, `MCOptimisticSync`, `MCEntityPush`, `MCAuthFlows`, `MCImportExcel`, `MCDesktopUpdates` | finite instances for TLC (`PullCursor` needs no definitions of its own) |
| `SyncOutboxProofs`, `SyncOutboxBatchProofs`, `OptimisticSyncProofs`, `PullCursorProofs`, `AuthFlowsProofs`, `ImportExcelProofs`, `EntityPushProofs`, `DesktopUpdatesProofs` | theorems |

`SyncOutboxBatch` composes the single and the batch path of the push, which share
rows, workers and records; `ImportExcel` composes import, push and pull, and
`AuthFlows` provisioning and push, as far as they write the same tables.

Operators named "Mutant of X" state a plausible bug in X; `PROJECT.json` pairs
each checked property with one that breaks it. No specification uses them.

### SyncOutbox

A chunk stands for its natural key and, that key being unique, for the id of its
outbox row and for the jobId of its job. A payload stands for the hash and the
records of a body. Each process has a program counter that names the next
statement of the code:

| process | labels and actions | code |
|---|---|---|
| request | `idle` Find, `create` Create, `reread` Reread, `add` Add, `mark` MarkQueued, `done` | `enqueue`, with `createPending` as INSERT and, after a unique violation, the SELECT of the winner |
| client | GetStatus | `getStatus` |
| worker | Take, `load` Load, `start` MarkProcessing, `split` Split or TxFails, `commit` Commit, `mark` MarkCompleted, `catch` MarkFailed, `finish` Finish, `throw` Throw | `process` |
| queue | Stalled; Take, Finish and Throw above | BullMQ |
| faults | RequestFails, OutboxFails, Crash, Stalled of a live worker | any request or worker dies, or a statement of the outbox throws, between two steps |

`Split` reads the versions and takes the row locks (`FOR UPDATE`), `Commit`
writes and releases them; a row that does not exist is not locked, as in
PostgreSQL. Payloads in `Blind` belong to entities whose adapter upserts without
looking at versions. The history variables `accepts`, `conflictLog` and `told`
record what was committed and what a client was told; no guard reads them. A
handler that throws (TxFails) is not counted as a fault: it may happen at every
attempt.

Not in the model: the wait between attempts (a job may be taken at any time, so
every wait is covered), metrics, and what the columns of a record contain.

### SyncOutboxBatch

`enqueueBatch` finds or creates the rows one after the other, adds one job whose
id is the session of the first pending chunk plus `-batch`, and marks the rows.
A worker with such a job loads the chunks in a loop, marks them PROCESSING,
opens one transaction, and for each chunk splits and runs `markCompleted` on
another connection; the COMMIT comes last, and the catch block marks every
loaded chunk. `BatchNext` has every step of `SyncOutbox` (`SingleNext`) and the
steps of the batch; a worker slot holds one job of either kind. A worker that has
taken a job carries its chunks with it (`job.data`). The queue may forget a completed
batch job (BForget, `removeOnComplete`); after that the session gets a job again.

### OptimisticSync

A content is the name of who wrote it, so that two writes are never equal by chance.
A client pulls its records, edits them and pushes one chunk, whose transaction locks
the rows (Lock), reads the open conflicts without a lock (ReadOpen), reads the rows
it is about to save (LoadConflicts), and writes conflicts, change log and records at
its COMMIT. It may fail and is tried again, `MaxAttempts` times. A resolver looks at
an open conflict (Look), locks it (RLock), updates the record under its row lock to
the version after the `expectedRecordVersion` of the request (RUpdate) and commits
(RCommit); it may fail at every statement. A request without `expectedRecordVersion`
always fails, where the stored version should be read (RRead). Abort is PostgreSQL
breaking the deadlock of a push that holds the record and wants the conflict with a
resolution that does the reverse; two pushes whose `FOR UPDATE` meets the same rows
in different orders end with one of them failing at `lock`. `Clash` is the partial
unique index on open conflicts (migration 1786000000000), and Rejected the push that
meets it. CopyConflict and PushConflict are a client that pulls a row of
`sync_conflictos` and pushes it later, as it is: `manager.save` writes the columns
that differ, whatever has become of the row. `resolve` logs its update under the
entity's name and pushes under the table's; `log` is kept by record and contains
both. The id of a new record is a UUID, so one client has made it (`Author`), and
the others push it only once they have pulled it.

### PullCursor

Time is counted in ticks of the database's resolution, `Millisecond` of them to
a millisecond; `ToDate` is what a JavaScript `Date` keeps. A write takes its
timestamp at once and becomes visible at its COMMIT. Kinds of writers: `split`
(timestamp of the server at the split), `given` (the updatedAt of the record, by
the device's clock), `default` (`DEFAULT now()`), `resolve` (the row changes, its
`fecha_conflicto` does not). `Page` is the query of the adapters with its order
and limit, `Pull` applies a page and stores `nextCursor`. `late` is a history
variable: rows that were committed at or below the cursor and have not been
pulled since. `State` is what `getSyncState` reports.

### EntityRows and EntityPush

A table is a record of its columns: those that must not be NULL (`needs`), those
with a DEFAULT, UNIQUE columns and references, read from the entity classes. A
content is a model value, as the properties only ask where a column's value comes
from. `Kept` are the columns that the `..._UPSERT_COLUMNS` of an adapter leave out,
`Inserted` and `Updated` are `INSERT ... ON CONFLICT (id) DO UPDATE SET c =
EXCLUDED.c` (`save` for conflicts), `Rejection` says which constraint a record
violates. `..._SyncDto` are the shapes that the DTO classes describe; no handler of
this commit validates with them, and they are used here only as the records that
clients send. The first migration is not in the repository: the entity classes are
taken for the schema, for all columns that later migrations do not touch.

In `EntityPush` a session is a sequence of jobs, each a sequence of chunks of one
record. Store and Reject are a delivery (`Outcome` runs the chunks in one
transaction), MarkCompleted and Redeliver what follows it. `waits` tells a client
that pushes a chunk when the one before it is completed from one that sends all at
once. `TramitesSinDetalle` and the three sets after it are the counts of
`getHealthSummary`.

### AuthFlows

A request runs from statement to statement; its local state is what it has read:
ValidateUser or ReadUser, SaveUser, FreshUser, ResolveSucursal, FindDevice,
SaveDevice, BindUser are `provisionDevice`; ReadForCode, VoidCodes, InsertCode,
SendCode are `generateResetCode`; LookUpCode, SetPassword, SpendCode are
`resetPassword`. `save` writes the entity as it was read, with its relation
`dispositivos` (Reowned); `update` writes only the columns it is given. A MAC is an
address and a spelling, as the code compares it without its case and the unique
index letter by letter. Copy, PushUser and PushDevice are a client that pushes rows
it has pulled before. A statement of a provision may fail on a constraint, and the
client repeats the request (Retry). `current`, `exposed` and `moved` are history
variables. The database may start in any state that keeps its foreign keys and
unique names and has no MAC in two spellings (`WorldsAssumption`), and requests may
ask for anything (`PlansAssumption`: a reset names a password); a row created
without an id gets one that nothing else has, the name of its request. Hashes,
tokens and mails are values; what is abstracted from a code is its six digits, its
name and state are kept.

### ImportExcel

`importExcel` reads the file before its first `await`, so Upload is one step. Then
every row is BeginRow, SaveTramite (with the cliente and the vehiculo, which are
always new), FindOrSaveEmpresa, FindOrSavePresentante and SaveDetalle, in one
transaction (`tx`, seen by itself only) without savepoints: after a failed statement
PostgreSQL refuses the others (`aborted`), and the COMMIT rolls back without an
error. Without catalogues SaveTramite ends a row with an error of the program, after
its first two statements and before the third. A COMMIT whose connection is lost
(CommitFails) throws and clears the flag; the database has committed, or never will, or
decides afterwards (CommitLate), which also covers a restart that hits the COMMIT.
PushCommit is a worker that does not look at the flag, PullCheck and
PullQuery are a client whose pull may have passed the check when the import begins.
Of the cells, only the presentante's name is taken apart (`ParsePresentanteName`).
Rows that are pushed have ids of their own (`ImportAssumption`).

### DesktopUpdates

A version is the sequence of its parts, `NaN` for one that is not a number; a
release has a target, an architecture and a file name, which `Refused` may hold
(`validateInstallerFileName`). The administrator edits the manifest (Edit) and the
directory (Store) at any time, a client asks (Check), and downloads and installs
(Install) what it was offered. The download goes by file name alone (`Installer`): a
file may hold the installer of another release of that name. The client is Tauri's
updater, which is not part of the repository: it is taken to refuse a file that the
signature in the answer is not of, and to ask again. Without that check two releases
that share a file name would lead a client back.

## 3. What TLC checks

`expect: violation` marks a disagreement between documentation and code; the run
passes when TLC finds the counterexample.

| run | specification | shows | distinct states |
|---|---|---|---|
| push | SyncOutbox | repeated and competing pushes, two workers, one fault of any kind: `CompletedImpliesApplied`, `ToldIsDurable`, `AcceptedAtMostOnce`, and every step implements `PushPromise` | 842 000 |
| retry | SyncOutbox, fair | one crash of a worker or request: `FailureIsRecorded`, `WorkersKeepCompleted`, and `AcceptedIsDecided` | 342 000 |
| batch_faults | SyncOutboxBatch | two batches of one session that disagree about a chunk, one fault: `AcceptedAtMostOnce` for a record that two chunks of one transaction update | 1 406 000 |
| batch_live | SyncOutboxBatch, fair | a batch and a single push of one of its chunks: `CompletedOrInFlight`, `JobDoneIsApplied`, `CarriedIsDecided` | 391 000 |
| batch_lost | SyncOutboxBatch | violated: `JobDoneIsApplied` when a worker may crash | |
| opt_resolve | OptimisticSync, fair | three clients, one deleting and one inserting, two resolvers that write, a pushed copy of a conflict: `AcceptedSawCurrent` (no lost update), `LogIsChain`, `ResolvesWhatIsOpen`, `IndexNeverFires`, `RequestsEnd` | 255 000 |
| pull_pages | PullCursor, fair | `SeenUpToCursor`, `StateAgrees`, `ShortPageIsComplete`, `CatchesUp` | 74 000 |
| pull_late | PullCursor, fair | violated: `GetsEverything` | |
| entities | EntityPush, fair | every entity pushed and changed in every shape, and families of rows in any order: `ServedAsPushed`, `OrderedJobIsAccepted`, `OrphansArePending`, `InOrderIsStored` | 156 000 |
| auth | AuthFlows, fair | eight pairs or triples of requests on four databases, with a push: `OneDevicePerMac`, `ResetSticks`, `AnsweredMaySync`, `ProvisionEnds` | 26 000 |
| import | ImportExcel, fair | two uploads, two processes, a push, a restart or a failing COMMIT, a client that pulls: `AllOrNothing`, `OneOfAName`, `NothingIsSkipped`, `MaintenanceEnds` | 633 000 |
| updates | DesktopUpdates, fair | two clients, five releases, five edits: `NeverDowngrades`, `InstallsLatest` | 16 000 |

Every run but `updates` and the two violations also checks the type invariant of its
module where it says something of its own; in `EntityPush`, `AuthFlows` and
`ImportExcel` that invariant contains the constraints of the database, which a
reachable state must satisfy.

### Bounds

* Two workers, two requests, two chunks, `MaxAttempts` 2, `MaxStalled` 1: the
  hazards are between two actors; two attempts are a first one and a last one,
  which is what the code tells apart (`isLastAttempt`); `MaxStalled` is BullMQ's
  default. One fault per behaviour (`MaxFaults`), of every kind and at every
  point; failing transactions are not counted.
* Three records, one stored, one new, one of a catalogue, and two payloads that
  overlap in the stored one: every outcome of the split, alone and mixed.
* `KeepCompleted` 0 or 1 instead of 1000: a completed job is still known, or no
  longer known, when its chunk is pushed again.
* A batch has two chunks that update the same record, so its second chunk meets
  the uncommitted write of the first.
* OptimisticSync: three clients (the third meets a conflict that the second has
  filed and an operator has resolved), two resolvers, two records, one copy of a
  conflict.
* PullCursor: three rows and pages of two, so that a page ends between equal
  timestamps; two ticks to a millisecond, three ticks in all, two writes a row.
  The safety properties are proved for all values.

* EntityPush: one row of each entity, two contents (the one that was there and the
  one that is pushed), up to six jobs, two attempts (a first and a last one), one
  redelivery. All entities are run, in three shapes: every column, what the DTO
  describes, the least that the table takes.
* AuthFlows: at most three requests at once, chosen so that they meet in a user, a
  name, a device, a MAC in two spellings or a code; one push of a stale row. The
  databases: empty, a user, a device without authorisation, a device with its user
  deactivated.
* ImportExcel: two uploads and two processes (one flag that refuses, one that does
  not know), files of two rows with a blank one between them or a row that the
  database refuses, with and without catalogues, one push, one fault: a restart or a
  COMMIT that fails.
* DesktopUpdates: versions 1.9, 1.9.2 and 1.10 (one file name), 1.9.3 (refused file
  name), 1.10-beta.1, 1.11 for another target; adding a release takes two edits, so five edits let a
  client go through two releases and lose one.

Runs stop where the system really may stop (every client has finished), hence
`CHECK_DEADLOCK FALSE`.

### Fairness

* A handler or worker that is running goes on to its next statement
  (`WF(RequestNext(p))`, `WF(WorkerNext(w))`): Node.js runs its callbacks, and a
  statement that fails is a step of the model. A statement that waits for a row
  lock is not enabled until the lock is free. Crashes and failing requests are
  never forced.
* A waiting job is taken by some idle worker (`Take`), and a job whose owner is
  dead is found by the stalled check: BullMQ polls for both. That a live worker
  loses its lock is never forced.
* `Abort` is fair because PostgreSQL checks for deadlocks after
  `deadlock_timeout`.
* `WF(Pull)`: the client goes on pulling; `WF(Commit \/ Rollback)`: a transaction
  ends. A write is never forced.

* EntityPush: `WF(Next)`, workers go on taking jobs.
* AuthFlows: a provision goes on to its next statement, and a client that repeats
  its request does so (`retry`). Resets and pushes are never forced.
* ImportExcel: the loop over the rows goes on until it ends; no import is begun by
  force.
* DesktopUpdates: a client asks again and installs what it downloads.

A handler that always throws uses up the attempts; the liveness properties
therefore end in "committed, or the attempts are used up".

## 4. Where documentation and code disagree

Runs with a finding in `PROJECT.json`:

* **batch_lost.** In a batch a chunk is marked COMPLETED before the transaction
  commits. A crash in between rolls the records back, and the redelivered job
  skips the chunk because its row is completed.
* **pull_late.** Timestamps are chosen before the COMMIT, so a row may appear
  below a cursor that has passed it, and is never pulled.

The models show more of them, by the same specifications, with the constants of the
run or those described here. The properties are stated in the modules:

| property | shown by | what happens |
|---|---|---|
| `SyncOutbox!AcceptedIsFinished` | one chunk pushed once, no fault, the fair specification | `markQueued` does not look at the status: when the worker is faster than the handler, the row of a finished chunk is QUEUED for ever, although the README has the client poll until `COMPLETED` |
| `SyncOutboxBatch!BatchAcceptedIsDecided` | two batches of one session with different chunks, no fault, the fair specification | the job id of a batch is one per session: a second batch is marked QUEUED and answered accepted, but BullMQ ignores a job id it knows, and no job carries it |
| `SyncOutbox!FailedIsRetried` | `FaultKinds = {"outbox"}` | `findById` stands outside the `try` block: when it fails on the last attempt the job has failed and the row stays FAILED instead of DEAD_LETTER |
| `SyncOutbox!AcceptedIsStored` | one chunk pushed twice at once with different bodies | two simultaneous first pushes with different bodies: the loser is answered accepted, its body is dropped (`createPending` does not compare hashes) |
| `SyncOutbox!ConflictIsForeign` | `FaultKinds = {"crash"}` | a chunk redelivered after its COMMIT finds its own write and reports a conflict with itself |
| `SyncOutbox!ToldIsDurable`, in `SyncOutboxBatch` | the constants of batch_lost, no fault | a client reads COMPLETED for a chunk whose batch is rolled back later |
| `OptimisticSync!ResolveIncrements` | opt_resolve | `resolve` stores `expectedRecordVersion + 1` without comparing it: a push that was committed since the operator looked is overwritten, and the version may go back (the comment in `sync-conflict-resolution.service.ts:90` speaks of an increment) |
| `OptimisticSync!ResolvedStays` | opt_resolve | a client pushes back a conflict it pulled when it was open: the resolution is undone, with the record's data left as the resolution stored it |
| `OptimisticSync!ReportedIsOpen` | a resolver without data | a resolution commits between ReadOpen and the COMMIT of a push, which then reports a conflict that is resolved |
| `OptimisticSync!ResolvesWhatWasSeen` | a resolver without data | a later push replaces `datosLocales` of the open conflict the operator has looked at |
| `PullCursor!GetsEverything` | `Kinds = {"given"}` | the updatedAt of a device that was offline lies below the cursors of the others |
| `PullCursor!GetsEverything` | `Kinds = {"split", "resolve"}` | a resolved conflict keeps its `fecha_conflicto`: who has pulled it open never learns of the resolution |
| `PullCursor!CatchesUp` without the exception `Crowded` | `Millisecond = 2`, `Kinds = {"default"}` | a page of rows within one millisecond: the cursor lies below all of them and every pull returns the same page |
| `EntityPush!NothingIsDeadLettered` | entities | a chunk that refers to a row of another chunk of its session is tried before that chunk and uses up its attempts; its DEAD_LETTER job stays in Redis under its id, so that a repeated push does not revive it |
| `EntityPush!NewestIsServed` | two contents of one sucursal, pushed by a client that does not wait | the tables that are upserted unconditionally have no versions: a chunk that is stored, or retried, after a newer one of its row puts the older contents back |
| `EntityPush!OmittedIsKept` | entities | a record that leaves a column out resets it to its DEFAULT or to NULL, also where the DTO calls the field optional |
| `AuthFlows!ResetIsKept` | auth | `save` in `bootstrapUserFromProvisionFile` writes the password it has read over one that was set meanwhile; so does the push of an older row |
| `AuthFlows!DeviceIsKept` | auth | the same `save` writes the relation `dispositivos` back as it was read: a device that was bound meanwhile loses its user, who is then refused by push and pull |
| `AuthFlows!OneCodeAccepted` | auth | two resets with one code both find it unused, and both are answered: the code is marked used at the end |
| `ImportExcel!SummaryIsTrue` | import | one row that the database refuses rolls back all of them; the summary counts the rows before it as imported |
| `ImportExcel!NoOrphans` | import | without catalogues every row ends after its cliente and vehiculo were saved, and those are committed |
| `ImportExcel!OneEmpresa` | import | two processes import at once, each with a flag of its own: both create the empresa of one name |
| `ImportExcel!NeverSkipped` | import | a pull that passed the check before the import, or a client of another process, moves its cursor with a row a worker commits meanwhile past the rows of the import, which have the times of their turn |
| `DesktopUpdates!NoPrereleases` | updates | `1.10-beta.1` compares as 1.10.1: it is offered over 1.10 |

`OptimisticSync` shows one more disagreement, by its step RRead. The comment in
`sync-conflict-resolution.service.ts:90` has a resolution with data take the version of
the request "or read current". The read gives `select()` the class of the entity, which
TypeORM takes for a function that builds a subquery and calls: the request ends with an
error, and the conflict stays open. A resolution with data without
`expectedRecordVersion` is therefore never answered "resolved".

When the connection breaks at the COMMIT of an import, the flag is cleared although the
database may still commit: another import of the process may then create the same
empresa again, and a pull may move a cursor past the rows. `OneOfAName` and
`NothingIsSkipped` name this exception (`Late`).

Two more observations, which follow from the tables of `EntityRows`. `usuarios`,
`dispositivos` and `sucursales` have a `created_at` that is NOT NULL and has no
DEFAULT, and no DTO has the field: a record of the described shape is rejected (the
run adds `createdAt`). For the same reason, and because it gives the row no id,
`register` (README.md:157) never stores a user if the schema is the one of the
entity classes (`NeverRegistered` of `AuthFlows` holds). And a user
and a device that refer to each other cannot be stored by one session in any order
of whole rows: one of them must be pushed first without its reference.

## 5. What is proved

For all sets of clients, requests, workers, chunks, records, rows, users, devices and
files, finite or not, and for all bounds, from the named assumptions of the modules:

* `SyncOutbox`: types of the constants; a client's base version never exceeds the
  stored version. `SyncOutboxBatch` adds that a batch has at least one chunk.
* `OptimisticSync`: types; clients, resolvers and `Seed` differ; new records have one
  author.
* `PullCursor`: ids are naturals and finitely many.
* `AuthFlows`: the database starts with its constraints satisfied; fresh ids.
* `ImportExcel`: a file is a sequence of rows; pushed and imported ids differ.
* `EntityPush`: sessions start from rows that the schema admits (`WellFormed`), and
  chunks name entities (`@IsIn(SYNC_ENTITY_NAMES)`).
* `DesktopUpdates`: versions are sequences of numbers once the other parts are
  dropped.

Two theorems about retries and two about batches have a hypothesis on the faults
besides, three of `EntityPush` hypotheses on what clients send, given with them. The
latter are stated at the end of `EntityPush`, and `ClientsAssumption` in
`MCEntityPush` has TLC evaluate them: the sessions of run entities satisfy all of
them.

| theorem | statement |
|---|---|
| `SyncOutboxProofs!TypeCorrect` | `Spec => []TypeOK` |
| `SyncOutboxProofs!CompletedIsApplied` | a row reported completed has its data committed |
| `SyncOutboxProofs!ToldIsKept` | what a client was told holds for ever |
| `SyncOutboxProofs!AcceptedOnce` | at most one accepted write per base version of a stored record |
| `SyncOutboxProofs!KeepsPromise` | `SyncOutbox` implements `PushPromise` |
| `SyncOutboxProofs!CompletedIsKept` | no worker takes a completed row back, if no live worker loses its lock |
| `SyncOutboxProofs!FailureReported` | FAILED means that an attempt is to come, DEAD_LETTER that none is, if the outbox answers and there are no more crashes than `MaxStalled` |
| `SyncOutboxBatchProofs!BatchAcceptedOnce` | at most one accepted write per base version, with batches and single pushes side by side, under all faults |
| `SyncOutboxBatchProofs!BatchCompletedIsAccounted` | a row reported completed is applied or its transaction is still in flight, if no worker dies and the outbox answers (`WorkersLive`) |
| `SyncOutboxBatchProofs!BatchJobDoneIsApplied` | a batch job counted as completed has applied all its chunks, if besides no live worker loses its lock (`WorkersKeepJobs`) and the chunks of a batch are of one session (`OneSession`) |
| `OptimisticSyncProofs!Typed` | `Spec => []TypeOK` |
| `OptimisticSyncProofs!NoLostUpdate` | an accepted push replaces what its author had pulled |
| `OptimisticSyncProofs!ChangeLogIsChain` | the change log of a record is a history without gaps |
| `OptimisticSyncProofs!IndexNeverRejects` | the index of open conflicts rejects no push |
| `OptimisticSyncProofs!ResolvedWhileOpen` | a conflict is open when its resolution commits |
| `PullCursorProofs!TypeCorrect` | `Spec => []TypeOK` |
| `PullCursorProofs!PagingSkipsNothing` | paging skips no row that was not committed late |
| `PullCursorProofs!ShortPageEndsPaging` | after a short page nothing else is missing |
| `PullCursorProofs!StateIsComplete` | a client whose cursor is the reported state has every row, but for late commits and rows of that millisecond |
| `AuthFlowsProofs!RowsRefer` | users and devices refer to rows that exist, names are unique |
| `AuthFlowsProofs!OneDeviceStays` | one device per MAC, however it is spelled |
| `AuthFlowsProofs!PasswordSticks` | the password last set is the one in the table |
| `AuthFlowsProofs!ProvisionedMaySync` | who was provisioned may synchronise |
| `ImportExcelProofs!FlagHolds` | the flag of a process is set just while one import runs in it |
| `ImportExcelProofs!ImportIsAllOrNothing` | an import stores all its rows or no tramite |
| `ImportExcelProofs!NamesAreUnique` | imports of one process make one empresa and one presentante per name, but for what was committed after its import had ended with an error |
| `ImportExcelProofs!MaintenanceModeWorks` | a client whose pulls were refused is not led past the rows of the import, with the same exception |
| `EntityPushProofs!PushTypeCorrect` | `Spec => []PushTypeOK`: the tables stay well-formed, the attempts bounded |
| `EntityPushProofs!OrderedJobHasItsReferences` | a job whose references are stored or come first in it is not rejected for a reference |
| `EntityPushProofs!OrderedJobAccepted` | it is accepted, if records have what is NOT NULL (`WholeRecords`) and no two rows get the same unique value (`UniqueValues`) |
| `EntityPushProofs!PushedIsServed` | what was pushed last is in the table, if a record has columns of its table only (`TableColumns`), a client that does not wait leaves each row to one job (`RowsApart`) and bases are what the server had or the client pushed (`BasedOnLast`) |
| `EntityPushProofs!OrphansExplained` | an orphan comes from a chunk not yet stored, if besides records have what is NOT NULL and the session ends without an orphan (`EndsWhole`) |
| `DesktopUpdatesProofs!CompareDecidesOrder` | `compareVersions` is 1 exactly when the left version comes after the right one |
| `DesktopUpdatesProofs!CompareIsConsistent` | `compareVersions` is what `Array.sort` asks for: 1, 0 or -1, swapping changes the sign, newer than is transitive, versions that tie compare alike with every third |
| `DesktopUpdatesProofs!NewestTie` | the releases `findUpdate` may answer compare equal: the order of the manifest decides nothing else |
| `DesktopUpdatesProofs!ClientsGoForward` | no client is led back to an older version |

**Types.** `Shape == TypeOK /\ RowsExist` is inductive: types alone are not,
since an action applies `Touches` to the payload of a row, which is a payload
only if the row exists. `RowsExist` says that jobs, requests past their INSERT
and workers refer to rows that exist; `NextShape` preserves it, action by action.

**Status and data.** `CompletedImpliesApplied` is not inductive: `MarkCompleted`
would need to know that the data is committed. `ResultCommitted` says so of
every worker at `mark`. `DurabilityInv` joins it with `Shape`,
`CompletedImpliesApplied` and `ToldIsDurable`; the history variables only grow
(`DataMonotone`) and the payload of a row never changes (`PayloadStable`), hence
`Applied` is stable.

**Compare-and-set.** `AcceptedAtMostOnce` needs two facts: between its split and
its commit a worker holds the locks of the stored records and what it has read
is current (`LocksHeld`); and an accepted write has moved its record past its
base version (`VersionsMoved`). Then a second write with the same base version
finds a greater version and is not accepted (`FirstAccepted`). Together with
`Shape` this is `CompareAndSetInv`. Records that did not exist at the start are
excepted, because there is no row to lock.

**Retries.** What the catch block writes depends on `attemptsMade`, which the queue
counts, and the queue forgets neither a job nor its owner unless a live worker loses
its lock. `LockInv` says so: a worker past Take owns its job (`OwnsJob`), the queue
keeps each completed job once (`KeptDone`), and the row of a chunk that a worker is
about to write is not completed (`StillOpen`). From it follows `CompletedIsKept`,
whose hypothesis is `"stall" \notin FaultKinds`: with a lost lock two workers have
one job, and the slower one marks the row FAILED. `RetryInv` adds that the stalls of
a job are at most the crashes (`FewStalls`), that a chunk without a job, or with a
completed one, is not reported as failed (`Settled`), and that what a worker has
written agrees with what it is about to tell the queue (`Ending`). `FailureReported`
assumes that the faults are crashes and failing requests, at most `MaxStalled` of
them. More crashes make BullMQ fail the job without the worker, and an outbox
statement that fails leaves the row as it was: in both cases FAILED or PROCESSING
stands beside a failed job.

**Batches.** The steps of the single push keep their invariants beside those of the
batch push, and the other way round, because they meet in the rows, the locks and the
records only (`ShapeFrame`, `LocksHeldBeside`, `BatchLeaves`). `TransactionInv` adds
to `CompareAndSetInv` what the open transaction of a batch knows, chunk after chunk
(`OpenTransactions`): it has locked each stored record it has written and is ahead of
its committed version (`TxHoldsLocks`); each write it has accepted is on a base
version that nobody has committed a write on, and it has left that version behind
(`TxMovesVersions`), so a second chunk of the same batch with the same base version
sees its own earlier write and is in conflict (`TxAcceptsOnce`). The commit adds all of
them to `accepts` at once, which is why these facts must be carried from split to
split.

`AccountedInv` adds that what the transaction has been through it will write or has
in conflict (`TxCovers`), hence `CommitApplies`, and follows a completed row from
the `markCompleted` that runs ahead of the commit to that commit, or through the
rollback to the `markFailed` of its chunk. A crash, or an outbox statement that
throws in the catch block, cuts this short: hence `WorkersLive`. `DoneInv` adds that
a busy worker and its job have each other, with the same chunks (`BatchOwned`), that
jobs of different sessions share no chunk (`SessionsApart`), and that each chunk of
a job is applied or in the list of its worker (`ToDo`). The step that needs all
three is the load: it leaves out the chunks it finds completed, and these are
applied because whoever had one in flight would be at the same job
(`LoadedCompletedIsApplied`). Run batch_lost shows that a crash breaks the claim. So
do, without any fault, two batches of different sessions that share a chunk: the
second one finds it completed while the transaction of the first is open. The job
id, made of the session of the first chunk, supposes one session per batch, but the
server does not check it.

**Optimistic split.** `PushInv` is `TypeInv` with four parts. `LockInv`: which locks a
push and a resolution hold at each statement. `ConflictInv`: conflicts that a push
refers to exist, and the open one it has read is the only one of its record until it
commits; the look is not locked, but whoever files a conflict holds the lock of the
record. `VersionInv`: a version that a client has seen belongs to a past content, and
versions name contents (`SeenIsPast`); a new record is known to its author only
(`NewIsOwn`). `LogInv`: the last entry of the log agrees with the record, and the
entry a push is about to write with what it has read under the lock. Resolvers that
store data, and so may take a version back, are part of it.

**Users and devices.** `BaseInv` says, of every statement of a provision, which rows
it has read and that they still exist, as nothing deletes rows. `MacInv` adds
`OneSpelling`: beside a device about to be saved, another one with its address can
only be spelled in lower case, and then the unique index sees it. `ResetInv` adds
that a row which will be written back as it was read has the current password or its
user is exposed (`ReadSticks`, `CopySticks`). `AnswerInv` adds that provisions work
for active users and that a device which requests of one user and one MAC have saved
is as they saved it (`AsSaved`); `PastStays` carries it over the statement that
binds the user.

**Imports.** `ImportInv` has the flag as a lock (`FlagIsLock`). Of a running import it
says what its transaction holds, row by row of the file (`Done`, `Whole`, `Refers`,
`OneName`), that after an error the transaction is refused or has no tramite
(`Faultless`), and that for a client whose pulls are refused meanwhile the stamps of
its rows lie beyond the cursor (`Ahead`). Restarts and failing rows keep it, because
they throw the transaction away together with the flag. A COMMIT that takes effect after
it has thrown does not: of such a transaction only its own rows are known (`Pending`),
since the next import and the pulls no longer wait for it. Names and skipped rows are
therefore claimed but for what was committed late (`Late`, with `LateStays`).

**Sessions.** The transaction of a job is a recursive function over its chunks;
`Run` states it as a sequence of results, which exists for every length (`RunExists`),
and what holds of the first result and goes from one to the next holds of the last
(`ReachesAll`, by the least counterexample). `UpsertWellFormed` and `StepCases` say
what one chunk does. A chunk that is in conflict is skipped, but then its row exists
(`PresentStep`): so each chunk finds its references, and what can reject it is a null
or a unique value. `Traced`, which every upsert keeps, says that a unique value was
pushed for the very row that has it, or was there.

`ServedInv` is the inductive invariant of what the tables have: the last chunk of a
row among the stored jobs is held, in the version after its base (`LastHeld`); the
other rows are as they were and there are no others (`RowsKept`, `RowsKnown`); a
client that waits has completed what it sent before (`InTurn`). When a job is stored
for the first time each chunk is based on the version it finds (`FirstReady`, `RunHolds`).
When it is redelivered, the rows with versions have moved past every base of it,
because bases grow from chunk to chunk (`BaseGrows`), and it changes nothing
(`AgainStale`, `RunStale`); the other rows get the same contents again. Both need that
no later job about the same row has been stored in between (`NoneAhead`). For the
orphans each live row is what the session ends with, or a chunk about it waits
(`LiveRowAtEnd`), and what the session ends with is in the tables, or its chunk waits
(`LiveEndAtRow`).

**Refinement.** `chosen` is the payload of the row; `version`, `accepts`,
`conflictLog` and `told` are the variables of the same name. Create is
`Register`, Commit is `Apply` (current reads from `LocksHeld` make the delayed
test an atomic one), GetStatus and the early return of Find are `Tell`
(`CompletedImpliesApplied` gives its guard), and every other step changes none
of the five.

**Paging.** `SkipInv == TypeOK /\ SeenUpToCursor` is inductive. For `Pull` the
argument is that a page is a prefix of the wanted rows in their order
(`PageIsPrefix`: a page takes every row before one that it takes) and that the
cursor, truncated to a millisecond, never passes the last row of the page
(`DateIsNotLater`). If a page is shorter than the limit, it is everything that
was wanted (`ShortPageIsAll`): the least wanted row left out would have fewer
than `Limit` wanted rows before it, and so would be on the page. `AbsentIsUnseen`
closes the case of rows that do not exist.

**State.** The row that `getSyncState` reports is the greatest in the order of the
pages. A row the client lacks, and that was not committed late, lies behind the
cursor (`PagingSkipsNothing`), so between the Date of the greatest timestamp and
that timestamp; two such timestamps make the same Date (`DateOfBetween`).

**Versions.** Versions that differ have a first place where they do
(`FirstDifference`, by well-foundedness of `<`), which the loop of `compareVersions`
finds; the order of numbers part by part is transitive (`AfterIsTransitive`) and
does not depend on how many missing parts are counted (`AfterAnywhere`), so the
comparison is consistent, ties included. `OfferInv` is inductive: what a client is
about to install is newer than what it has, because nothing but its own installation
changes its version between the two.

### Only model-checked

Liveness, as TLAPS proves none under fairness (`AcceptedIsDecided`,
`CarriedIsDecided`, `RequestsEnd`, `CatchesUp`, `InOrderIsStored`, `ProvisionEnds`,
`MaintenanceEnds`, `InstallsLatest`). Every other invariant and action property of a
passing run is a theorem.

## 6. Not modelled, and what comes next

* Observability, migrations and bootstrap: metrics, the history of the schema, and
  wiring. Tracing, status codes and guards of the HTTP layer, login and profile, and
  the statistics of the health endpoint change no state, and no property speaks of
  them.
* A chunk that holds one id twice (PostgreSQL rejects the upsert, at every attempt),
  a resolution of a table without versions, and two devices that insert the same new
  id with different contents.
* The connection pool: `markCompleted` takes a second connection while the
  transaction of a batch holds the first, so as many batches as the pool has
  connections wait for each other; the pool is configuration of `pg`.
* The backoff of BullMQ: a job that waits for its next attempt may be taken at any
  time, which covers every delay.

Further work: what is left of the liveness properties once fairness is set aside, as
step lemmas (a rejected job has attempts left or is dead, a client that waits has a
job that can be taken), and sessions of several clients in `EntityPush`.

## 7. Running it

    tlc -config SyncOutboxPush.cfg MCSyncOutbox.tla
    tlc -config PullCursorPages.cfg PullCursor.tla
    tlapm SyncOutboxProofs.tla

Each run of `PROJECT.json` names its module and configuration. The runs take between
a second and four minutes with two workers, the proofs about half an hour from
nothing, one module after the other.

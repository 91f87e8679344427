--------------------------- MODULE OptimisticSync ---------------------------
(***************************************************************************)
(* Versioned records, conflicts and their resolution.                       *)
(*                                                                          *)
(* A client edits the copy of some records it has pulled and pushes the     *)
(* edit; the transaction of the push (splitOptimisticConflicts and the      *)
(* upsert of the adapter) accepts what is based on the stored version and   *)
(* files a conflict for the rest.  An operator looks at an open conflict    *)
(* and resolves it (SyncConflictResolutionService.resolve).                 *)
(*                                                                          *)
(* How a push gets to its transaction is the subject of SyncOutbox; here a  *)
(* transaction is a process whose steps are its SQL statements, under READ  *)
(* COMMITTED: a statement sees what was committed before it and waits for   *)
(* the row locks of others; what a transaction writes is seen at its        *)
(* COMMIT, and locks are held until then.                                   *)
(***************************************************************************)
EXTENDS Naturals, Sequences, FiniteSets

CONSTANTS
    Record,       \* rows of the versioned tables
    Stored,       \* the records the server has at the beginning, at version 1
    Author,       \* Author[r]: the client that makes r, for the records that are not Stored
    Client,       \* devices, each pushing one chunk
    RecordsOf,    \* RecordsOf[c]: the records in the chunk of c
    Deletes,      \* the clients whose edit sets deletedAt
    Resolver,     \* requests POST /sync/conflicts/:conflictId/resolve
    Writes,       \* the resolvers with ACCEPT_LOCAL or MERGE, the others ACCEPT_REMOTE
    Expects,      \* the resolvers that always send expectedRecordVersion
    Seed,         \* content of the stored records at the beginning
    Nil,          \* no content, no conflict, no holder of a lock
    MaxAttempts   \* attempts of the job that runs the push (5 in the code)

ASSUME RecordAssumption   == Stored \subseteq Record
ASSUME ClientAssumption   == RecordsOf \in [Client -> SUBSET Record] /\ Deletes \subseteq Client
ASSUME AuthorAssumption   == Author \in [Record \ Stored -> Client]
ASSUME ResolverAssumption == Writes \subseteq Resolver /\ Expects \subseteq Writes
ASSUME DistinctAssumption ==
    /\ Client \cap Resolver = {}
    /\ Seed \notin Client \cup Resolver
    /\ Nil \notin Client \cup Resolver \cup {Seed} \cup (Client \X Record)
ASSUME AttemptsAssumption == MaxAttempts \in Nat \ {0}

VARIABLES
    rec,        \* the records: version, content (who wrote it last), deleted
    conf,       \* table sync_conflictos
    log,        \* log[r]: the sync_change_log of record r, in the order of commits
    recLock,    \* holder of the row lock of each record
    confLock,   \* the resolver that holds the row lock of each conflict
    cl,         \* local state of each client and of the transaction of its push
    rs,         \* local state of each operator and its resolve request
    copy        \* a client's pulled copy of a conflict, and what became of it

vars == <<rec, conf, log, recLock, confLock, cl, rs, copy>>

\* The id of a conflict is a random UUID: it belongs to the push that filed it.
ConflictId == Client \X Record
Content    == Client \cup Resolver \cup {Seed}

Absent     == [version |-> 0, content |-> Nil, deleted |-> FALSE]
NoConflict == [status |-> "none", local |-> Nil]

Init ==
    /\ rec = [r \in Record |-> IF r \in Stored
                               THEN [version |-> 1, content |-> Seed, deleted |-> FALSE]
                               ELSE Absent]
    /\ conf = [k \in ConflictId |-> NoConflict]
    /\ log = [r \in Record |-> <<>>]
    /\ recLock = [r \in Record |-> Nil]
    /\ confLock = [k \in ConflictId |-> Nil]
    /\ cl = [c \in Client |-> [pc |-> "pull", attempts |-> 0,
                               seen |-> [r \in Record |-> Absent],
                               existing |-> [r \in Record |-> Absent],
                               open |-> [r \in Record |-> Nil],
                               db |-> [r \in Record |-> "none"],
                               reply |-> [r \in Record |-> "none"]]]
    /\ rs = [q \in Resolver |-> [pc |-> "look", conflict |-> Nil, local |-> Nil,
                                 base |-> 0, reply |-> "none"]]
    /\ copy = [pc |-> "none", conflict |-> Nil, row |-> NoConflict]

Entry(op, before, after) == [op |-> op, before |-> before, after |-> after]

\* Mutant of Unlock: the lock of the conflict, on a connection of its own, is kept.
UnlockRecords(a) ==
    /\ recLock' = [r \in Record |-> IF recLock[r] = a THEN Nil ELSE recLock[r]]
    /\ UNCHANGED confLock

\* A COMMIT or ROLLBACK of a releases its locks.
Unlock(a) ==
    /\ recLock' = [r \in Record |-> IF recLock[r] = a THEN Nil ELSE recLock[r]]
    /\ confLock' = [k \in ConflictId |-> IF confLock[k] = a THEN Nil ELSE confLock[k]]

-----------------------------------------------------------------------------
(* The push: one client, one chunk *)

\* The client has pulled its records and edits the copy; the chunk is in the outbox.  A
\* record that the server does not have is one the client has made, under a UUID of its
\* own; others know of it when they have pulled it.
Pull(c) ==
    /\ cl[c].pc = "pull"
    /\ \A r \in RecordsOf[c] : rec[r].version = 0 => Author[r] = c
    /\ cl' = [cl EXCEPT ![c] = [@ EXCEPT !.pc = "lock",
                !.seen = [r \in Record |-> IF r \in RecordsOf[c] THEN rec[r] ELSE Absent]]]
    /\ UNCHANGED <<rec, conf, log, recLock, confLock, rs, copy>>

\* Mutant of Lock: a SELECT without FOR UPDATE.
LockNone(c) ==
    /\ cl[c].pc = "lock"
    /\ cl' = [cl EXCEPT ![c] = [@ EXCEPT !.pc = "open",
                !.existing = [r \in Record |-> IF r \in RecordsOf[c] THEN rec[r] ELSE Absent]]]
    /\ UNCHANGED <<rec, conf, log, recLock, confLock, rs, copy>>

\* SELECT ... FOR UPDATE of the rows of the chunk, deleted ones included; a row
\* that does not exist yet is not locked.
Lock(c) ==
    /\ cl[c].pc = "lock"
    /\ LET rows == {r \in RecordsOf[c] : rec[r].version > 0}
       IN  /\ \A r \in rows : recLock[r] = Nil
           /\ recLock' = [r \in Record |-> IF r \in rows THEN c ELSE recLock[r]]
           /\ cl' = [cl EXCEPT ![c] = [@ EXCEPT !.pc = "open",
                !.existing = [r \in Record |-> IF r \in rows THEN rec[r] ELSE Absent]]]
    /\ UNCHANGED <<rec, conf, log, confLock, rs, copy>>

OpenConflicts(r) == {k \in ConflictId : k[2] = r /\ conf[k].status = "open"}

\* Mutant of ReadOpen: open conflicts are not looked for.
ReadOpenNone(c) ==
    /\ cl[c].pc = "open"
    /\ cl' = [cl EXCEPT ![c] = [@ EXCEPT !.pc = "load", !.open = [r \in Record |-> Nil]]]
    /\ UNCHANGED <<rec, conf, log, recLock, confLock, rs, copy>>

\* The open conflicts of the chunk's records, read without a lock.
ReadOpen(c) ==
    /\ cl[c].pc = "open"
    /\ cl' = [cl EXCEPT ![c] = [@ EXCEPT !.pc = "load",
                !.open = [r \in Record |->
                    IF r \in RecordsOf[c] /\ OpenConflicts(r) # {}
                    THEN CHOOSE k \in OpenConflicts(r) : TRUE ELSE Nil]]]
    /\ UNCHANGED <<rec, conf, log, recLock, confLock, rs, copy>>

\* The records of the chunk that exist at another version than the client's base.
Conflicted(c) ==
    {r \in RecordsOf[c] : /\ cl[c].existing[r].version > 0
                          /\ cl[c].existing[r].version # cl[c].seen[r].version}

\* The conflict row a conflicting write of record r goes to.
Row(c, r) == IF cl[c].open[r] # Nil THEN cl[c].open[r] ELSE <<c, r>>

\* manager.save of the conflicts first selects the rows by id: it writes only the
\* columns that differ from what it finds here.
LoadConflicts(c) ==
    /\ cl[c].pc = "load"
    /\ cl' = [cl EXCEPT ![c] = [@ EXCEPT !.pc = "save",
                !.db = [r \in Record |-> IF r \in Conflicted(c) THEN conf[Row(c, r)].status
                                                                ELSE "none"]]]
    /\ UNCHANGED <<rec, conf, log, recLock, confLock, rs, copy>>

\* Mutant of Filed: the conflict takes the id of its record as its local data.
FiledRecord(c, r) == [status |-> "open", local |-> r]

\* The columns of the conflict row: resuelto is written when the row is new or was
\* found resolved, datosLocales always.
Filed(c, r) ==
    [status |-> IF cl[c].db[r] = "open" THEN conf[Row(c, r)].status ELSE "open",
     local |-> c]

\* sync_conflictos_open_unique_idx: one open conflict per record.
Clash(c) ==
    \E r \in Conflicted(c) :
        Filed(c, r).status = "open" /\ OpenConflicts(r) \ {Row(c, r)} # {}

\* The entry of the change log for record r: what the push found, and what it sends.
PushEntry(c, r) ==
    Entry(IF r \in Conflicted(c) THEN "CONFLICT"
          ELSE IF cl[c].existing[r].version > 0 THEN "UPDATE" ELSE "INSERT",
          cl[c].existing[r].content, c)

\* Saves the conflicts and the change log, upserts what was accepted, commits.
\* The upsert of a record that was missing overwrites one inserted meanwhile.
Commit(c) ==
    LET bad == Conflicted(c)
        good == RecordsOf[c] \ bad
        was(r) == cl[c].existing[r]
    IN  /\ cl[c].pc = "save"
        /\ ~Clash(c)
        /\ \A r \in bad : confLock[Row(c, r)] = Nil
        /\ \A r \in good : recLock[r] \in {Nil, c}
        /\ conf' = [k \in ConflictId |->
                IF k[2] \in bad /\ k = Row(c, k[2]) THEN Filed(c, k[2]) ELSE conf[k]]
        /\ log' = [r \in Record |->
                IF r \in RecordsOf[c] THEN Append(log[r], PushEntry(c, r)) ELSE log[r]]
        /\ rec' = [r \in Record |->
                IF r \in good THEN [version |-> was(r).version + 1, content |-> c,
                                    deleted |-> c \in Deletes]
                ELSE rec[r]]
        /\ cl' = [cl EXCEPT ![c] = [@ EXCEPT !.pc = "done",
                !.reply = [r \in Record |-> CASE r \in bad -> "conflict"
                                              [] r \in good -> "accepted"
                                              [] OTHER -> "none"]]]
        /\ Unlock(c)
        /\ UNCHANGED <<rs, copy>>

\* The transaction is rolled back: an error, a dead worker, or the victim of a
\* deadlock.  The queue runs the push again until its attempts are used up.
Rollback(c) ==
    /\ cl' = [cl EXCEPT ![c] = [@ EXCEPT !.attempts = cl[c].attempts + 1,
                !.pc = IF cl[c].attempts + 1 < MaxAttempts THEN "lock" ELSE "dead"]]
    /\ Unlock(c)
    /\ UNCHANGED <<rec, conf, log, rs, copy>>

\* The index rejects the conflicts of the push.
Rejected(c) ==
    /\ cl[c].pc = "save" /\ Clash(c)
    /\ Rollback(c)

PushFails(c) ==
    /\ cl[c].pc \in {"lock", "open", "load", "save"}
    /\ Rollback(c)

-----------------------------------------------------------------------------
(* The push of a sync_conflicto: a client sends back a row it has pulled *)

CopyConflict ==
    /\ copy.pc = "none"
    /\ \E k \in ConflictId :
        /\ conf[k].status # "none"
        /\ copy' = [pc |-> "held", conflict |-> k, row |-> conf[k]]
    /\ UNCHANGED <<rec, conf, log, recLock, confLock, cl, rs>>

\* manager.save writes the columns in which the copy differs from the row, whatever has
\* become of the row; the unique index on open conflicts may reject it.
PushConflict ==
    LET k == copy.conflict
        rejected == copy.row.status = "open" /\ OpenConflicts(k[2]) \ {k} # {}
    IN  /\ copy.pc = "held"
        /\ confLock[k] = Nil \/ conf[k] = copy.row
        /\ copy' = [copy EXCEPT !.pc = IF rejected THEN "rejected" ELSE "saved"]
        /\ conf' = IF rejected THEN conf ELSE [conf EXCEPT ![k] = copy.row]
        /\ UNCHANGED <<rec, log, recLock, confLock, cl, rs>>

-----------------------------------------------------------------------------
(* The resolution of a conflict *)

\* The operator looks at an open conflict and at its record, and decides.
Look(q) ==
    /\ rs[q].pc = "look"
    /\ \E k \in ConflictId :
        /\ conf[k].status = "open"
        /\ rs' = [rs EXCEPT ![q] = [@ EXCEPT !.pc = "lock", !.conflict = k,
                                             !.local = conf[k].local, !.base = rec[k[2]].version]]
    /\ UNCHANGED <<rec, conf, log, recLock, confLock, cl, copy>>

Answer(q, reply) == rs' = [rs EXCEPT ![q] = [@ EXCEPT !.pc = "done", !.reply = reply]]
RGoto(q, label)  == rs' = [rs EXCEPT ![q].pc = label]

\* The statements that may come next; expectedRecordVersion is optional in the request.
AfterLock(q) ==
    IF q \notin Writes THEN {"save"} ELSE IF q \in Expects THEN {"update"} ELSE {"update", "read"}

\* Mutant of RLock: the conflict is read without FOR UPDATE.
RLockNone(q) ==
    /\ rs[q].pc = "lock"
    /\ IF conf[rs[q].conflict].status = "resolved"
       THEN Answer(q, "already") ELSE \E label \in AfterLock(q) : RGoto(q, label)
    /\ UNCHANGED <<rec, conf, log, recLock, confLock, cl, copy>>

\* SELECT ... FOR UPDATE of the conflict; a resolved one is answered at once.
RLock(q) ==
    /\ rs[q].pc = "lock"
    /\ LET k == rs[q].conflict
       IN  /\ confLock[k] = Nil
           /\ IF conf[k].status = "resolved"
              THEN Answer(q, "already") /\ UNCHANGED confLock
              ELSE /\ \E label \in AfterLock(q) : RGoto(q, label)
                   /\ confLock' = [confLock EXCEPT ![k] = q]
    /\ UNCHANGED <<rec, conf, log, recLock, cl, copy>>

RRollback(q) ==
    /\ Answer(q, "error")
    /\ Unlock(q)
    /\ UNCHANGED <<rec, conf, log, cl, copy>>

\* Without expectedRecordVersion the stored version is to be read, but select() takes the
\* entity class for a function that builds a subquery and calls it: a TypeError, after
\* which the transaction is rolled back.
RRead(q) == rs[q].pc = "read" /\ RRollback(q)

\* UPDATE of the record by id; the version it stores is the base plus one.
RUpdate(q) ==
    /\ rs[q].pc = "update"
    /\ recLock[rs[q].conflict[2]] = Nil
    /\ recLock' = [recLock EXCEPT ![rs[q].conflict[2]] = q]
    /\ RGoto(q, "save")
    /\ UNCHANGED <<rec, conf, log, confLock, cl, copy>>

\* The conflict is marked resolved, and the transaction commits.
RCommit(q) ==
    LET k == rs[q].conflict
        r == k[2]
    IN  /\ rs[q].pc = "save"
        /\ conf' = [conf EXCEPT ![k].status = "resolved"]
        /\ IF q \in Writes
           THEN /\ rec' = [rec EXCEPT ![r] = [@ EXCEPT !.version = rs[q].base + 1, !.content = q]]
                /\ log' = [log EXCEPT ![r] = Append(@, Entry("UPDATE", Nil, q))]
           ELSE UNCHANGED <<rec, log>>
        /\ Answer(q, "resolved")
        /\ Unlock(q)
        /\ UNCHANGED <<cl, copy>>

ResolveFails(q) ==
    /\ rs[q].pc \in {"lock", "update", "save"}
    /\ RRollback(q)

-----------------------------------------------------------------------------

\* The push locks the record and then the conflict, the resolution the conflict
\* and then the record: PostgreSQL aborts one of the two.
Deadlocked(c, q) ==
    /\ cl[c].pc = "save"
    /\ \E r \in Conflicted(c) : confLock[Row(c, r)] = q
    /\ rs[q].pc = "update"
    /\ recLock[rs[q].conflict[2]] = c

Abort(c, q) == Deadlocked(c, q) /\ (Rollback(c) \/ RRollback(q))

PushNext(c)    == Lock(c) \/ ReadOpen(c) \/ LoadConflicts(c) \/ Commit(c) \/ Rejected(c)
ResolveNext(q) == RLock(q) \/ RRead(q) \/ RUpdate(q) \/ RCommit(q)

Next ==
    \/ \E c \in Client : Pull(c) \/ PushNext(c) \/ PushFails(c)
    \/ \E q \in Resolver : Look(q) \/ ResolveNext(q) \/ ResolveFails(q)
    \/ \E c \in Client, q \in Resolver : Abort(c, q)
    \/ CopyConflict
    \/ PushConflict

Spec == Init /\ [][Next]_vars

\* A statement is executed, a waiting one once its lock is free, and PostgreSQL
\* breaks a deadlock.
Fairness ==
    /\ \A c \in Client : WF_vars(PushNext(c))
    /\ \A q \in Resolver : WF_vars(ResolveNext(q))
    /\ \A c \in Client, q \in Resolver : WF_vars(Abort(c, q))

FairSpec == Spec /\ Fairness

-----------------------------------------------------------------------------
(* Properties *)

RowType   == [version : Nat, content : Content \cup {Nil}, deleted : BOOLEAN]
EntryType == [op : {"INSERT", "UPDATE", "CONFLICT"}, before : Content \cup {Nil}, after : Content]
Status    == {"none", "open", "resolved"}
ConflictType  == [status : Status, local : Client \cup {Nil}]

\* What a push keeps of each record.
Rows      == [Record -> RowType]
Conflicts == [Record -> ConflictId \cup {Nil}]
Statuses  == [Record -> Status]
Replies   == [Record -> {"none", "accepted", "conflict"}]

ClientType ==
    [pc : {"pull", "lock", "open", "load", "save", "done", "dead"}, attempts : 0 .. MaxAttempts,
     seen : Rows, existing : Rows, open : Conflicts, db : Statuses, reply : Replies]

ResolverType ==
    [pc : {"look", "lock", "read", "update", "save", "done"}, conflict : ConflictId \cup {Nil},
     local : Client \cup {Nil}, base : Nat, reply : {"none", "resolved", "already", "error"}]

TypeOK ==
    /\ rec \in Rows
    /\ conf \in [ConflictId -> ConflictType]
    /\ log \in [Record -> Seq(EntryType)]
    /\ recLock \in [Record -> Client \cup Resolver \cup {Nil}]
    /\ confLock \in [ConflictId -> Resolver \cup {Nil}]
    /\ cl \in [Client -> ClientType]
    /\ rs \in [Resolver -> ResolverType]
    /\ copy \in [pc : {"none", "held", "saved", "rejected"}, conflict : ConflictId \cup {Nil},
                 row : ConflictType]

\* A resolution has stored its data in record r: the version of its row is then
\* one that the operator's request may have named.
Rewritten(r) == \E q \in Writes : rs[q].reply = "resolved" /\ rs[q].conflict[2] = r

\* No lost update: what a push replaces is what its author had pulled.  Equal
\* versions are not enough for that, they must also name the same content, which
\* they do until a resolution stores data (ResolveIncrements).
AcceptedSawCurrent ==
    [][\A c \in Client : \A r \in RecordsOf[c] :
        (cl[c].reply[r] # "accepted" /\ cl'[c].reply[r] = "accepted"
            /\ rec[r].version > 0 /\ ~Rewritten(r))
            => rec[r].content = cl[c].seen[r].content]_vars

\* The unique index on open conflicts never rejects a push: looking for an open
\* conflict under the lock of the record is enough to find the one there is, unless
\* the push of a conflict, which takes no such lock, has opened one.
IndexNeverFires == \A c \in Client : cl[c].pc = "save" /\ copy.pc # "saved" => ~Clash(c)

\* Two requests for one conflict never both resolve it: a resolution is applied
\* to a conflict that is open when it commits.
ResolvesWhatIsOpen ==
    [][\A q \in Resolver :
        (rs[q].reply # "resolved" /\ rs'[q].reply = "resolved")
            => conf[rs[q].conflict].status = "open"]_vars

\* Entry i of the log of r is the last one before entry j that wrote the record.
Wrote(r, i) == log[r][i].op # "CONFLICT"
LastWrite(r, i, j) == Wrote(r, i) /\ \A k \in i + 1 .. j - 1 : ~Wrote(r, k)

\* The change log is a chain: what a push replaced, or met as a conflict, is what the
\* last write before it stored, and the last write is what the record holds.
LogIsChain ==
    \A r \in Record : \A i \in DOMAIN log[r] :
        /\ \A j \in i + 1 .. Len(log[r]) :
              LastWrite(r, i, j) /\ log[r][j].after \in Client
                  => log[r][j].before = log[r][i].after
        /\ LastWrite(r, i, Len(log[r]) + 1) => rec[r].content = log[r][i].after

\* A push is decided, or has used up its attempts, and a request is answered, also
\* when the two lock the record and the conflict in opposite orders, or when a stale
\* copy of a conflict makes the index reject the push.
RequestsEnd ==
    /\ \A c \in Client : cl[c].pc = "lock" ~> cl[c].pc \in {"done", "dead"}
    /\ \A q \in Resolver : rs[q].pc = "lock" ~> rs[q].pc = "done"

(* What the documentation says and the code does not do *)

\* A resolution increments the version of the record.
ResolveIncrements ==
    [][\A q \in Writes :
        (rs[q].reply # "resolved" /\ rs'[q].reply = "resolved")
            => LET r == rs[q].conflict[2] IN rec'[r].version = rec[r].version + 1]_vars

\* A conflict that a push reports is open for an operator to resolve.
ReportedIsOpen ==
    [][\A c \in Client : \A r \in RecordsOf[c] :
        (cl[c].reply[r] # "conflict" /\ cl'[c].reply[r] = "conflict")
            => \E k \in ConflictId : k[2] = r /\ conf'[k] = [status |-> "open", local |-> c]]_vars

\* A resolved conflict is opened again only by a push that conflicts with its record.
ResolvedStays ==
    [][\A k \in ConflictId : conf[k].status = "resolved" /\ conf'[k].status = "open"
        => \E c \in Client : cl[c].pc = "save" /\ cl'[c].pc = "done" /\ Row(c, k[2]) = k]_vars

\* An operator resolves the conflict it has looked at.
ResolvesWhatWasSeen ==
    [][\A q \in Resolver :
        (rs[q].reply # "resolved" /\ rs'[q].reply = "resolved")
            => conf[rs[q].conflict].local = rs[q].local]_vars
=============================================================================

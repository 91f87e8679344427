----------------------------- MODULE EntityPush -----------------------------
(***************************************************************************)
(* What the push of a session makes of the tables: its jobs, each a chunk or   *)
(* the chunks of a batch, run in whatever order the workers take them, and a   *)
(* record that the database rejects fails its job, which is retried until its  *)
(* attempts are used up.  How a job gets to a worker is the subject of         *)
(* SyncOutbox; here a chunk has one record, and a delivery is one step.        *)
(***************************************************************************)
EXTENDS EntityRows, Sequences

CONSTANTS
    Sessions,       \* what clients push: sequences of jobs, and the rows there are
    MaxAttempts,    \* "attempts" of a job (5 in the code)
    MaxRedelivered  \* bound on deliveries of a job whose worker died after the COMMIT

ASSUME AttemptsAssumption == MaxAttempts \in Nat \ {0} /\ MaxRedelivered \in Nat

\* A session starts from rows that the schema admits, and its chunks name entities.
ASSUME SessionsAssumption ==
    \A s \in Sessions :
        /\ WellFormed(s.rows)
        /\ Len(s.jobs) \in Nat /\ DOMAIN s.jobs = 1 .. Len(s.jobs)
        /\ \A j \in DOMAIN s.jobs :
            /\ Len(s.jobs[j]) \in Nat /\ DOMAIN s.jobs[j] = 1 .. Len(s.jobs[j])
            /\ \A n \in DOMAIN s.jobs[j] : s.jobs[j][n].entity \in Entity

VARIABLES
    session,    \* the session that is pushed
    db,         \* committed rows
    job         \* what the outbox says of each job, with the reason of its last error

vars == <<session, db, job>>

Job == DOMAIN session.jobs

Init ==
    /\ session \in Sessions
    /\ db = session.rows
    /\ job = [j \in Job |-> [status |-> "QUEUED", attempts |-> 0, redelivered |-> 0,
                             error |-> "none"]]

\* A client that waits pushes a chunk when the one before it is completed.
Begins(j) == session.waits => \A i \in Job : i < j => job[i].status = "COMPLETED"

\* One chunk in the transaction of its job.
Step(result, chunk) ==
    LET why == Rejection(result.db, chunk.entity, chunk.id, chunk.record)
    IN  IF result.error # "none" \/ Conflicts(result.db, chunk.entity, chunk.id, chunk.base)
        THEN result
        ELSE IF why # "none" THEN [result EXCEPT !.error = why]
        ELSE [result EXCEPT !.db = Upsert(@, chunk.entity, chunk.id, chunk.record)]

\* Mutant of Outcome: the chunks are stored last one first.
OutcomeBackwards(j) ==
    LET run[n \in 0 .. Len(session.jobs[j])] ==
            IF n = 0 THEN [db |-> db, error |-> "none"]
            ELSE Step(run[n - 1], session.jobs[j][Len(session.jobs[j]) + 1 - n])
    IN  run[Len(session.jobs[j])]

\* The transaction of job j after its chunks: run[n] after the first n.
Outcome(j) ==
    LET run[n \in 0 .. Len(session.jobs[j])] ==
            IF n = 0 THEN [db |-> db, error |-> "none"]
            ELSE Step(run[n - 1], session.jobs[j][n])
    IN  run[Len(session.jobs[j])]

\* A delivery whose transaction commits.
Store(j) ==
    /\ job[j].status \in {"QUEUED", "FAILED"} /\ Begins(j)
    /\ Outcome(j).error = "none"
    /\ db' = Outcome(j).db
    /\ job' = [job EXCEPT ![j].status = "STORED"]
    /\ UNCHANGED session

\* A delivery whose transaction is rolled back.
Reject(j) ==
    /\ job[j].status \in {"QUEUED", "FAILED"} /\ Begins(j)
    /\ Outcome(j).error # "none"
    /\ job' = [job EXCEPT
            ![j].attempts = @ + 1,
            ![j].status = IF job[j].attempts + 1 >= MaxAttempts THEN "DEAD_LETTER" ELSE "FAILED",
            ![j].error = Outcome(j).error]
    /\ UNCHANGED <<session, db>>

MarkCompleted(j) ==
    /\ job[j].status = "STORED"
    /\ job' = [job EXCEPT ![j].status = "COMPLETED"]
    /\ UNCHANGED <<session, db>>

\* The worker dies between COMMIT and markCompleted, the job is delivered again.
Redeliver(j) ==
    /\ job[j].status = "STORED"
    /\ job[j].redelivered < MaxRedelivered
    /\ job' = [job EXCEPT ![j].status = "QUEUED", ![j].redelivered = @ + 1]
    /\ UNCHANGED <<session, db>>

Next == \E j \in Job : Store(j) \/ Reject(j) \/ MarkCompleted(j) \/ Redeliver(j)

\* Workers go on taking jobs and finish what they have begun.
Spec == Init /\ [][Next]_vars /\ WF_vars(Next)

-----------------------------------------------------------------------------
(* GET /sync/health: the orphans among the rows that are not deleted *)

Live(e) == {s \in db : s.entity = e /\ s.row.deletedAt \in {Null, Default}}

TramitesSinDetalle ==
    {t \in Live("tramite") : ~ \E d \in Live("tramite_detalle") : d.row.tramiteId = t.id}

TramitesSinCliente ==
    {t \in Live("tramite") : ~ \E c \in Live("cliente") : c.id = t.row.clienteId}

TramitesSinVehiculo ==
    {t \in Live("tramite") : ~ \E v \in Live("vehiculo") : v.id = t.row.vehiculoId}

DetallesSinTramite ==
    {d \in Live("tramite_detalle") : ~ \E t \in Live("tramite") : t.id = d.row.tramiteId}

-----------------------------------------------------------------------------
(* Properties *)

Done(j) == job[j].status \in {"STORED", "COMPLETED"}

\* The chunks of job j, and whether a chunk is about the row of another.
Chunks(j) == {session.jobs[j][n] : n \in DOMAIN session.jobs[j]}
SameRow(c, d) == c.entity = d.entity /\ c.id = d.id

\* The rows that chunk c refers to.
Targets(c) ==
    {<<ref[2], c.record[ref[1]]>> : ref \in {r \in TableOf[c.entity].refs :
        r[1] \in DOMAIN c.record /\ c.record[r[1]] # Null}}

PushTypeOK ==
    /\ session \in Sessions
    /\ WellFormed(db)
    /\ DOMAIN job = Job
    /\ \A j \in Job :
        /\ job[j].status \in {"QUEUED", "FAILED", "DEAD_LETTER", "STORED", "COMPLETED"}
        /\ job[j].attempts \in 0 .. MaxAttempts
        /\ job[j].redelivered \in 0 .. MaxRedelivered
        /\ job[j].error \in {"none", "null", "unique", "reference"}

\* What a client does not change once a row exists.
Frozen(e) ==
    {"createdAt"} \cup (IF e = "tramite" THEN {"usuarioCreadorId", "sucursalId"} ELSE {})
        \cup (IF e = "sucursal" THEN {"esCentral"} ELSE {})

\* Pulls serve what was pushed last: a completed chunk that no later one of the
\* same row follows is in the table, column by column, however often its job was
\* delivered.  The deliveries of a job end before a waiting client sends the next.
ServedAsPushed ==
    \A j \in Job : job[j].status = "COMPLETED" => \A n \in DOMAIN session.jobs[j] :
        LET c == session.jobs[j][n]
            later(i, m) == (i = j /\ m > n) \/ (i > j /\ (Done(i) \/ job[i].redelivered > 0))
        IN  \/ \E i \in Job : \E m \in DOMAIN session.jobs[i] :
                    later(i, m) /\ SameRow(c, session.jobs[i][m])
            \/ \E s \in db : SameRow(s, c)
                    /\ \A col \in DOMAIN c.record \ Frozen(c.entity) : s.row[col] = c.record[col]

\* A job whose references are stored, or stored by its own earlier chunks, is
\* accepted, whatever the other workers commit: order within a batch suffices.
OrderedJobIsAccepted ==
    \A j \in Job :
        (\A n \in DOMAIN session.jobs[j] : \A target \in Targets(session.jobs[j][n]) :
            \/ \E s \in db : target = <<s.entity, s.id>>
            \/ \E m \in 1 .. n - 1 :
                    target = <<session.jobs[j][m].entity, session.jobs[j][m].id>>)
        => Outcome(j).error = "none"

\* What the health endpoint counts as orphans is explained by a job of the session
\* that has not been stored: after a session that is complete in itself all four
\* counts are 0 again, and before that no orphan is left for another reason.
OrphansArePending ==
    LET pending(e, P(_)) == \E j \in Job : ~Done(j) /\ \E c \in Chunks(j) : c.entity = e /\ P(c)
        ofTramite(t) == pending("tramite", LAMBDA c : c.id = t.id)
    IN  /\ \A t \in TramitesSinDetalle :
            ofTramite(t) \/ pending("tramite_detalle", LAMBDA c : c.record.tramiteId = t.id)
        /\ \A t \in TramitesSinCliente :
            ofTramite(t) \/ pending("cliente", LAMBDA c : c.id = t.row.clienteId)
        /\ \A t \in TramitesSinVehiculo :
            ofTramite(t) \/ pending("vehiculo", LAMBDA c : c.id = t.row.vehiculoId)
        /\ \A d \in DetallesSinTramite :
            \/ pending("tramite", LAMBDA c : c.id = d.row.tramiteId)
            \/ pending("tramite_detalle", LAMBDA c : c.id = d.id)

\* A client that pushes chunk by chunk, referenced rows first, and waits for each,
\* gets its session stored.
InOrderIsStored ==
    session.waits ~> \A j \in Job : job[j].status = "COMPLETED"

\* Not an invariant: a chunk that is sent together with the one it refers to may
\* use up its attempts before the other is stored.
NothingIsDeadLettered == \A j \in Job : job[j].status # "DEAD_LETTER"

\* Not an invariant: an older chunk of a table without versions, or its second delivery,
\* may be stored after a newer one of the same row.
NewestIsServed ==
    (\A j \in Job : job[j].status = "COMPLETED") =>
        \A j \in Job : \A n \in DOMAIN session.jobs[j] :
            LET c == session.jobs[j][n]
                later(i, m) == i > j \/ (i = j /\ m > n)
            IN  \/ \E i \in Job : \E m \in DOMAIN session.jobs[i] :
                        later(i, m) /\ SameRow(c, session.jobs[i][m])
                \/ \E s \in db : SameRow(s, c)
                        /\ \A col \in DOMAIN c.record \ Frozen(c.entity) : s.row[col] = c.record[col]

\* Not an invariant: the columns that a record leaves out are reset.
OmittedIsKept ==
    [][\A s \in db : \A t \in db' : SameRow(s, t) =>
        \A c \in Columns(s.entity) :
            t.row[c] # s.row[c] => \E j \in Job : \E d \in Chunks(j) :
                SameRow(d, s) /\ c \in DOMAIN d.record /\ d.record[c] = t.row[c]]_vars

-----------------------------------------------------------------------------
(* What clients send: the hypotheses of the theorems *)

\* A record has columns of its table only.
TableColumns ==
    \A s \in Sessions : \A j \in DOMAIN s.jobs : \A n \in DOMAIN s.jobs[j] :
        DOMAIN s.jobs[j][n].record \subseteq Columns(s.jobs[j][n].entity)

\* What a session has of each row: the rows it starts from, and what its chunks insert.
Contents(s) ==
    {[entity |-> r.entity, id |-> r.id, row |-> r.row] : r \in s.rows} \cup
        UNION {{[entity |-> s.jobs[j][n].entity, id |-> s.jobs[j][n].id,
                 row |-> Inserted(s.jobs[j][n].entity, s.jobs[j][n].record)] :
                    n \in DOMAIN s.jobs[j]} : j \in DOMAIN s.jobs}

\* Clients send what is NOT NULL, and do not give two rows of a table the same
\* value of a unique column.
WholeRecords ==
    \A s \in Sessions : \A j \in DOMAIN s.jobs : \A n \in DOMAIN s.jobs[j] :
        LET c == s.jobs[j][n]
        IN  \A col \in NotNull(c.entity) : Inserted(c.entity, c.record)[col] # Null

UniqueValues ==
    \A s \in Sessions : \A a, b \in Contents(s) :
        a.entity = b.entity => \A col \in TableOf[a.entity].unique :
            a.row[col] = b.row[col] => a.id = b.id

Before(i, m, j, n) == i < j \/ (i = j /\ m < n)

\* Of a client that does not wait no two jobs are about the same row.
RowsApart ==
    \A s \in Sessions : ~s.waits => \A i, j \in DOMAIN s.jobs : i # j =>
        \A m \in DOMAIN s.jobs[i] : \A n \in DOMAIN s.jobs[j] :
            ~SameRow(s.jobs[i][m], s.jobs[j][n])

\* Chunk c is based on the version that its row has, on 0 if it has none.
Fits(d, c) ==
    \/ \E s \in d : SameRow(s, c) /\ s.version = c.base
    \/ (\A s \in d : ~SameRow(s, c)) /\ c.base = 0

\* A client bases a record on what the server had, or on what it pushed before.
BasedOnLast ==
    \A s \in Sessions : \A j \in DOMAIN s.jobs : \A n \in DOMAIN s.jobs[j] :
        LET c == s.jobs[j][n]
            earlier(i, m) == Before(i, m, j, n) /\ SameRow(s.jobs[i][m], c)
        IN  c.entity \in Versioned =>
            /\ c.base \in Nat
            /\ \/ /\ \A i \in DOMAIN s.jobs : \A m \in DOMAIN s.jobs[i] : ~earlier(i, m)
                  /\ Fits(s.rows, c)
               \/ \E i \in DOMAIN s.jobs : \E m \in DOMAIN s.jobs[i] :
                    /\ earlier(i, m) /\ c.base = s.jobs[i][m].base + 1
                    /\ \A k \in DOMAIN s.jobs : \A l \in DOMAIN s.jobs[k] :
                            earlier(k, l) => s.jobs[k][l].base <= s.jobs[i][m].base

\* What is left in the tables when all jobs of a session are stored: the rows that no
\* chunk is about, and what the last chunks of the others insert (the columns that a
\* client does not change aside).
FinalRows(s) ==
    {[entity |-> r.entity, id |-> r.id, row |-> r.row] : r \in {r \in s.rows :
        \A j \in DOMAIN s.jobs : \A n \in DOMAIN s.jobs[j] : ~SameRow(r, s.jobs[j][n])}}
    \cup UNION {{[entity |-> s.jobs[j][n].entity, id |-> s.jobs[j][n].id,
                  row |-> Inserted(s.jobs[j][n].entity, s.jobs[j][n].record)] :
        n \in {n \in DOMAIN s.jobs[j] :
                \A i \in DOMAIN s.jobs : \A m \in DOMAIN s.jobs[i] :
                    Before(j, n, i, m) => ~SameRow(s.jobs[i][m], s.jobs[j][n])}} :
            j \in DOMAIN s.jobs}

LiveAtEnd(s, e) == {a \in FinalRows(s) : a.entity = e /\ a.row.deletedAt \in {Null, Default}}

\* A session is complete in itself: it ends without an orphan.
EndsWhole ==
    \A s \in Sessions :
        /\ \A t \in LiveAtEnd(s, "tramite") :
            /\ \E d \in LiveAtEnd(s, "tramite_detalle") : d.row.tramiteId = t.id
            /\ \E c \in LiveAtEnd(s, "cliente") : c.id = t.row.clienteId
            /\ \E v \in LiveAtEnd(s, "vehiculo") : v.id = t.row.vehiculoId
        /\ \A d \in LiveAtEnd(s, "tramite_detalle") :
            \E t \in LiveAtEnd(s, "tramite") : t.id = d.row.tramiteId

=============================================================================

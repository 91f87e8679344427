---------------------------- MODULE ImportExcel ----------------------------
(***************************************************************************)
(* The import of a spreadsheet of tramites and the maintenance mode that it   *)
(* puts its process in: while it runs, the process refuses push, state and    *)
(* pull.  The flag is a field of the service of one process; the workers of   *)
(* the push queue do not look at it.  The rows are written in one transaction, *)
(* each with the time at which its turn came, and are seen when it commits.     *)
(***************************************************************************)
EXTENDS Naturals, Sequences, FiniteSets

CONSTANTS
    Process,    \* the instances of the API
    Home,       \* the one that serves the client that pulls
    Import,     \* uploads
    Files,      \* what may be uploaded
    Catalogs,   \* whether the catalogues have entries: a set of booleans
    MaxCommits, \* bound on the transactions of push jobs
    MaxFaults,  \* bound on restarts of a process and failing COMMITs
    Nil

ASSUME HomeAssumption == Home \in Process
ASSUME FilesAssumption == \A f \in Files : f.rows \in Seq({f.rows[i] : i \in DOMAIN f.rows})
ASSUME CatalogsAssumption == Catalogs \subseteq BOOLEAN
\* The ids of pushed rows are UUIDs, as are those of imported ones.
ASSUME ImportAssumption == "push" \notin Import

VARIABLES
    importing,  \* isImporting, of each process
    job,        \* the state of each upload
    db,         \* the committed rows of each table
    catalogs,   \* whether there are tipos and situaciones
    clock,      \* the time, one tick per row that is stamped
    pulling,    \* its pull has passed the check and has not queried yet
    cursor,     \* the greatest updatedAt it has received
    pulled,     \* the tramites it has received
    commits, faults

vars == <<importing, job, db, catalogs, clock, pulling, cursor, pulled, commits, faults>>

\* The clientes and vehiculos of a row are written together: "partes".
Tables == {"partes", "tramites", "empresas", "presentantes", "detalles"}

NoRows == [t \in Tables |-> {}]

Idle == [pc |-> "idle", at |-> Nil, rows |-> << >>, i |-> 1, now |-> 0, empresa |-> Nil,
         presentante |-> Nil, aborted |-> FALSE, tx |-> NoRows, imported |-> 0, errors |-> 0,
         clean |-> FALSE]

Init ==
    /\ importing = [p \in Process |-> FALSE]
    /\ job = [m \in Import |-> Idle]
    /\ db = NoRows
    /\ catalogs \in Catalogs
    /\ clock = 0
    /\ pulling = FALSE
    /\ cursor = 0
    /\ pulled = {}
    /\ commits = 0
    /\ faults = 0

-----------------------------------------------------------------------------
(* POST /tramites/import-excel *)

\* Mutant of Admits: an import is begun while another runs.
AdmitsAlways(p) == TRUE

\* Another import is refused while one runs in the process.
Admits(p) == ~importing[p]

\* The upload is read, and its headers compared, before anything else runs: a file
\* that is empty or has other headers is answered at once, with the flag cleared again.
Upload(m, p, file) ==
    /\ job[m].pc = "idle"
    /\ \/ /\ Admits(p) /\ file.valid
          /\ importing' = [importing EXCEPT ![p] = TRUE]
          /\ job' = [job EXCEPT ![m] = [Idle EXCEPT !.pc = "row", !.at = p, !.rows = file.rows,
                                                    !.clean = p = Home /\ ~pulling]]
       \/ /\ ~ (Admits(p) /\ file.valid)
          /\ job' = [job EXCEPT ![m].pc = "refused"]
          /\ UNCHANGED importing
    /\ UNCHANGED <<db, catalogs, clock, pulling, cursor, pulled, commits, faults>>

Goto(m, pc, local) == job' = [job EXCEPT ![m] = [local EXCEPT !.pc = pc]]

ImportFrame == UNCHANGED <<importing, db, catalogs, pulling, cursor, pulled, commits, faults>>

Row(m) == job[m].rows[job[m].i]
Id(m) == <<m, job[m].i>>
At(m, pc) == job[m].pc = pc

\* What the transaction of upload m sees in a table.
Sees(m, table) == db[table] \cup job[m].tx[table]

Write(local, table, row) == [local EXCEPT !.tx[table] = @ \cup {row}]

\* Mutant of Failed: the statements after a failed one are accepted.
FailedAlone(local) == [local EXCEPT !.errors = @ + 1, !.i = @ + 1]

\* The row's statement fails, and the catch block counts it and goes on; there is no
\* savepoint, so the database refuses every statement of the transaction after it.
Failed(local) == [local EXCEPT !.errors = @ + 1, !.i = @ + 1, !.aborted = TRUE]

\* The next row that is not blank takes the time; after the last one comes the COMMIT.
BeginRow(m) ==
    /\ At(m, "row")
    /\ LET left == {i \in DOMAIN job[m].rows : i >= job[m].i /\ job[m].rows[i] # Nil}
       IN  \/ left = {} /\ Goto(m, "commit", job[m]) /\ UNCHANGED clock
           \/ \E i \in left :
                /\ \A j \in left : i <= j
                /\ clock' = clock + 1
                /\ Goto(m, "tramite", [job[m] EXCEPT !.i = i, !.now = clock', !.empresa = Nil,
                                                     !.presentante = Nil])
    /\ ImportFrame

\* The cliente, the vehiculo and the tramite are always new.  Without catalogues the row
\* ends after the first two, with an error that is not the database's, before the tramite
\* could be refused.
SaveTramite(m) ==
    /\ At(m, "tramite")
    /\ LET row == [id |-> Id(m), stamp |-> job[m].now, clean |-> job[m].clean]
           partes == Write(job[m], "partes", Id(m))
       IN  IF job[m].aborted \/ Row(m).bad = "partes" THEN Goto(m, "row", Failed(job[m]))
           ELSE IF ~catalogs THEN Goto(m, "row", [partes EXCEPT !.errors = @ + 1, !.i = @ + 1])
           ELSE IF Row(m).bad = "tramites" THEN Goto(m, "row", Failed(partes))
           ELSE Goto(m, "empresa", Write(partes, "tramites", row))
    /\ UNCHANGED clock /\ ImportFrame

\* The entry of a table with this name, or a new one with the row's id, becomes the
\* row's empresa or presentante.
FindOrSave(m, table, name, field, pc) ==
    \/ \E e \in Sees(m, table) :
        ~job[m].aborted /\ e.name = name /\ Goto(m, pc, [job[m] EXCEPT ![field] = e.id])
    \/ /\ job[m].aborted \/ \A e \in Sees(m, table) : e.name # name
       /\ LET new == [id |-> Id(m), name |-> name, at |-> job[m].at]
          IN  IF job[m].aborted \/ Row(m).bad = table THEN Goto(m, "row", Failed(job[m]))
              ELSE Goto(m, pc, [Write(job[m], table, new) EXCEPT ![field] = Id(m)])

FindOrSaveEmpresa(m) ==
    /\ At(m, "empresa")
    /\ IF Row(m).empresa = Nil THEN Goto(m, "presentante", job[m])
       ELSE FindOrSave(m, "empresas", Row(m).empresa, "empresa", "presentante")
    /\ UNCHANGED clock /\ ImportFrame

\* parsePresentanteName: the words that are not S/N; the last two are the surnames,
\* and what is missing is S/N.
ParsePresentanteName(words) ==
    LET clean == SelectSeq(words, LAMBDA w : w # "S/N")
        n == Len(clean)
    IN  IF n = 0 THEN <<"S/N", "S/N", "S/N">>
        ELSE IF n = 1 THEN <<clean, "S/N", "S/N">>
        ELSE IF n = 2 THEN <<SubSeq(clean, 1, 1), clean[2], "S/N">>
        ELSE <<SubSeq(clean, 1, n - 2), clean[n - 1], clean[n]>>

FindOrSavePresentante(m) ==
    /\ At(m, "presentante")
    /\ LET name == ParsePresentanteName(Row(m).presentante)
       IN  IF name = <<"S/N", "S/N", "S/N">> THEN Goto(m, "detalle", job[m])
           ELSE FindOrSave(m, "presentantes", name, "presentante", "detalle")
    /\ UNCHANGED clock /\ ImportFrame

\* The last statement; the row is counted when all of them were accepted.
SaveDetalle(m) ==
    /\ At(m, "detalle")
    /\ LET row == [tramite |-> Id(m), empresa |-> job[m].empresa,
                   presentante |-> job[m].presentante]
       IN  IF job[m].aborted \/ Row(m).bad = "detalles"
           THEN Goto(m, "row", Failed(job[m]))
           ELSE Goto(m, "row", [Write(job[m], "detalles", row) EXCEPT !.imported = @ + 1,
                                                                      !.i = @ + 1])
    /\ UNCHANGED clock /\ ImportFrame

\* Mutant of Release: the flag is not cleared when the transaction throws.
ReleaseAnswered(m, reply) ==
    importing' = [importing EXCEPT ![job[m].at] = reply = "error"]

\* finally { this.isImporting = false }
Release(m, reply) == importing' = [importing EXCEPT ![job[m].at] = FALSE]

\* The COMMIT of a transaction with a failed statement is a rollback that does not say so.
Stores(m) == db' = IF job[m].aborted THEN db ELSE [t \in Tables |-> db[t] \cup job[m].tx[t]]

Ends(m, pc) == Goto(m, pc, [job[m] EXCEPT !.tx = NoRows])

Commit(m) ==
    /\ At(m, "commit")
    /\ Stores(m)
    /\ Ends(m, "answered")
    /\ Release(m, "ok")
    /\ UNCHANGED <<catalogs, clock, pulling, cursor, pulled, commits, faults>>

Running(m) == job[m].pc \notin {"idle", "refused", "answered", "error", "lost", "sent", "late"}

\* The connection is lost at the COMMIT, which throws.  The database had committed, or
\* never will, or has still to decide when the flag is cleared ("sent").  So it is when the
\* process restarts while it waits for the answer.
CommitFails(m) ==
    /\ At(m, "commit")
    /\ faults < MaxFaults
    /\ faults' = faults + 1
    /\ \/ Stores(m) /\ Ends(m, "error")
       \/ UNCHANGED db /\ Ends(m, "error")
       \/ UNCHANGED db /\ Goto(m, "sent", job[m])
    /\ Release(m, "error")
    /\ UNCHANGED <<catalogs, clock, pulling, cursor, pulled, commits>>

\* A transaction nobody waits for any more commits, or is rolled back.
CommitLate(m) ==
    /\ At(m, "sent")
    /\ \/ Stores(m) /\ Ends(m, "late")
       \/ UNCHANGED db /\ Ends(m, "error")
    /\ UNCHANGED <<importing, catalogs, clock, pulling, cursor, pulled, commits, faults>>

\* The process restarts while it imports: its flag, its transaction and its requests are
\* gone.
Crash(p) ==
    /\ faults < MaxFaults /\ importing[p]
    /\ faults' = faults + 1
    /\ importing' = [importing EXCEPT ![p] = FALSE]
    /\ job' = [m \in Import |-> IF Running(m) /\ job[m].at = p
                                THEN [Idle EXCEPT !.pc = "lost", !.at = p] ELSE job[m]]
    /\ pulling' = (pulling /\ Home # p)
    /\ UNCHANGED <<db, catalogs, clock, cursor, pulled, commits>>

-----------------------------------------------------------------------------
(* The rest of the system *)

\* A push job that was accepted before commits a tramite.
PushCommit ==
    /\ commits < MaxCommits
    /\ commits' = commits + 1
    /\ clock' = clock + 1
    /\ db' = [db EXCEPT !["tramites"] = @ \cup {[id |-> <<"push", commits'>>, stamp |-> clock',
                                                 clean |-> TRUE]},
                        !["partes"] = @ \cup {<<"push", commits'>>},
                        !["detalles"] = @ \cup {[tramite |-> <<"push", commits'>>,
                                                 empresa |-> Nil, presentante |-> Nil]}]
    /\ UNCHANGED <<importing, job, catalogs, pulling, cursor, pulled, faults>>

\* Mutant of CheckMaintenanceMode: nothing is refused.
CheckMaintenanceModeNever(p) == TRUE

CheckMaintenanceMode(p) == ~importing[p]

\* GET /sync/pull: the check comes first, the query after the operator's device was read.
PullCheck ==
    /\ ~pulling
    /\ CheckMaintenanceMode(Home)
    /\ pulling' = TRUE
    /\ UNCHANGED <<importing, job, db, catalogs, clock, cursor, pulled, commits, faults>>

PullQuery ==
    /\ pulling
    /\ LET page == {t \in db["tramites"] : t.stamp > cursor}
       IN  /\ pulled' = pulled \cup page
           /\ cursor' = IF page = {} THEN cursor
                        ELSE CHOOSE s \in {t.stamp : t \in page} : \A t \in page : t.stamp <= s
    /\ pulling' = FALSE
    /\ UNCHANGED <<importing, job, db, catalogs, clock, commits, faults>>

-----------------------------------------------------------------------------

ImportStep(m) ==
    \/ BeginRow(m) \/ SaveTramite(m) \/ FindOrSaveEmpresa(m)
    \/ FindOrSavePresentante(m) \/ SaveDetalle(m) \/ Commit(m) \/ CommitFails(m)

Next ==
    \/ \E m \in Import, p \in Process, file \in Files : Upload(m, p, file)
    \/ \E m \in Import : ImportStep(m) \/ CommitLate(m)
    \/ \E p \in Process : Crash(p)
    \/ PushCommit
    \/ PullCheck
    \/ PullQuery

Spec == Init /\ [][Next]_vars

\* The loop over the rows goes on until it ends.
FairSpec == Spec /\ \A m \in Import : WF_vars(ImportStep(m))

-----------------------------------------------------------------------------
(* Properties *)

\* The flag of a process is set just while an import runs in it, of which there is one.
ImportTypeOK ==
    /\ \A p \in Process : importing[p] = (\E m \in Import : Running(m) /\ job[m].at = p)
    /\ \A m, n \in Import : Running(m) /\ Running(n) /\ m # n => job[m].at # job[n].at
    /\ \A m \in Import : job[m].imported + job[m].errors <= Len(job[m].rows)
    /\ \A t \in pulled : t \in db["tramites"] /\ t.stamp <= cursor
    /\ cursor <= clock

Stored(m) == {t \in db["tramites"] : t.id[1] = m}

\* An import that is answered without errors has stored every row that is not blank; one
\* that is answered with errors has stored no tramite, whatever it says it imported.  At
\* no time is a tramite stored without its cliente, its vehiculo and its detalle, nor a
\* detalle without the empresa and the presentante it names.
AllOrNothing ==
    /\ \A m \in Import : job[m].pc = "answered" =>
        Cardinality(Stored(m)) =
            IF job[m].errors # 0 THEN 0
            ELSE Cardinality({i \in DOMAIN job[m].rows : job[m].rows[i] # Nil})
    /\ \A t \in db["tramites"] :
            t.id \in db["partes"] /\ \E d \in db["detalles"] : d.tramite = t.id
    /\ \A d \in db["detalles"] :
            /\ d.empresa # Nil => \E e \in db["empresas"] : e.id = d.empresa
            /\ d.presentante # Nil => \E e \in db["presentantes"] : e.id = d.presentante

\* A row whose upload ended with an error before its transaction committed.
Late(id) == id[1] \in Import /\ job[id[1]].pc = "late"

\* Imports of one process never store two empresas, or presentantes, of one name, unless
\* one of the two was committed when its import had ended with an error already.
OneOfAName ==
    \A table \in {"empresas", "presentantes"} :
        \A e, f \in db[table] :
            e.name = f.name /\ e.at = f.at /\ ~Late(e.id) /\ ~Late(f.id) => e = f

\* Maintenance mode works: a client that pulls from the process of an import, and had no
\* request there when it began, is not led past its rows by what the workers commit
\* meanwhile with a later time, unless they are committed after the import has ended.
NothingIsSkipped ==
    \A t \in db["tramites"] : t.clean /\ ~Late(t.id) /\ t.stamp <= cursor => t \in pulled

\* Maintenance mode ends.
MaintenanceEnds == \A p \in Process : importing[p] ~> ~importing[p]

-----------------------------------------------------------------------------
(* Not invariants: states the code reaches, see the README *)

\* The number of imported rows in the summary is the number of rows stored.
SummaryIsTrue ==
    \A m \in Import : job[m].pc = "answered" => job[m].imported = Cardinality(Stored(m))

\* Clientes and vehiculos are stored only with their tramite.
NoOrphans ==
    \A p \in db["partes"] : \E t \in db["tramites"] : t.id = p

\* An empresa has one entry.
OneEmpresa == \A e, f \in db["empresas"] : e.name = f.name => e = f

\* No client is led past a row of an import.
NeverSkipped == \A t \in db["tramites"] : t.stamp <= cursor => t \in pulled

=============================================================================

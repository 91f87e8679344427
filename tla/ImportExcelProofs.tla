------------------------- MODULE ImportExcelProofs -------------------------
(***************************************************************************)
(* What an import promises, for any number of processes, uploads, rows,     *)
(* pushes and restarts: all or nothing, one entry of a name, one import in  *)
(* a process, and no client that is led past the rows of an import.         *)
(***************************************************************************)
EXTENDS ImportExcel, FiniteSetTheorems, FunctionTheorems, WellFoundedInduction, TLAPS

(* Types *)

Sheets  == {f.rows : f \in Files} \cup {<< >>}
Cells   == UNION {{s[i] : i \in DOMAIN s} : s \in Sheets}
Names   == {c.empresa : c \in Cells} \cup {ParsePresentanteName(c.presentante) : c \in Cells}
Key     == (Import \cup {"push"}) \X Nat
Tramite == [id : Key, stamp : Nat, clean : BOOLEAN]
Entity  == [id : Key, name : Names, at : Process]
Detalle == [tramite : Key, empresa : Key \cup {Nil}, presentante : Key \cup {Nil}]

\* The rows of each table.
Schema ==
    {d \in [Tables -> SUBSET (Key \cup Tramite \cup Entity \cup Detalle)] :
        /\ d["tramites"] \subseteq Tramite
        /\ d["empresas"] \subseteq Entity /\ d["presentantes"] \subseteq Entity
        /\ d["detalles"] \subseteq Detalle}

InRow == {"tramite", "empresa", "presentante", "detalle"}
After == {"empresa", "presentante", "detalle"}
Ended == {"idle", "refused", "answered", "error", "lost", "sent", "late"}
\* Its rows may be stored.
Decided == {"answered", "error", "late"}

Job == [pc : InRow \cup Ended \cup {"row", "commit"}, at : Process \cup {Nil}, rows : Sheets,
        i : Nat \ {0}, now : Nat, empresa : Key \cup {Nil}, presentante : Key \cup {Nil},
        aborted : BOOLEAN, tx : Schema, imported : Nat, errors : Nat, clean : BOOLEAN]

Typed ==
    /\ importing \in [Process -> BOOLEAN]
    /\ job \in [Import -> Job]
    /\ db \in Schema
    /\ catalogs \in BOOLEAN
    /\ clock \in Nat /\ cursor \in Nat /\ commits \in Nat
    /\ pulling \in BOOLEAN
    /\ pulled \subseteq Tramite

(* The inductive invariant: first what is true of an upload m in the state j *)

\* The flag of a process is set while an import runs in it, and for no second one.
FlagIsLock ==
    /\ \A p \in Process : importing[p] = (\E m \in Import : Running(m) /\ job[m].at = p)
    /\ \A m \in Import : Running(m) => job[m].at \in Process
    /\ \A m, n \in Import : Running(m) /\ Running(n) /\ job[m].at = job[n].at => m = n

\* Every row is counted once at most, and when the COMMIT comes no row is left.
Counted(j) ==
    /\ j.imported + j.errors < j.i /\ j.i <= Len(j.rows) + 1
    /\ j.pc \in InRow => j.i \in DOMAIN j.rows /\ j.rows[j.i] # Nil
    /\ j.pc = "commit" => \A k \in DOMAIN j.rows : k >= j.i => j.rows[k] = Nil

\* A row that is not counted as an error has been accepted by the database.
Faultless(j) ==
    /\ j.aborted => j.errors # 0
    /\ j.errors # 0 => j.aborted \/ ~catalogs
    /\ ~catalogs => j.tx["tramites"] = {} /\ j.pc \notin After

\* The rows whose tramite was saved, if there was no error.
Ready(j) == {k \in DOMAIN j.rows : j.rows[k] # Nil /\ (k < j.i \/ (k = j.i /\ j.pc \in After))}

\* The tramites of the transaction are those of its rows, one each.
Done(m, j) ==
    /\ \A t \in j.tx["tramites"] : \E k \in Ready(j) : t.id = <<m, k>>
    /\ \A t, u \in j.tx["tramites"] : t.id = u.id => t = u
    /\ j.errors = 0 => \A k \in Ready(j) : \E t \in j.tx["tramites"] : t.id = <<m, k>>

\* A tramite has its cliente and vehiculo, and its detalle unless that is to come.
Whole(m, j) ==
    ~j.aborted => \A t \in j.tx["tramites"] :
        /\ t.id \in j.tx["partes"]
        /\ \/ \E d \in j.tx["detalles"] : d.tramite = t.id
           \/ j.pc \in After /\ t.id = <<m, j.i>>

\* What a detalle refers to is there, and so is what the next one will refer to.
Seen(j, table) == db[table] \cup j.tx[table]
There(j, id, table) == id # Nil => \E e \in Seen(j, table) : e.id = id
Refers(j) ==
    /\ There(j, j.empresa, "empresas") /\ There(j, j.presentante, "presentantes")
    /\ \A d \in j.tx["detalles"] :
        There(j, d.empresa, "empresas") /\ There(j, d.presentante, "presentantes")

\* One entry of a name, among those the upload sees of its process, of which none was
\* committed late.
OneName(j) ==
    \A table \in {"empresas", "presentantes"} :
        /\ \A e \in j.tx[table] : e.at = j.at
        /\ \A e, f \in Seen(j, table) :
                e.name = f.name /\ e.at = f.at /\ ~Late(e.id) /\ ~Late(f.id) => e = f

\* The entries of the transaction are known as those of the upload.
Own(m, j) == \A table \in {"empresas", "presentantes"} : \A e \in j.tx[table] : e.id[1] = m

\* A client whose pulls are refused while the upload runs has a cursor before its rows.
Ahead(j) ==
    /\ j.now <= clock
    /\ \A t \in j.tx["tramites"] : t.stamp <= clock /\ t.clean = j.clean
    /\ j.clean => /\ j.at = Home /\ ~pulling
                  /\ j.pc = "tramite" => j.now > cursor
                  /\ \A t \in j.tx["tramites"] : t.stamp > cursor

WhileRunning(m, j) ==
    /\ Faultless(j) /\ Done(m, j) /\ Whole(m, j) /\ Refers(j) /\ OneName(j) /\ Ahead(j)
    /\ Own(m, j)

\* What is still true of a transaction nobody waits for: its rows fit together, and are
\* marked as its own.  Other uploads of the process and pulls may have overtaken it.
Pending(m, j) ==
    /\ Done(m, j) /\ Whole(m, j) /\ Refers(j) /\ Own(m, j)
    /\ \A t \in j.tx["tramites"] : t.stamp <= clock

JobInv ==
    \A m \in Import :
        /\ Counted(job[m])
        /\ Running(m) => WhileRunning(m, job[m])
        /\ job[m].pc = "sent" => Pending(m, job[m])
        /\ job[m].pc \notin Decided => Stored(m) = {}

(* What is true of the rows that are stored, and of what was pulled *)

DataInv == AllOrNothing /\ OneOfAName

PullInv ==
    /\ \A t \in db["tramites"] : t.stamp <= clock
    /\ \A t \in pulled : t \in db["tramites"] /\ t.stamp <= cursor
    /\ cursor <= clock
    /\ NothingIsSkipped

ImportInv == Typed /\ FlagIsLock /\ JobInv /\ DataInv /\ PullInv

-----------------------------------------------------------------------------
(* Types *)

LEMMA SheetSeq ==
    ASSUME NEW s \in Sheets
    PROVE  Len(s) \in Nat /\ DOMAIN s = 1 .. Len(s)
<1>1. CASE s = << >>
  BY <1>1
<1>2. ASSUME NEW f \in Files, s = f.rows
      PROVE  Len(s) \in Nat /\ DOMAIN s = 1 .. Len(s)
  <2>1. s \in Seq({f.rows[k] : k \in DOMAIN f.rows})
    BY <1>2, FilesAssumption
  <2> QED BY <2>1
<1> QED BY <1>1, <1>2 DEF Sheets

LEMMA JobTyped ==
    ASSUME NEW j \in Job
    PROVE  /\ j.i \in Nat \ {0} /\ j.now \in Nat /\ j.imported \in Nat /\ j.errors \in Nat
           /\ j.aborted \in BOOLEAN /\ j.clean \in BOOLEAN
           /\ j.rows \in Sheets /\ Len(j.rows) \in Nat /\ DOMAIN j.rows = 1 .. Len(j.rows)
           /\ j.tx \in Schema /\ j.tx["tramites"] \subseteq Tramite
           /\ j.empresa \in Key \cup {Nil} /\ j.presentante \in Key \cup {Nil}
           /\ j.at \in Process \cup {Nil}
<1>1. j.rows \in Sheets /\ j.tx \in Schema
  BY DEF Job
<1>2. j.tx["tramites"] \subseteq Tramite
  BY <1>1 DEF Schema
<1> QED BY <1>1, <1>2, SheetSeq DEF Job

\* What the cells of a row name.
LEMMA CellNames ==
    ASSUME NEW j \in Job, NEW i \in DOMAIN j.rows
    PROVE  j.rows[i].empresa \in Names /\ ParsePresentanteName(j.rows[i].presentante) \in Names
<1>1. j.rows[i] \in Cells
  BY JobTyped DEF Cells
<1> QED BY <1>1 DEF Names

\* A row is added to one table, and nothing else changes.
LEMMA WriteEffect ==
    ASSUME NEW j \in Job, NEW table \in Tables, NEW row,
           [j.tx EXCEPT ![table] = j.tx[table] \cup {row}] \in Schema
    PROVE  LET w == Write(j, table, row)
           IN  /\ w \in Job /\ w.pc = j.pc /\ w.at = j.at /\ w.rows = j.rows /\ w.i = j.i
               /\ w.now = j.now /\ w.empresa = j.empresa /\ w.presentante = j.presentante
               /\ w.aborted = j.aborted /\ w.imported = j.imported /\ w.errors = j.errors
               /\ w.clean = j.clean
               /\ w.tx[table] = j.tx[table] \cup {row}
               /\ \A t \in Tables \ {table} : w.tx[t] = j.tx[t]
<1> DEFINE x == [j.tx EXCEPT ![table] = j.tx[table] \cup {row}]
           w == [j EXCEPT !.tx = x]
<1>1. j.tx \in Schema
  BY JobTyped
<1>2. /\ x \in Schema /\ x[table] = j.tx[table] \cup {row}
      /\ \A t \in Tables \ {table} : x[t] = j.tx[t]
  BY <1>1 DEF Schema
<1>3. Write(j, table, row) = w
  BY DEF Write
<1> HIDE DEF x
<1>4. /\ w \in Job /\ w.pc = j.pc /\ w.at = j.at /\ w.rows = j.rows /\ w.i = j.i
      /\ w.now = j.now /\ w.empresa = j.empresa /\ w.presentante = j.presentante
      /\ w.aborted = j.aborted /\ w.imported = j.imported /\ w.errors = j.errors
      /\ w.clean = j.clean /\ w.tx = x
  BY <1>2 DEF Job
<1> HIDE DEF w
<1> QED BY <1>2, <1>3, <1>4

LEMMA SchemaGrows ==
    ASSUME NEW d \in Schema
    PROVE  /\ \A k \in Key : [d EXCEPT !["partes"] = d["partes"] \cup {k}] \in Schema
           /\ \A t \in Tramite : [d EXCEPT !["tramites"] = d["tramites"] \cup {t}] \in Schema
           /\ \A e \in Entity : [d EXCEPT !["empresas"] = d["empresas"] \cup {e}] \in Schema
           /\ \A e \in Entity : [d EXCEPT !["presentantes"] = d["presentantes"] \cup {e}] \in Schema
           /\ \A t \in Detalle : [d EXCEPT !["detalles"] = d["detalles"] \cup {t}] \in Schema
<1> DEFINE Any == Key \cup Tramite \cup Entity \cup Detalle
           ok(x) == /\ x \in [Tables -> SUBSET Any]
                    /\ x["tramites"] \subseteq Tramite
                    /\ x["empresas"] \subseteq Entity /\ x["presentantes"] \subseteq Entity
                    /\ x["detalles"] \subseteq Detalle
<1>1. \A x : x \in Schema <=> ok(x)
  BY DEF Schema
<1>2. Tables = {"partes", "tramites", "empresas", "presentantes", "detalles"}
  BY DEF Tables
<1>3. ok(d) /\ Key \subseteq Any /\ Tramite \subseteq Any /\ Entity \subseteq Any /\ Detalle \subseteq Any
  BY <1>1
<1> HIDE DEF Any
<1>4. \A k \in Key : ok([d EXCEPT !["partes"] = d["partes"] \cup {k}])
  BY <1>2, <1>3
<1>5. \A k \in Tramite : ok([d EXCEPT !["tramites"] = d["tramites"] \cup {k}])
  BY <1>2, <1>3
<1>6. \A k \in Entity : ok([d EXCEPT !["empresas"] = d["empresas"] \cup {k}])
  BY <1>2, <1>3
<1>7. \A k \in Entity : ok([d EXCEPT !["presentantes"] = d["presentantes"] \cup {k}])
  BY <1>2, <1>3
<1>8. \A k \in Detalle : ok([d EXCEPT !["detalles"] = d["detalles"] \cup {k}])
  BY <1>2, <1>3
<1> HIDE DEF ok
<1> QED BY <1>1, <1>4, <1>5, <1>6, <1>7, <1>8

LEMMA NoRowsTyped == NoRows \in Schema /\ \A t \in Tables : NoRows[t] = {}
BY DEF NoRows, Schema, Tables

LEMMA IdleTyped == Idle \in Job /\ Counted(Idle)
<1>1. Idle \in Job
  BY NoRowsTyped DEF Idle, Job, Sheets, Ended, InRow
<1> QED BY <1>1, SheetSeq DEF Idle, Counted, InRow, Sheets

-----------------------------------------------------------------------------
(* What the statements for a row make of the state j of their upload *)

Well(m, j) == j \in Job /\ Counted(j) /\ WhileRunning(m, j)

\* The fields in which the states of one upload do not differ.
SameUpload(j, e) == e.at = j.at /\ e.rows = j.rows /\ e.clean = j.clean

\* A statement fails.
LEMMA FailedKeeps ==
    ASSUME NEW m \in Import, NEW j, Well(m, j), j.pc \in InRow, NEW e,
           e = [Failed(j) EXCEPT !.pc = "row"]
    PROVE  Well(m, e) /\ e.at = j.at /\ e.pc = "row"
<1>t. j \in Job /\ j.i \in Nat /\ j.imported \in Nat /\ j.errors \in Nat /\ Len(j.rows) \in Nat
        /\ DOMAIN j.rows = 1 .. Len(j.rows)
  BY JobTyped DEF Well
<1>1. /\ e \in Job /\ SameUpload(j, e) /\ e.pc = "row" /\ e.aborted = TRUE /\ e.tx = j.tx
      /\ e.i = j.i + 1 /\ e.errors = j.errors + 1 /\ e.imported = j.imported
      /\ e.now = j.now /\ e.empresa = j.empresa /\ e.presentante = j.presentante
  <2>1. j.i + 1 \in Nat \ {0} /\ j.errors + 1 \in Nat
    BY <1>t
  <2>2. e = [j EXCEPT !.errors = j.errors + 1, !.i = j.i + 1, !.aborted = TRUE, !.pc = "row"]
    BY DEF Failed
  <2> QED BY <1>t, <2>1, <2>2 DEF Job, SameUpload
<1>2. Counted(e)
  BY <1>t, <1>1 DEF Counted, Well, InRow, SameUpload
<1>3. Faultless(e) /\ Whole(m, e)
  BY <1>t, <1>1 DEF Faultless, Whole, Well, WhileRunning, After
<1>4. Done(m, e)
  <2>1. Ready(j) \subseteq Ready(e)
    BY <1>t, <1>1 DEF Ready, SameUpload
  <2>2. e.errors # 0
    BY <1>t, <1>1
  <2> QED BY <2>1, <2>2, <1>1 DEF Done, Well, WhileRunning
<1>5. Refers(e) /\ OneName(e)
  BY <1>1 DEF Refers, OneName, There, Seen, Well, WhileRunning, SameUpload
<1>6. Ahead(e) /\ Own(m, e)
  BY <1>1 DEF Ahead, Own, Well, WhileRunning, SameUpload
<1> QED BY <1>1, <1>2, <1>3, <1>4, <1>5, <1>6 DEF Well, WhileRunning, SameUpload

\* A row is counted as an error, or as imported.
LEMMA ErrorEffect ==
    ASSUME NEW w \in Job, NEW e,
           e = [[w EXCEPT !.errors = @ + 1, !.i = @ + 1] EXCEPT !.pc = "row"]
    PROVE  /\ e \in Job /\ SameUpload(w, e) /\ e.pc = "row" /\ e.aborted = w.aborted /\ e.tx = w.tx
           /\ e.i = w.i + 1 /\ e.now = w.now
           /\ e.empresa = w.empresa /\ e.presentante = w.presentante
           /\ e.errors = w.errors + 1 /\ e.imported = w.imported
<1>1. w.i + 1 \in Nat \ {0} /\ w.errors + 1 \in Nat /\ w.imported + 1 \in Nat
  BY JobTyped
<1> QED BY <1>1 DEF Job, SameUpload

LEMMA ImportedEffect ==
    ASSUME NEW w \in Job, NEW e,
           e = [[w EXCEPT !.imported = @ + 1, !.i = @ + 1] EXCEPT !.pc = "row"]
    PROVE  /\ e \in Job /\ SameUpload(w, e) /\ e.pc = "row" /\ e.aborted = w.aborted /\ e.tx = w.tx
           /\ e.i = w.i + 1 /\ e.now = w.now
           /\ e.empresa = w.empresa /\ e.presentante = w.presentante
           /\ e.errors = w.errors /\ e.imported = w.imported + 1
<1>1. w.i + 1 \in Nat \ {0} /\ w.errors + 1 \in Nat /\ w.imported + 1 \in Nat
  BY JobTyped
<1> QED BY <1>1 DEF Job, SameUpload

\* Without catalogues the row ends after its cliente and its vehiculo.
LEMMA NoCatalogsKeeps ==
    ASSUME NEW m \in Import, NEW j, Well(m, j), j.pc \in InRow, ~catalogs,
           NEW e \in Job, SameUpload(j, e), e.pc = "row", e.aborted = j.aborted,
           e.i = j.i + 1, e.errors = j.errors + 1, e.imported = j.imported, e.now = j.now,
           e.empresa = j.empresa, e.presentante = j.presentante,
           \A t \in Tables \ {"partes"} : e.tx[t] = j.tx[t]
    PROVE  Well(m, e)
<1>t. j \in Job /\ j.i \in Nat /\ j.imported \in Nat /\ j.errors \in Nat /\ Len(j.rows) \in Nat
        /\ DOMAIN j.rows = 1 .. Len(j.rows) /\ j.tx \in Schema
  BY JobTyped DEF Well
<1>1. Counted(e)
  BY <1>t DEF Counted, Well, InRow, SameUpload
<1>2. /\ e.tx["tramites"] = {} /\ e.tx["empresas"] = j.tx["empresas"]
      /\ e.tx["presentantes"] = j.tx["presentantes"] /\ e.tx["detalles"] = j.tx["detalles"]
  BY DEF Tables, Well, WhileRunning, Faultless
<1>3. e.errors # 0
  BY <1>t
<1>4. Faultless(e) /\ Whole(m, e) /\ Done(m, e)
  BY <1>2, <1>3 DEF Faultless, Whole, Done, Well, WhileRunning, After
<1>5. Refers(e) /\ OneName(e)
  BY <1>2 DEF Refers, OneName, There, Seen, Well, WhileRunning, SameUpload
<1>6. Ahead(e) /\ Own(m, e)
  BY <1>2 DEF Ahead, Own, Well, WhileRunning, SameUpload
<1> QED BY <1>1, <1>4, <1>5, <1>6 DEF Well, WhileRunning

\* The cliente and the vehiculo are saved.
LEMMA PartesKeep ==
    ASSUME NEW m \in Import, NEW j, Well(m, j),
           NEW e \in Job, SameUpload(j, e), e.pc = j.pc, e.aborted = j.aborted,
           e.i = j.i, e.errors = j.errors, e.imported = j.imported, e.now = j.now,
           e.empresa = j.empresa, e.presentante = j.presentante,
           j.tx["partes"] \subseteq e.tx["partes"],
           \A t \in Tables \ {"partes"} : e.tx[t] = j.tx[t]
    PROVE  Well(m, e)
<1>1. Counted(e)
  BY DEF Counted, Well, SameUpload
<1>2. /\ e.tx["tramites"] = j.tx["tramites"] /\ e.tx["empresas"] = j.tx["empresas"]
      /\ e.tx["presentantes"] = j.tx["presentantes"] /\ e.tx["detalles"] = j.tx["detalles"]
  BY DEF Tables
<1>3. Ready(e) = Ready(j)
  BY DEF Ready, SameUpload
<1>4. Faultless(e) /\ Done(m, e)
  BY <1>2, <1>3 DEF Faultless, Done, Well, WhileRunning
<1>5. Whole(m, e)
  BY <1>2 DEF Whole, Well, WhileRunning
<1>6. Refers(e) /\ OneName(e)
  BY <1>2 DEF Refers, OneName, There, Seen, Well, WhileRunning, SameUpload
<1>7. Ahead(e) /\ Own(m, e)
  BY <1>2 DEF Ahead, Own, Well, WhileRunning, SameUpload
<1> QED BY <1>1, <1>4, <1>5, <1>6, <1>7 DEF Well, WhileRunning

\* The tramite is saved, with the cliente and the vehiculo.
LEMMA TramiteKeeps ==
    ASSUME NEW m \in Import, NEW j, Well(m, j), j.pc = "tramite", catalogs, ~j.aborted,
           NEW e \in Job, SameUpload(j, e), e.pc = "empresa", e.aborted = j.aborted,
           e.i = j.i, e.errors = j.errors, e.imported = j.imported, e.now = j.now,
           e.empresa = j.empresa, e.presentante = j.presentante,
           e.tx["partes"] = j.tx["partes"] \cup {<<m, j.i>>},
           e.tx["tramites"] = j.tx["tramites"]
                \cup {[id |-> <<m, j.i>>, stamp |-> j.now, clean |-> j.clean]},
           \A t \in {"empresas", "presentantes", "detalles"} : e.tx[t] = j.tx[t]
    PROVE  Well(m, e)
<1> DEFINE new == [id |-> <<m, j.i>>, stamp |-> j.now, clean |-> j.clean]
<1>t. j \in Job /\ j.i \in Nat /\ j.imported \in Nat /\ j.errors \in Nat /\ Len(j.rows) \in Nat
        /\ DOMAIN j.rows = 1 .. Len(j.rows) /\ j.tx \in Schema
  BY JobTyped DEF Well
<1>1. Counted(e)
  BY <1>t DEF Counted, Well, InRow, SameUpload
<1>r. Ready(e) = Ready(j) \cup {j.i} /\ \A k \in Ready(j) : k < j.i
  BY <1>t DEF Ready, SameUpload, After, Well, Counted, InRow
<1>2. Faultless(e)
  BY DEF Faultless, Well, WhileRunning
<1>3. Done(m, e)
  <2>1. \A t \in j.tx["tramites"] : \E k \in Ready(j) : t.id = <<m, k>>
    BY DEF Well, WhileRunning, Done
  <2>2. \A t \in j.tx["tramites"] : t.id # <<m, j.i>>
    <3> SUFFICES ASSUME NEW t \in j.tx["tramites"], t.id = <<m, j.i>> PROVE FALSE
      OBVIOUS
    <3>1. PICK k \in Ready(j) : t.id = <<m, k>>
      BY <2>1
    <3>2. k = j.i
      BY <3>1
    <3> QED BY <3>2, <1>r, <1>t
  <2>3. new.id = <<m, j.i>> /\ e.tx["tramites"] = j.tx["tramites"] \cup {new}
    OBVIOUS
  <2> HIDE DEF new
  <2>4. \A t \in e.tx["tramites"] : \E k \in Ready(e) : t.id = <<m, k>>
    BY <2>1, <2>3, <1>r
  <2>5. \A t, u \in e.tx["tramites"] : t.id = u.id => t = u
    BY <2>2, <2>3 DEF Well, WhileRunning, Done
  <2>6. e.errors = 0 => \A k \in Ready(e) : \E t \in e.tx["tramites"] : t.id = <<m, k>>
    BY <2>3, <1>r DEF Well, WhileRunning, Done
  <2> QED BY <2>4, <2>5, <2>6 DEF Done
<1>4. Whole(m, e)
  BY DEF Whole, Well, WhileRunning, After
<1>5. Refers(e) /\ OneName(e)
  BY DEF Refers, OneName, There, Seen, Well, WhileRunning, SameUpload
<1>6. Ahead(e) /\ Own(m, e)
  BY DEF Ahead, Own, Well, WhileRunning, SameUpload
<1> QED BY <1>1, <1>2, <1>3, <1>4, <1>5, <1>6 DEF Well, WhileRunning

\* The row goes on without a new entry; it may refer to one that is there.
LEMMA MoveKeeps ==
    ASSUME NEW m \in Import, NEW j, Well(m, j), j.pc \in After,
           NEW e \in Job, SameUpload(j, e), e.pc \in After, e.aborted = j.aborted,
           e.i = j.i, e.errors = j.errors, e.imported = j.imported, e.now = j.now,
           e.tx = j.tx,
           There(j, e.empresa, "empresas"), There(j, e.presentante, "presentantes")
    PROVE  Well(m, e)
<1>1. Counted(e)
  BY DEF Counted, Well, InRow, SameUpload, After
<1>2. Ready(e) = Ready(j)
  BY DEF Ready, SameUpload
<1>3. Faultless(e) /\ Done(m, e) /\ Whole(m, e)
  BY <1>2 DEF Faultless, Done, Whole, Well, WhileRunning
<1>5. Refers(e) /\ OneName(e)
  BY DEF Refers, OneName, There, Seen, Well, WhileRunning, SameUpload
<1>6. Ahead(e) /\ Own(m, e)
  BY DEF Ahead, Own, Well, WhileRunning, SameUpload, After
<1> QED BY <1>1, <1>3, <1>5, <1>6 DEF Well, WhileRunning

\* An entry with a name that is not there is saved.
LEMMA EntityKeeps ==
    ASSUME NEW m \in Import, NEW j, Well(m, j), j.pc \in After,
           NEW e \in Job, SameUpload(j, e), e.pc \in After, e.aborted = j.aborted,
           e.i = j.i, e.errors = j.errors, e.imported = j.imported, e.now = j.now,
           NEW table \in {"empresas", "presentantes"}, NEW new, new.at = j.at,
           new.id[1] = m,
           \A x \in Seen(j, table) : x.name # new.name,
           e.tx[table] = j.tx[table] \cup {new},
           \A t \in Tables \ {table} : e.tx[t] = j.tx[t],
           \/ table = "empresas" /\ e.empresa = new.id /\ e.presentante = j.presentante
           \/ table = "presentantes" /\ e.presentante = new.id /\ e.empresa = j.empresa
    PROVE  Well(m, e)
<1>1. Counted(e)
  BY DEF Counted, Well, InRow, SameUpload, After
<1>2. Ready(e) = Ready(j)
  BY DEF Ready, SameUpload
<1>t. /\ e.tx["tramites"] = j.tx["tramites"] /\ e.tx["partes"] = j.tx["partes"]
      /\ e.tx["detalles"] = j.tx["detalles"]
  BY DEF Tables
<1>s. /\ Seen(e, table) = Seen(j, table) \cup {new}
      /\ \A t \in {"empresas", "presentantes"} \ {table} : Seen(e, t) = Seen(j, t) /\ e.tx[t] = j.tx[t]
  BY DEF Seen, Tables
<1>3. Faultless(e) /\ Done(m, e) /\ Whole(m, e)
  BY <1>2, <1>t DEF Faultless, Done, Whole, Well, WhileRunning
<1>4. Refers(e)
  <2>1. \A id : \A t \in {"empresas", "presentantes"} : There(j, id, t) => There(e, id, t)
    BY <1>s DEF There
  <2>2. There(e, e.empresa, "empresas") /\ There(e, e.presentante, "presentantes")
    <3>1. There(e, new.id, table)
      BY <1>s DEF There
    <3> QED BY <3>1, <2>1 DEF Well, WhileRunning, Refers
  <2> QED BY <2>1, <2>2, <1>t DEF Well, WhileRunning, Refers
<1>5. OneName(e)
  BY <1>s DEF OneName, Well, WhileRunning, SameUpload
<1>6. Ahead(e)
  BY <1>t DEF Ahead, Well, WhileRunning, SameUpload, After
<1>7. Own(m, e)
  BY <1>s DEF Own, Well, WhileRunning
<1> QED BY <1>1, <1>3, <1>4, <1>5, <1>6, <1>7 DEF Well, WhileRunning

\* The detalle is saved, and the row counted as imported.
LEMMA DetalleKeeps ==
    ASSUME NEW m \in Import, NEW j, Well(m, j), j.pc = "detalle", ~j.aborted,
           NEW e \in Job, SameUpload(j, e), e.pc = "row", e.aborted = j.aborted,
           e.i = j.i + 1, e.errors = j.errors, e.imported = j.imported + 1, e.now = j.now,
           e.empresa = j.empresa, e.presentante = j.presentante,
           e.tx["detalles"] = j.tx["detalles"]
                \cup {[tramite |-> <<m, j.i>>, empresa |-> j.empresa,
                       presentante |-> j.presentante]},
           \A t \in Tables \ {"detalles"} : e.tx[t] = j.tx[t]
    PROVE  Well(m, e)
<1> DEFINE new == [tramite |-> <<m, j.i>>, empresa |-> j.empresa, presentante |-> j.presentante]
<1>t. j \in Job /\ j.i \in Nat /\ j.imported \in Nat /\ j.errors \in Nat /\ Len(j.rows) \in Nat
        /\ DOMAIN j.rows = 1 .. Len(j.rows) /\ j.tx \in Schema
  BY JobTyped DEF Well
<1>1. Counted(e)
  BY <1>t DEF Counted, Well, InRow, SameUpload
<1>2. Ready(e) = Ready(j)
  BY <1>t DEF Ready, SameUpload, After
<1>s. /\ e.tx["tramites"] = j.tx["tramites"] /\ e.tx["partes"] = j.tx["partes"]
      /\ e.tx["empresas"] = j.tx["empresas"] /\ e.tx["presentantes"] = j.tx["presentantes"]
  BY DEF Tables
<1>n. /\ new.tramite = <<m, j.i>> /\ new.empresa = j.empresa /\ new.presentante = j.presentante
      /\ e.tx["detalles"] = j.tx["detalles"] \cup {new}
  OBVIOUS
<1> HIDE DEF new
<1>3. Faultless(e)
  BY <1>t, <1>s DEF Faultless, Well, WhileRunning, After
<1>4. Done(m, e)
  BY <1>2, <1>s DEF Done, Well, WhileRunning
<1>5. Whole(m, e)
  BY <1>s, <1>n DEF Whole, Well, WhileRunning
<1>6. Refers(e) /\ OneName(e)
  BY <1>s, <1>n DEF Refers, OneName, There, Seen, Well, WhileRunning, SameUpload
<1>7. Ahead(e) /\ Own(m, e)
  BY <1>s DEF Ahead, Own, Well, WhileRunning, SameUpload
<1> QED BY <1>1, <1>3, <1>4, <1>5, <1>6, <1>7 DEF Well, WhileRunning

-----------------------------------------------------------------------------
(* The statements for a row *)

Labels == InRow \cup Ended \cup {"row", "commit"}

LEMMA PcEffect ==
    ASSUME NEW w \in Job, NEW l \in Labels, NEW e, e = [w EXCEPT !.pc = l]
    PROVE  /\ e \in Job /\ SameUpload(w, e) /\ e.pc = l /\ e.aborted = w.aborted /\ e.tx = w.tx
           /\ e.i = w.i /\ e.now = w.now /\ e.errors = w.errors /\ e.imported = w.imported
           /\ e.empresa = w.empresa /\ e.presentante = w.presentante
BY DEF Job, SameUpload, Labels

\* The upload goes on in its process, in a state that keeps the invariant.
Advances(m) ==
    \E e : /\ job' = [job EXCEPT ![m] = e] /\ Well(m, e)
           /\ e.at = job[m].at /\ e.pc \notin Ended

LEMMA IsWell ==
    ASSUME ImportInv, NEW m \in Import, Running(m)
    PROVE  Well(m, job[m]) /\ job[m] \in Job /\ job[m].pc \notin Ended
BY DEF ImportInv, JobInv, Typed, Well, Running, Ended

LEMMA Fails ==
    ASSUME ImportInv, NEW m \in Import, job[m].pc \in InRow, Goto(m, "row", Failed(job[m]))
    PROVE  Advances(m)
<1> DEFINE e == [Failed(job[m]) EXCEPT !.pc = "row"]
<1>1. Well(m, job[m])
  BY IsWell DEF Running, InRow
<1>2. job' = [job EXCEPT ![m] = e]
  BY DEF Goto
<1>3. Well(m, e) /\ e.at = job[m].at /\ e.pc = "row"
  BY <1>1, FailedKeeps
<1> HIDE DEF e
<1> QED BY <1>2, <1>3 DEF Advances, Ended

LEMMA SaveTramiteAdvances ==
    ASSUME ImportInv, NEW m \in Import, SaveTramite(m)
    PROVE  Advances(m)
<1> DEFINE j == job[m]
           partes == Write(j, "partes", Id(m))
           row == [id |-> Id(m), stamp |-> j.now, clean |-> j.clean]
<1>1. /\ j.pc = "tramite"
      /\ IF j.aborted \/ Row(m).bad = "partes" THEN Goto(m, "row", Failed(j))
         ELSE IF ~catalogs THEN Goto(m, "row", [partes EXCEPT !.errors = @ + 1, !.i = @ + 1])
         ELSE IF Row(m).bad = "tramites" THEN Goto(m, "row", Failed(partes))
         ELSE Goto(m, "empresa", Write(partes, "tramites", row))
  BY DEF SaveTramite, At
<1>2. Well(m, j) /\ j \in Job /\ Id(m) = <<m, j.i>> /\ Id(m) \in Key /\ row \in Tramite
        /\ j.tx \in Schema
  <2>1. Well(m, j) /\ j \in Job
    BY <1>1, IsWell DEF Running
  <2> QED BY <2>1, JobTyped DEF Id, Key, Tramite
<1>3. /\ partes \in Job /\ partes.pc = j.pc /\ SameUpload(j, partes) /\ partes.i = j.i
      /\ partes.now = j.now /\ partes.empresa = j.empresa /\ partes.presentante = j.presentante
      /\ partes.aborted = j.aborted /\ partes.imported = j.imported /\ partes.errors = j.errors
      /\ partes.tx["partes"] = j.tx["partes"] \cup {Id(m)}
      /\ \A t \in Tables \ {"partes"} : partes.tx[t] = j.tx[t]
  <2>1. "partes" \in Tables /\ [j.tx EXCEPT !["partes"] = j.tx["partes"] \cup {Id(m)}] \in Schema
    BY <1>2, SchemaGrows DEF Tables
  <2> HIDE DEF j
  <2> QED BY <1>2, <2>1, WriteEffect DEF SameUpload
<1>n. row = [id |-> <<m, j.i>>, stamp |-> j.now, clean |-> j.clean]
  BY <1>2
<1> HIDE DEF partes, row
<1>4. CASE j.aborted \/ Row(m).bad = "partes"
  BY <1>1, <1>4, Fails DEF InRow
<1>f. CASE Goto(m, "row", Failed(partes))
  <2> DEFINE e == [Failed(partes) EXCEPT !.pc = "row"]
  <2>1. job' = [job EXCEPT ![m] = e]
    BY <1>f DEF Goto
  <2>2. Well(m, partes) /\ partes.pc \in InRow
    <3> HIDE DEF j
    <3>1. j.tx["partes"] \subseteq partes.tx["partes"]
      BY <1>3
    <3>2. Well(m, partes)
      BY <1>2, <1>3, <3>1, PartesKeep
    <3> QED BY <1>1, <1>3, <3>2 DEF InRow
  <2>3. Well(m, e) /\ e.at = partes.at /\ e.pc = "row"
    BY <2>2, FailedKeeps
  <2> HIDE DEF e
  <2> QED BY <1>3, <2>1, <2>3 DEF Advances, Ended, SameUpload
<1>5. CASE ~j.aborted /\ ~catalogs /\ Goto(m, "row", [partes EXCEPT !.errors = @ + 1, !.i = @ + 1])
  <2> DEFINE e == [[partes EXCEPT !.errors = @ + 1, !.i = @ + 1] EXCEPT !.pc = "row"]
  <2>1. job' = [job EXCEPT ![m] = e]
    BY <1>5 DEF Goto
  <2>2. /\ e \in Job /\ SameUpload(partes, e) /\ e.pc = "row" /\ e.aborted = partes.aborted
        /\ e.tx = partes.tx /\ e.i = partes.i + 1 /\ e.now = partes.now
        /\ e.empresa = partes.empresa /\ e.presentante = partes.presentante
        /\ e.errors = partes.errors + 1 /\ e.imported = partes.imported
    BY <1>3, ErrorEffect
  <2> HIDE DEF e, j
  <2>3. SameUpload(j, e) /\ e.at = j.at /\ j.pc \in InRow
    BY <1>1, <1>3, <2>2 DEF SameUpload, InRow
  <2>4. Well(m, e)
    BY <1>2, <1>3, <1>5, <2>2, <2>3, NoCatalogsKeeps
  <2> QED BY <2>1, <2>2, <2>3, <2>4 DEF Advances, Ended, j
<1>6. CASE ~j.aborted /\ catalogs /\ Goto(m, "empresa", Write(partes, "tramites", row))
  <2> DEFINE w == Write(partes, "tramites", row)
             e == [w EXCEPT !.pc = "empresa"]
  <2>1. job' = [job EXCEPT ![m] = e]
    BY <1>6 DEF Goto
  <2>2. /\ w \in Job /\ w.pc = j.pc /\ SameUpload(partes, w) /\ w.i = j.i
        /\ w.now = j.now /\ w.empresa = j.empresa /\ w.presentante = j.presentante
        /\ w.aborted = j.aborted /\ w.imported = j.imported /\ w.errors = j.errors
        /\ w.tx["tramites"] = partes.tx["tramites"] \cup {row}
        /\ \A t \in Tables \ {"tramites"} : w.tx[t] = partes.tx[t]
    <3>1. /\ "tramites" \in Tables
          /\ [partes.tx EXCEPT !["tramites"] = partes.tx["tramites"] \cup {row}] \in Schema
      BY <1>2, <1>3, JobTyped, SchemaGrows DEF Tables
    <3> HIDE DEF j
    <3> QED BY <1>3, <3>1, WriteEffect DEF SameUpload
  <2> HIDE DEF w
  <2>3. /\ e \in Job /\ SameUpload(w, e) /\ e.pc = "empresa" /\ e.aborted = w.aborted /\ e.tx = w.tx
        /\ e.i = w.i /\ e.now = w.now /\ e.errors = w.errors /\ e.imported = w.imported
        /\ e.empresa = w.empresa /\ e.presentante = w.presentante
    BY <2>2, PcEffect DEF Labels, InRow
  <2> HIDE DEF e, j
  <2>4. SameUpload(j, e) /\ e.at = j.at
    BY <1>3, <2>2, <2>3 DEF SameUpload
  <2>5. /\ e.tx["partes"] = j.tx["partes"] \cup {<<m, j.i>>}
        /\ e.tx["tramites"] = j.tx["tramites"]
                \cup {[id |-> <<m, j.i>>, stamp |-> j.now, clean |-> j.clean]}
        /\ \A t \in {"empresas", "presentantes", "detalles"} : e.tx[t] = j.tx[t]
    BY <1>2, <1>3, <1>n, <2>2, <2>3 DEF Tables
  <2>6. Well(m, e)
    BY <1>1, <1>2, <1>6, <2>2, <2>3, <2>4, <2>5, TramiteKeeps
  <2> QED BY <2>1, <2>3, <2>4, <2>6 DEF Advances, Ended, j
<1> QED BY <1>1, <1>4, <1>5, <1>6, <1>f

\* The entry with the name of the row is found, or made.
LEMMA FindOrSaveAdvances ==
    ASSUME ImportInv, NEW m \in Import, job[m].pc \in After,
           NEW table, NEW field, NEW name \in Names, NEW pc \in After,
           \/ table = "empresas" /\ field = "empresa"
           \/ table = "presentantes" /\ field = "presentante",
           FindOrSave(m, table, name, field, pc)
    PROVE  Advances(m)
<1> DEFINE j == job[m]
           new == [id |-> Id(m), name |-> name, at |-> j.at]
<1>1. /\ Well(m, j) /\ j \in Job /\ Id(m) \in Key /\ j.tx \in Schema /\ j.at \in Process
      /\ table \in Tables /\ Sees(m, table) = Seen(j, table)
      /\ pc \in Labels /\ pc \notin Ended /\ field \in {"empresa", "presentante"}
  <2>1. Well(m, j) /\ j \in Job /\ j.at \in Process
    BY IsWell DEF Running, After, ImportInv, FlagIsLock
  <2> QED BY <2>1, JobTyped DEF Id, Key, Tables, Sees, Seen, Labels, InRow, After, Ended
<1>2. CASE \E x \in Sees(m, table) :
             ~j.aborted /\ x.name = name /\ Goto(m, pc, [j EXCEPT ![field] = x.id])
  <2>1. PICK x \in Seen(j, table) : Goto(m, pc, [j EXCEPT ![field] = x.id])
    BY <1>1, <1>2
  <2>2. x.id \in Key
    <3>1. Seen(j, table) \subseteq Entity
      BY <1>1 DEF Seen, ImportInv, Typed, Schema
    <3> QED BY <2>1, <3>1 DEF Entity
  <2> DEFINE e == [[j EXCEPT ![field] = x.id] EXCEPT !.pc = pc]
  <2>3. job' = [job EXCEPT ![m] = e]
    BY <2>1 DEF Goto
  <2>4. /\ e \in Job /\ SameUpload(j, e) /\ e.pc = pc /\ e.aborted = j.aborted /\ e.tx = j.tx
        /\ e.i = j.i /\ e.now = j.now /\ e.errors = j.errors /\ e.imported = j.imported
        /\ field = "empresa" => e.empresa = x.id /\ e.presentante = j.presentante
        /\ field = "presentante" => e.presentante = x.id /\ e.empresa = j.empresa
    <3>1. e = [[j EXCEPT ![field] = x.id] EXCEPT !.pc = pc]
      OBVIOUS
    <3> HIDE DEF e, j
    <3>2. CASE field = "empresa"
      <4>1. e = [[j EXCEPT !.empresa = x.id] EXCEPT !.pc = pc]
        BY <3>1, <3>2
      <4>2. j \in Job /\ pc \in Labels /\ x.id \in Key
        BY <1>1, <2>2
      <4>3. /\ e \in Job /\ SameUpload(j, e) /\ e.pc = pc /\ e.aborted = j.aborted
            /\ e.tx = j.tx /\ e.i = j.i /\ e.now = j.now /\ e.errors = j.errors
            /\ e.imported = j.imported /\ e.empresa = x.id /\ e.presentante = j.presentante
        BY <4>1, <4>2 DEF Job, SameUpload, Labels
      <4> QED BY <3>2, <4>3
    <3>3. CASE field = "presentante"
      <4>1. e = [[j EXCEPT !.presentante = x.id] EXCEPT !.pc = pc]
        BY <3>1, <3>3
      <4>2. j \in Job /\ pc \in Labels /\ x.id \in Key
        BY <1>1, <2>2
      <4>3. /\ e \in Job /\ SameUpload(j, e) /\ e.pc = pc /\ e.aborted = j.aborted
            /\ e.tx = j.tx /\ e.i = j.i /\ e.now = j.now /\ e.errors = j.errors
            /\ e.imported = j.imported /\ e.presentante = x.id /\ e.empresa = j.empresa
        BY <4>1, <4>2 DEF Job, SameUpload, Labels
      <4> QED BY <3>3, <4>3
    <3> QED BY <3>2, <3>3
  <2> HIDE DEF e
  <2>5. There(j, e.empresa, "empresas") /\ There(j, e.presentante, "presentantes")
    <3>1. There(j, j.empresa, "empresas") /\ There(j, j.presentante, "presentantes")
      BY <1>1 DEF Well, WhileRunning, Refers
    <3>2. There(j, x.id, table)
      BY <2>1 DEF There
    <3> HIDE DEF j
    <3> QED BY <2>4, <3>1, <3>2
  <2>6. Well(m, e)
    BY <1>1, <2>4, <2>5, MoveKeeps
  <2> QED BY <1>1, <2>3, <2>4, <2>6 DEF Advances, SameUpload
<1>3. CASE j.aborted \/ Row(m).bad = table
  <2>1. CASE Goto(m, "row", Failed(j))
    BY <2>1, Fails DEF InRow, After
  <2>2. CASE ~Goto(m, "row", Failed(j))
    BY <1>2, <1>3, <2>2 DEF FindOrSave
  <2> QED BY <2>1, <2>2
<1>4. CASE /\ \A x \in Sees(m, table) : x.name # name
           /\ ~j.aborted
           /\ Goto(m, pc, [Write(j, table, new) EXCEPT ![field] = Id(m)])
  <2> DEFINE w == Write(j, table, new)
             e == [[w EXCEPT ![field] = Id(m)] EXCEPT !.pc = pc]
  <2>1. job' = [job EXCEPT ![m] = e]
    BY <1>4 DEF Goto
  <2>2. /\ w \in Job /\ w.pc = j.pc /\ SameUpload(j, w) /\ w.i = j.i
        /\ w.now = j.now /\ w.empresa = j.empresa /\ w.presentante = j.presentante
        /\ w.aborted = j.aborted /\ w.imported = j.imported /\ w.errors = j.errors
        /\ w.tx[table] = j.tx[table] \cup {new}
        /\ \A t \in Tables \ {table} : w.tx[t] = j.tx[t]
    <3>1. [j.tx EXCEPT ![table] = j.tx[table] \cup {new}] \in Schema
      <4>1. new \in Entity
        BY <1>1 DEF Entity
      <4> HIDE DEF new, j
      <4> QED BY <1>1, <4>1, SchemaGrows
    <3> HIDE DEF new, j
    <3> QED BY <1>1, <3>1, WriteEffect DEF SameUpload
  <2>n. new.id = Id(m) /\ new.id[1] = m /\ new.name = name /\ new.at = j.at
    BY DEF Id
  <2> HIDE DEF w, new
  <2>3. /\ e \in Job /\ SameUpload(w, e) /\ e.pc = pc /\ e.aborted = w.aborted /\ e.tx = w.tx
        /\ e.i = w.i /\ e.now = w.now /\ e.errors = w.errors /\ e.imported = w.imported
        /\ field = "empresa" => e.empresa = Id(m) /\ e.presentante = w.presentante
        /\ field = "presentante" => e.presentante = Id(m) /\ e.empresa = w.empresa
    <3>1. e = [[w EXCEPT ![field] = Id(m)] EXCEPT !.pc = pc]
      OBVIOUS
    <3> HIDE DEF e, j
    <3>2. CASE field = "empresa"
      <4>1. e = [[w EXCEPT !.empresa = Id(m)] EXCEPT !.pc = pc]
        BY <3>1, <3>2
      <4>2. w \in Job /\ pc \in Labels /\ Id(m) \in Key
        BY <1>1, <2>2
      <4>3. /\ e \in Job /\ SameUpload(w, e) /\ e.pc = pc /\ e.aborted = w.aborted
            /\ e.tx = w.tx /\ e.i = w.i /\ e.now = w.now /\ e.errors = w.errors
            /\ e.imported = w.imported /\ e.empresa = Id(m) /\ e.presentante = w.presentante
        BY <4>1, <4>2 DEF Job, SameUpload, Labels
      <4> QED BY <3>2, <4>3
    <3>3. CASE field = "presentante"
      <4>1. e = [[w EXCEPT !.presentante = Id(m)] EXCEPT !.pc = pc]
        BY <3>1, <3>3
      <4>2. w \in Job /\ pc \in Labels /\ Id(m) \in Key
        BY <1>1, <2>2
      <4>3. /\ e \in Job /\ SameUpload(w, e) /\ e.pc = pc /\ e.aborted = w.aborted
            /\ e.tx = w.tx /\ e.i = w.i /\ e.now = w.now /\ e.errors = w.errors
            /\ e.imported = w.imported /\ e.presentante = Id(m) /\ e.empresa = w.empresa
        BY <4>1, <4>2 DEF Job, SameUpload, Labels
      <4> QED BY <3>3, <4>3
    <3> QED BY <3>2, <3>3
  <2> HIDE DEF e, j
  <2>4. SameUpload(j, e) /\ e.at = j.at
    BY <2>2, <2>3 DEF SameUpload
  <2>5. \/ table = "empresas" /\ e.empresa = new.id /\ e.presentante = j.presentante
        \/ table = "presentantes" /\ e.presentante = new.id /\ e.empresa = j.empresa
    BY <2>2, <2>3, <2>n
  <2>6. /\ table \in {"empresas", "presentantes"} /\ j.pc \in After
        /\ \A x \in Seen(j, table) : x.name # new.name
    BY <1>1, <1>4, <2>n DEF j
  <2>7. /\ e.aborted = j.aborted /\ e.i = j.i /\ e.errors = j.errors /\ e.imported = j.imported
        /\ e.now = j.now /\ e.tx[table] = j.tx[table] \cup {new}
        /\ \A t \in Tables \ {table} : e.tx[t] = j.tx[t]
    BY <2>2, <2>3
  <2>8. Well(m, e)
    BY <1>1, <2>3, <2>4, <2>5, <2>6, <2>7, <2>n, EntityKeeps
  <2> QED BY <1>1, <2>1, <2>3, <2>4, <2>8 DEF Advances, j
<1> QED BY <1>2, <1>3, <1>4 DEF FindOrSave

\* The row goes on without an entry of a name.
LEMMA SkipAdvances ==
    ASSUME ImportInv, NEW m \in Import, job[m].pc \in After, NEW pc \in After, Goto(m, pc, job[m])
    PROVE  Advances(m)
<1> DEFINE j == job[m]
           e == [j EXCEPT !.pc = pc]
<1>1. Well(m, j) /\ j \in Job /\ pc \in Labels /\ pc \notin Ended
  BY IsWell DEF Running, After, Labels, InRow, Ended
<1>2. job' = [job EXCEPT ![m] = e]
  BY DEF Goto
<1>3. /\ e \in Job /\ SameUpload(j, e) /\ e.pc = pc /\ e.aborted = j.aborted /\ e.tx = j.tx
      /\ e.i = j.i /\ e.now = j.now /\ e.errors = j.errors /\ e.imported = j.imported
      /\ e.empresa = j.empresa /\ e.presentante = j.presentante
  BY <1>1, PcEffect
<1> HIDE DEF e
<1>4. There(j, e.empresa, "empresas") /\ There(j, e.presentante, "presentantes")
  BY <1>1, <1>3 DEF Well, WhileRunning, Refers
<1>5. Well(m, e)
  BY <1>1, <1>3, <1>4, MoveKeeps
<1> QED BY <1>1, <1>2, <1>3, <1>5 DEF Advances, SameUpload

LEMMA RowNames ==
    ASSUME ImportInv, NEW m \in Import, job[m].pc \in InRow
    PROVE  Row(m).empresa \in Names /\ ParsePresentanteName(Row(m).presentante) \in Names
<1>1. job[m] \in Job /\ job[m].i \in DOMAIN job[m].rows
  BY DEF ImportInv, Typed, JobInv, Counted
<1> QED BY <1>1, CellNames DEF Row

LEMMA FindsAdvance ==
    ASSUME ImportInv, NEW m \in Import, FindOrSaveEmpresa(m) \/ FindOrSavePresentante(m)
    PROVE  Advances(m)
<1>1. CASE FindOrSaveEmpresa(m)
  <2>1. job[m].pc \in After /\ job[m].pc \in InRow /\ "presentante" \in After
    BY <1>1 DEF FindOrSaveEmpresa, At, After, InRow
  <2>2. CASE Goto(m, "presentante", job[m])
    BY <2>1, <2>2, SkipAdvances
  <2>3. CASE FindOrSave(m, "empresas", Row(m).empresa, "empresa", "presentante")
    BY <2>1, <2>3, RowNames, FindOrSaveAdvances
  <2> QED BY <1>1, <2>2, <2>3 DEF FindOrSaveEmpresa
<1>2. CASE FindOrSavePresentante(m)
  <2> DEFINE name == ParsePresentanteName(Row(m).presentante)
  <2>1. job[m].pc \in After /\ job[m].pc \in InRow /\ "detalle" \in After
    BY <1>2 DEF FindOrSavePresentante, At, After, InRow
  <2>2. name \in Names
    BY <2>1, RowNames
  <2>3. Goto(m, "detalle", job[m]) \/ FindOrSave(m, "presentantes", name, "presentante", "detalle")
    BY <1>2 DEF FindOrSavePresentante
  <2> HIDE DEF name
  <2> QED BY <2>1, <2>2, <2>3, SkipAdvances, FindOrSaveAdvances
<1> QED BY <1>1, <1>2

LEMMA SaveDetalleAdvances ==
    ASSUME ImportInv, NEW m \in Import, SaveDetalle(m)
    PROVE  Advances(m)
<1> DEFINE j == job[m]
           row == [tramite |-> Id(m), empresa |-> j.empresa, presentante |-> j.presentante]
           w == Write(j, "detalles", row)
           e == [[w EXCEPT !.imported = @ + 1, !.i = @ + 1] EXCEPT !.pc = "row"]
<1>1. j.pc = "detalle" /\ j.pc \in InRow
  BY DEF SaveDetalle, At, InRow
<1>2. Well(m, j) /\ j \in Job /\ Id(m) = <<m, j.i>> /\ row \in Detalle /\ j.tx \in Schema
  <2>1. Well(m, j) /\ j \in Job
    BY <1>1, IsWell DEF Running
  <2> QED BY <2>1, JobTyped DEF Id, Key, Detalle
<1>n. row = [tramite |-> <<m, j.i>>, empresa |-> j.empresa, presentante |-> j.presentante]
  BY <1>2
<1>3. CASE j.aborted \/ Row(m).bad = "detalles"
  BY <1>1, <1>3, Fails DEF SaveDetalle
<1>4. CASE ~(j.aborted \/ Row(m).bad = "detalles")
  <2>1. job' = [job EXCEPT ![m] = e] /\ ~j.aborted
    BY <1>4 DEF SaveDetalle, Goto
  <2>2. /\ w \in Job /\ w.pc = j.pc /\ SameUpload(j, w) /\ w.i = j.i
        /\ w.now = j.now /\ w.empresa = j.empresa /\ w.presentante = j.presentante
        /\ w.aborted = j.aborted /\ w.imported = j.imported /\ w.errors = j.errors
        /\ w.tx["detalles"] = j.tx["detalles"] \cup {row}
        /\ \A t \in Tables \ {"detalles"} : w.tx[t] = j.tx[t]
    <3>1. /\ "detalles" \in Tables
          /\ [j.tx EXCEPT !["detalles"] = j.tx["detalles"] \cup {row}] \in Schema
      BY <1>2, SchemaGrows DEF Tables
    <3> HIDE DEF j, row
    <3> QED BY <1>2, <3>1, WriteEffect DEF SameUpload
  <2> HIDE DEF w
  <2>3. /\ e \in Job /\ SameUpload(w, e) /\ e.pc = "row" /\ e.aborted = w.aborted /\ e.tx = w.tx
        /\ e.i = w.i + 1 /\ e.now = w.now
        /\ e.empresa = w.empresa /\ e.presentante = w.presentante
        /\ e.errors = w.errors /\ e.imported = w.imported + 1
    BY <2>2, ImportedEffect
  <2> HIDE DEF e, j, row
  <2>4. SameUpload(j, e) /\ e.at = j.at
    BY <2>2, <2>3 DEF SameUpload
  <2>5. /\ e.aborted = j.aborted /\ e.i = j.i + 1 /\ e.errors = j.errors
        /\ e.imported = j.imported + 1 /\ e.now = j.now
        /\ e.empresa = j.empresa /\ e.presentante = j.presentante
        /\ e.tx["detalles"] = j.tx["detalles"]
                \cup {[tramite |-> <<m, j.i>>, empresa |-> j.empresa,
                       presentante |-> j.presentante]}
        /\ \A t \in Tables \ {"detalles"} : e.tx[t] = j.tx[t]
    BY <1>n, <2>2, <2>3
  <2>6. Well(m, e)
    BY <1>1, <1>2, <2>1, <2>3, <2>4, <2>5, DetalleKeeps
  <2> QED BY <2>1, <2>3, <2>4, <2>6 DEF Advances, Ended, j
<1> QED BY <1>3, <1>4

\* What was committed late stays so.
LateStays == \A id : Late(id) => Late(id)'

LEMMA LateKeeps ==
    ASSUME job \in [Import -> Job], NEW m \in Import, job[m].pc # "late",
           NEW e, job' = [job EXCEPT ![m] = e]
    PROVE  LateStays
BY DEF LateStays, Late

LEMMA OneNameStays ==
    ASSUME NEW j, OneName(j), LateStays, db' = db
    PROVE  OneName(j)'
BY DEF OneName, Seen, LateStays

\* The next row begins, or the COMMIT is next.
LEMMA BeginRowMoves ==
    ASSUME ImportInv, NEW m \in Import, BeginRow(m)
    PROVE  \E e \in Job :
            /\ job' = [job EXCEPT ![m] = e] /\ Counted(e) /\ WhileRunning(m, e)'
            /\ e.at = job[m].at /\ e.pc \notin Ended
            /\ clock' \in Nat /\ clock' >= clock
<1> DEFINE j == job[m]
           left == {i \in DOMAIN j.rows : i >= j.i /\ j.rows[i] # Nil}
<1>1. /\ j.pc = "row" /\ ImportFrame
      /\ \/ left = {} /\ Goto(m, "commit", j) /\ UNCHANGED clock
         \/ \E i \in left :
                /\ \A x \in left : i <= x
                /\ clock' = clock + 1
                /\ Goto(m, "tramite", [j EXCEPT !.i = i, !.now = clock', !.empresa = Nil,
                                                !.presentante = Nil])
  BY DEF BeginRow, At
<1>2. Well(m, j) /\ j \in Job
  BY <1>1, IsWell DEF Running
<1>t. /\ j.i \in Nat /\ j.imported \in Nat /\ j.errors \in Nat /\ Len(j.rows) \in Nat
      /\ DOMAIN j.rows = 1 .. Len(j.rows) /\ clock \in Nat /\ cursor \in Nat /\ cursor <= clock
      /\ \A t \in j.tx["tramites"] : t.stamp \in Nat
  BY <1>2, JobTyped DEF ImportInv, Typed, PullInv, Tramite
<1>h. /\ Counted(j) /\ Faultless(j) /\ Done(m, j) /\ Whole(m, j) /\ Refers(j) /\ OneName(j)
      /\ Ahead(j) /\ Own(m, j) /\ job \in [Import -> Job] /\ job[m].pc # "late"
  BY <1>1, <1>2 DEF Well, WhileRunning, ImportInv, Typed
<1>3. CASE left = {} /\ Goto(m, "commit", j) /\ UNCHANGED clock
  <2>1. PICK e : e = [j EXCEPT !.pc = "commit"]
    OBVIOUS
  <2>2. job' = [job EXCEPT ![m] = e]
    BY <1>3, <2>1 DEF Goto
  <2>3. /\ e \in Job /\ SameUpload(j, e) /\ e.pc = "commit" /\ e.aborted = j.aborted
        /\ e.tx = j.tx /\ e.i = j.i /\ e.now = j.now /\ e.errors = j.errors
        /\ e.imported = j.imported /\ e.empresa = j.empresa /\ e.presentante = j.presentante
    BY <1>2, <2>1, PcEffect DEF Labels
  <2>4. \A k \in DOMAIN e.rows : k >= e.i => e.rows[k] = Nil
    BY <1>3, <2>3 DEF SameUpload
  <2> HIDE DEF left, j
  <2>5. Counted(e)
    BY <1>h, <2>3, <2>4 DEF Counted, SameUpload, InRow
  <2>6. Ready(e) = Ready(j)
    BY <1>1, <2>3 DEF Ready, SameUpload, After
  <2>7. Faultless(e)' /\ Done(m, e)' /\ Whole(m, e)'
    BY <1>1, <1>h, <2>3, <2>6 DEF Faultless, Done, Whole, Ready, ImportFrame, After
  <2>8. Refers(e)' /\ OneName(e)'
    <3>1. Refers(e)
      BY <1>h, <2>3 DEF Refers, There, Seen
    <3>2. OneName(e)
      BY <1>h, <2>3 DEF OneName, Seen, SameUpload
    <3>3. db' = db
      BY <1>1 DEF ImportFrame
    <3>4. LateStays
      BY <1>h, <2>2, LateKeeps
    <3>5. OneName(e)'
      BY <3>2, <3>3, <3>4, OneNameStays
    <3> QED BY <3>1, <3>3, <3>5 DEF Refers, There, Seen
  <2>9. Ahead(e)'
    BY <1>1, <1>3, <1>h, <2>3 DEF Ahead, SameUpload, ImportFrame
  <2>10. WhileRunning(m, e)'
    <3>1. Own(m, e)'
      BY <1>h, <2>3 DEF Own
    <3> QED BY <2>7, <2>8, <2>9, <3>1 DEF WhileRunning
  <2>11. clock' \in Nat /\ clock' >= clock /\ e.at = j.at /\ e.pc \notin Ended
    BY <1>t, <1>3, <2>3 DEF SameUpload, Ended
  <2> QED BY <2>2, <2>3, <2>5, <2>10, <2>11 DEF j
<1>4. CASE \E i \in left :
                /\ \A x \in left : i <= x
                /\ clock' = clock + 1
                /\ Goto(m, "tramite", [j EXCEPT !.i = i, !.now = clock', !.empresa = Nil,
                                                !.presentante = Nil])
  <2>1. PICK i \in left :
                /\ \A x \in left : i <= x
                /\ clock' = clock + 1
                /\ Goto(m, "tramite", [j EXCEPT !.i = i, !.now = clock', !.empresa = Nil,
                                                !.presentante = Nil])
    BY <1>4
  <2>2. PICK e : e = [j EXCEPT !.i = i, !.now = clock', !.empresa = Nil, !.presentante = Nil,
                               !.pc = "tramite"]
    OBVIOUS
  <2>3. job' = [job EXCEPT ![m] = e]
    BY <2>1, <2>2 DEF Goto
  <2>4. i \in Nat \ {0} /\ i \in DOMAIN j.rows /\ i >= j.i /\ j.rows[i] # Nil /\ clock' \in Nat
    BY <1>t, <2>1
  <2>5. /\ e \in Job /\ SameUpload(j, e) /\ e.pc = "tramite" /\ e.aborted = j.aborted
        /\ e.tx = j.tx /\ e.i = i /\ e.now = clock' /\ e.errors = j.errors
        /\ e.imported = j.imported /\ e.empresa = Nil /\ e.presentante = Nil
    <3> HIDE DEF j
    <3> QED BY <1>2, <2>2, <2>4 DEF Job, SameUpload, InRow
  <2>6. \A k \in DOMAIN j.rows : k < i /\ j.rows[k] # Nil => k < j.i
    BY <1>t, <2>1
  <2> HIDE DEF left, j
  <2>7. Counted(e)
    BY <1>t, <1>h, <2>4, <2>5 DEF Counted, SameUpload
  <2>8. Ready(e) = Ready(j)
    <3>1. \A k \in DOMAIN j.rows : k < j.i => k < i
      BY <1>t, <2>4
    <3> QED BY <1>1, <2>5, <2>6, <3>1 DEF Ready, SameUpload, After
  <2>9. Faultless(e)' /\ Done(m, e)' /\ Whole(m, e)'
    BY <1>1, <1>h, <2>5, <2>8 DEF Faultless, Done, Whole, Ready, ImportFrame, After
  <2>10. Refers(e)' /\ OneName(e)'
    <3>1. Refers(e)
      BY <1>h, <2>5 DEF Refers, There, Seen
    <3>2. OneName(e)
      BY <1>h, <2>5 DEF OneName, Seen, SameUpload
    <3>3. db' = db
      BY <1>1 DEF ImportFrame
    <3>4. LateStays
      BY <1>h, <2>3, LateKeeps
    <3>5. OneName(e)'
      BY <3>2, <3>3, <3>4, OneNameStays
    <3> QED BY <3>1, <3>3, <3>5 DEF Refers, There, Seen
  <2>11. Ahead(e)'
    <3>1. clock' > cursor /\ \A t \in j.tx["tramites"] : t.stamp <= clock => t.stamp <= clock'
      BY <1>t, <2>1
    <3>2. cursor' = cursor /\ pulling' = pulling
      BY <1>1 DEF ImportFrame
    <3>5. clock' <= clock'
      BY <2>4
    <3>3. \A t \in e.tx["tramites"] : t.stamp <= clock' /\ t.clean = e.clean
      BY <1>h, <2>5, <3>1 DEF Ahead, SameUpload
    <3>4. e.clean => /\ e.at = Home /\ ~pulling
                     /\ \A t \in e.tx["tramites"] : t.stamp > cursor
      BY <1>h, <2>5 DEF Ahead, SameUpload
    <3> QED BY <2>5, <3>1, <3>2, <3>3, <3>4, <3>5 DEF Ahead
  <2>12. WhileRunning(m, e)'
    <3>1. Own(m, e)'
      BY <1>h, <2>5 DEF Own
    <3> QED BY <2>9, <2>10, <2>11, <3>1 DEF WhileRunning
  <2>13. clock' >= clock
    BY <1>t, <2>1
  <2> QED BY <2>3, <2>4, <2>5, <2>7, <2>12, <2>13 DEF j, SameUpload, Ended
<1> QED BY <1>1, <1>3, <1>4

\* What was true of an upload stays true while time passes and others store their rows.
LEMMA StaysWell ==
    ASSUME NEW m \in Import, NEW j \in Job, WhileRunning(m, j), catalogs' = catalogs,
           clock \in Nat, clock' \in Nat, clock' >= clock,
           \A table \in {"empresas", "presentantes"} : db[table] \subseteq db'[table],
           OneName(j)', j.clean => cursor' = cursor /\ (pulling' => pulling)
    PROVE  WhileRunning(m, j)'
<1>1. Faultless(j)' /\ Done(m, j)' /\ Whole(m, j)'
  BY DEF WhileRunning, Faultless, Done, Whole, Ready
<1>2. Refers(j)'
  <2>1. \A id : \A t \in {"empresas", "presentantes"} : There(j, id, t) => There(j, id, t)'
    BY DEF There, Seen
  <2> QED BY <2>1 DEF WhileRunning, Refers
<1>3. Ahead(j)'
  <2>1. \A x \in Nat : x <= clock => x <= clock'
    OBVIOUS
  <2>2. j.now \in Nat /\ \A t \in j.tx["tramites"] : t.stamp \in Nat
    BY JobTyped DEF Tramite
  <2> QED BY <2>1, <2>2 DEF WhileRunning, Ahead
<1>4. Own(m, j)'
  BY DEF WhileRunning, Own
<1> QED BY <1>1, <1>2, <1>3, <1>4 DEF WhileRunning

\* The tramites of an upload that is answered are as many as its answer says.
AnsweredRows(m) ==
    job[m].pc = "answered" =>
        Cardinality(Stored(m)) =
            IF job[m].errors # 0 THEN 0
            ELSE Cardinality({k \in DOMAIN job[m].rows : job[m].rows[k] # Nil})

LEMMA AnsweredHolds ==
    ASSUME ImportInv
    PROVE  \A m \in Import : AnsweredRows(m)
BY DEF ImportInv, DataInv, AllOrNothing, AnsweredRows

\* So they stay while its rows do.
LEMMA AnsweredStay ==
    ASSUME NEW m \in Import, AnsweredRows(m), Stored(m)' = Stored(m),
           job'[m].pc = "answered" => job'[m] = job[m]
    PROVE  AnsweredRows(m)'
<1>1. (job[m].pc = "answered")' => Cardinality(Stored(m)') = Cardinality(Stored(m))
  OBVIOUS
<1>2. (job[m].pc = "answered")' => job'[m] = job[m] /\ job[m].pc = "answered"
  OBVIOUS
<1> QED BY <1>1, <1>2 DEF AnsweredRows

\* And of a transaction nobody waits for.
LEMMA StaysPending ==
    ASSUME NEW m \in Import, NEW j \in Job, Pending(m, j),
           clock \in Nat, clock' \in Nat, clock' >= clock,
           \A table \in {"empresas", "presentantes"} : db[table] \subseteq db'[table]
    PROVE  Pending(m, j)'
<1>1. Done(m, j)' /\ Whole(m, j)' /\ Own(m, j)'
  BY DEF Pending, Done, Whole, Ready, Own
<1>2. Refers(j)'
  <2>1. \A id : \A t \in {"empresas", "presentantes"} : There(j, id, t) => There(j, id, t)'
    BY DEF There, Seen
  <2> QED BY <2>1 DEF Pending, Refers
<1>3. \A t \in j.tx["tramites"] : t.stamp <= clock'
  <2>1. \A x \in Nat : x <= clock => x <= clock'
    OBVIOUS
  <2>2. \A t \in j.tx["tramites"] : t.stamp \in Nat
    BY JobTyped DEF Tramite
  <2> QED BY <2>1, <2>2 DEF Pending
<1> QED BY <1>1, <1>2, <1>3 DEF Pending

\* So it does while time only passes.
LEMMA ClockGrows ==
    ASSUME ImportInv, NEW m \in Import, NEW j \in Job, WhileRunning(m, j), LateStays,
           clock' \in Nat, clock' >= clock, UNCHANGED <<db, catalogs, pulling, cursor>>
    PROVE  WhileRunning(m, j)'
<1>1. OneName(j)'
  BY OneNameStays DEF WhileRunning
<1>2. clock \in Nat
  BY DEF ImportInv, Typed
<1> QED BY <1>1, <1>2, StaysWell

\* One upload goes into a state e in which nothing is stored.
LEMMA UploadKeeps ==
    ASSUME ImportInv, NEW m \in Import, job[m].pc \notin Decided, NEW e \in Job,
           job' = [job EXCEPT ![m] = e], Counted(e), e.pc # "answered",
           e.pc \notin Ended => WhileRunning(m, e)', e.pc = "sent" => Pending(m, e),
           importing' \in [Process -> BOOLEAN], clock' \in Nat, clock' >= clock,
           UNCHANGED <<db, catalogs, pulling, cursor, pulled, commits>>
    PROVE  Typed' /\ JobInv' /\ DataInv' /\ PullInv'
<1>1. /\ job' \in [Import -> Job] /\ job'[m] = e
      /\ \A x \in Import \ {m} : job'[x] = job[x]
  BY DEF ImportInv, Typed
<1>2. UNCHANGED <<db, catalogs, pulling, cursor, pulled, commits>>
  OBVIOUS
<1>3. Typed'
  BY <1>1, <1>2 DEF ImportInv, Typed
<1>4. \A x \in Import \ {m} : Running(x)' = Running(x)
  BY <1>1 DEF Running
<1>5. Running(m)' = (e.pc \notin Ended)
  BY <1>1 DEF Running, Ended
<1>6. \A x \in Import : Stored(x)' = Stored(x)
  BY <1>2 DEF Stored
<1>l. LateStays
  BY LateKeeps DEF Decided, ImportInv, Typed
<1>7. JobInv'
  <2> SUFFICES ASSUME NEW x \in Import
               PROVE  /\ Counted(job[x])'
                      /\ Running(x)' => WhileRunning(x, job[x])'
                      /\ job'[x].pc = "sent" => Pending(x, job[x])'
                      /\ job'[x].pc \notin Decided => (Stored(x) = {})'
    BY DEF JobInv
  <2>1. CASE x = m
    <3>1. Counted(job[m])' /\ (e.pc \notin Ended => WhileRunning(m, job[m])')
      BY <1>1 DEF WhileRunning, Faultless, Done, Whole, Ready, Refers, OneName, There, Seen,
                  Ahead, Own, Counted
    <3>2. Stored(m)' = {}
      BY <1>6 DEF ImportInv, JobInv
    <3>3. e.pc = "sent" => Pending(m, e)'
      <4>1. clock \in Nat /\ \A table \in {"empresas", "presentantes"} : db[table] \subseteq db'[table]
        BY <1>2 DEF ImportInv, Typed
      <4> QED BY <4>1, StaysPending
    <3>4. e.pc = "sent" => Pending(m, job[m])'
      BY <1>1, <3>3 DEF Pending, Done, Whole, Ready, Refers, There, Seen, Own
    <3> QED BY <1>1, <1>5, <2>1, <3>1, <3>2, <3>4
  <2>2. CASE x # m
    <3>1. job'[x] = job[x] /\ job[x] \in Job
      BY <1>1, <2>2 DEF ImportInv, Typed
    <3>2. Running(x) => WhileRunning(x, job[x])
      BY DEF ImportInv, JobInv
    <3>3. PICK j \in Job : j = job[x]
      BY <3>1
    <3>4. Running(x) => WhileRunning(x, j)'
      BY <1>l, <1>2, <3>2, <3>3, ClockGrows
    <3>5. Running(x) => WhileRunning(x, job[x])'
      BY <3>1, <3>3, <3>4 DEF WhileRunning, Faultless, Done, Whole, Ready, Refers, OneName,
                              There, Seen, Ahead, Own
    <3>6. j.pc = "sent" => Pending(x, j)'
      <4>1. clock \in Nat /\ \A table \in {"empresas", "presentantes"} : db[table] \subseteq db'[table]
        BY <1>2 DEF ImportInv, Typed
      <4>2. j.pc = "sent" => Pending(x, j)
        BY <3>3 DEF ImportInv, JobInv
      <4> QED BY <4>1, <4>2, StaysPending
    <3>7. job'[x].pc = "sent" => Pending(x, job[x])'
      BY <3>1, <3>3, <3>6 DEF Pending, Done, Whole, Ready, Refers, There, Seen, Own
    <3> QED BY <1>4, <1>6, <2>2, <3>1, <3>5, <3>7 DEF ImportInv, JobInv, Counted
  <2> QED BY <2>1, <2>2
<1>8. DataInv'
  <2>1. \A x \in Import : job'[x].pc = "answered" => job'[x] = job[x]
    BY <1>1
  <2>2. \A x \in Import : AnsweredRows(x)'
    BY <1>6, <2>1, AnsweredHolds, AnsweredStay
  <2>3. db' = db
    BY <1>2
  <2>4. OneOfAName'
    BY <1>l, <2>3 DEF ImportInv, DataInv, OneOfAName, LateStays
  <2> QED BY <2>2, <2>3, <2>4 DEF ImportInv, DataInv, AllOrNothing, AnsweredRows
<1>9. PullInv'
  <2>1. \A x \in Nat : x <= clock => x <= clock'
    BY DEF ImportInv, Typed
  <2>2. (\A t \in db["tramites"] : t.stamp \in Nat) /\ cursor \in Nat
    BY DEF ImportInv, Typed, Schema, Tramite
  <2>3. NothingIsSkipped'
    BY <1>2, <1>l DEF ImportInv, PullInv, NothingIsSkipped, LateStays
  <2> QED BY <1>2, <2>1, <2>2, <2>3 DEF ImportInv, PullInv
<1> QED BY <1>3, <1>7, <1>8, <1>9

\* The uploads that run, and where, stay the same.
LEMMA LockKeeps ==
    ASSUME ImportInv, importing' = importing,
           \A x \in Import : Running(x)' = Running(x) /\ job'[x].at = job[x].at
    PROVE  FlagIsLock'
<1>1. \A p \in Process :
          (\E x \in Import : Running(x) /\ job[x].at = p)'
              = (\E x \in Import : Running(x) /\ job[x].at = p)
  OBVIOUS
<1>2. \A p \in Process :
          (importing[p] = (\E x \in Import : Running(x) /\ job[x].at = p))'
  BY <1>1 DEF ImportInv, FlagIsLock
<1>3. \A x \in Import : (Running(x) => job[x].at \in Process)'
  BY DEF ImportInv, FlagIsLock
<1>4. \A x, y \in Import : (Running(x) /\ Running(y) /\ job[x].at = job[y].at => x = y)'
  BY DEF ImportInv, FlagIsLock
<1> QED BY <1>2, <1>3, <1>4 DEF FlagIsLock

\* An upload that goes on with its rows keeps the invariant.
LEMMA RowsKeep ==
    ASSUME ImportInv, NEW m \in Import, Running(m), NEW e \in Job, job' = [job EXCEPT ![m] = e],
           Counted(e), WhileRunning(m, e)', e.at = job[m].at, e.pc \notin Ended,
           ImportFrame, clock' \in Nat, clock' >= clock
    PROVE  ImportInv'
<1>1. \A x \in Import : Running(x)' = Running(x) /\ job'[x].at = job[x].at
  <2>1. /\ job'[m] = e /\ \A x \in Import \ {m} : job'[x] = job[x]
    BY DEF ImportInv, Typed
  <2> QED BY <2>1 DEF Running, Ended
<1>2. /\ importing' = importing /\ importing' \in [Process -> BOOLEAN]
      /\ UNCHANGED <<db, catalogs, pulling, cursor, pulled, commits>>
  BY DEF ImportFrame, ImportInv, Typed
<1>3. job[m].pc \notin Decided /\ e.pc # "answered" /\ e.pc # "sent"
  BY DEF Running, Ended, Decided
<1>4. FlagIsLock'
  BY <1>1, <1>2, LockKeeps
<1>5. Typed' /\ JobInv' /\ DataInv' /\ PullInv'
  BY <1>2, <1>3, UploadKeeps
<1> QED BY <1>4, <1>5 DEF ImportInv

\* Every step of an upload but its last is such a move.
LEMMA RowStepsKeep ==
    ASSUME ImportInv, NEW m \in Import,
           \/ BeginRow(m) \/ SaveTramite(m) \/ FindOrSaveEmpresa(m)
           \/ FindOrSavePresentante(m) \/ SaveDetalle(m)
    PROVE  ImportInv'
<1>1. CASE BeginRow(m)
  <2>1. Running(m) /\ ImportFrame
    BY <1>1 DEF BeginRow, At, Running
  <2>2. PICK e \in Job :
            /\ job' = [job EXCEPT ![m] = e] /\ Counted(e) /\ WhileRunning(m, e)'
            /\ e.at = job[m].at /\ e.pc \notin Ended
            /\ clock' \in Nat /\ clock' >= clock
    BY <1>1, BeginRowMoves
  <2> QED BY <2>1, <2>2, RowsKeep
<1>2. CASE SaveTramite(m) \/ FindOrSaveEmpresa(m) \/ FindOrSavePresentante(m) \/ SaveDetalle(m)
  <2>1. Running(m) /\ ImportFrame /\ clock' = clock
    BY <1>2 DEF SaveTramite, FindOrSaveEmpresa, FindOrSavePresentante, SaveDetalle, At, Running
  <2>2. PICK e : /\ job' = [job EXCEPT ![m] = e] /\ Well(m, e)
                 /\ e.at = job[m].at /\ e.pc \notin Ended
    BY <1>2, SaveTramiteAdvances, FindsAdvance, SaveDetalleAdvances DEF Advances
  <2>3. e \in Job /\ Counted(e) /\ WhileRunning(m, e)
    BY <2>2 DEF Well
  <2>4. clock' \in Nat /\ clock' >= clock
    BY <2>1 DEF ImportInv, Typed
  <2>5. WhileRunning(m, e)'
    <3>1. LateStays
      BY <2>1, <2>2, LateKeeps DEF ImportInv, Typed, Running
    <3> QED BY <2>1, <2>3, <2>4, <3>1, ClockGrows DEF ImportFrame
  <2> QED BY <2>1, <2>2, <2>3, <2>4, <2>5, RowsKeep
<1> QED BY <1>1, <1>2


-----------------------------------------------------------------------------
(* The first step of an upload, and its last *)

\* An import is begun in a process in which none runs, or refused.
LEMMA UploadStarts ==
    ASSUME ImportInv, NEW m \in Import, NEW p \in Process, NEW file \in Files, Upload(m, p, file)
    PROVE  ImportInv'
<1>1. /\ job[m].pc = "idle" /\ ~Running(m) /\ job[m].pc \notin Decided
      /\ UNCHANGED <<db, catalogs, clock, pulling, cursor, pulled, commits, faults>>
      /\ clock' \in Nat /\ clock' >= clock
  BY DEF Upload, Running, Decided, ImportInv, Typed
<1>2. CASE /\ Admits(p) /\ importing' = [importing EXCEPT ![p] = TRUE]
           /\ job' = [job EXCEPT ![m] = [Idle EXCEPT !.pc = "row", !.at = p, !.rows = file.rows,
                                                     !.clean = p = Home /\ ~pulling]]
  <2>c. PICK c \in BOOLEAN : c = (p = Home /\ ~pulling)
    OBVIOUS
  <2>1. PICK e : e = [Idle EXCEPT !.pc = "row", !.at = p, !.rows = file.rows, !.clean = c]
    OBVIOUS
  <2>2. file.rows \in Sheets
    BY DEF Sheets
  <2>3. /\ e \in Job /\ e.pc = "row" /\ e.at = p /\ e.rows = file.rows /\ e.i = 1
        /\ e.imported = 0 /\ e.errors = 0 /\ e.tx = NoRows /\ e.aborted = FALSE /\ e.now = 0
        /\ e.clean = c /\ e.empresa = Nil /\ e.presentante = Nil
    <3>1. PICK j \in Job : j = Idle
      BY IdleTyped
    <3>2. /\ j.i = 1 /\ j.imported = 0 /\ j.errors = 0 /\ j.tx = NoRows /\ j.aborted = FALSE
          /\ j.now = 0 /\ j.empresa = Nil /\ j.presentante = Nil
      BY <3>1 DEF Idle
    <3>3. e = [j EXCEPT !.pc = "row", !.at = p, !.rows = file.rows, !.clean = c]
      BY <2>1, <3>1
    <3> QED BY <2>2, <3>2, <3>3 DEF Job
  <2>4. Counted(e)
    BY <2>2, <2>3, SheetSeq DEF Counted, InRow
  <2>5. \A t \in Tables : e.tx[t] = {}
    BY <2>3, NoRowsTyped
  <2>6. /\ e.tx["tramites"] = {} /\ e.tx["detalles"] = {}
        /\ e.tx["empresas"] = {} /\ e.tx["presentantes"] = {}
    BY <2>5 DEF Tables
  <2>7. Faultless(e)' /\ Whole(m, e)' /\ Own(m, e)'
    BY <2>3, <2>6 DEF Faultless, Whole, Own, After
  <2>8. Done(m, e)'
    <3>1. Ready(e) = {}
      BY <2>2, <2>3, SheetSeq DEF Ready, After
    <3> QED BY <2>6, <3>1 DEF Done, Ready
  <2>9. Refers(e)'
    BY <2>3, <2>6 DEF Refers, There
  <2>10. OneName(e)'
    <3>1. OneName(e)
      BY <2>6 DEF OneName, Seen, ImportInv, DataInv, OneOfAName
    <3>2. job' = [job EXCEPT ![m] = e]
      BY <1>2, <2>c, <2>1
    <3>3. LateStays
      BY <1>1, <3>2, LateKeeps DEF ImportInv, Typed
    <3> QED BY <1>1, <3>1, <3>3, OneNameStays
  <2>11. Ahead(e)'
    <3>1. 0 <= clock' /\ pulling' = pulling
      BY <1>1
    <3>2. c => p = Home /\ ~pulling
      BY <2>c
    <3> QED BY <2>3, <2>6, <3>1, <3>2 DEF Ahead
  <2>12. WhileRunning(m, e)'
    BY <2>7, <2>8, <2>9, <2>10, <2>11 DEF WhileRunning
  <2>13. job' = [job EXCEPT ![m] = e] /\ e.pc # "answered" /\ e.pc # "sent" /\ e.pc \notin Ended
         /\ importing' \in [Process -> BOOLEAN]
    BY <1>2, <2>c, <2>1, <2>3 DEF Ended, ImportInv, Typed
  <2>14. Typed' /\ JobInv' /\ DataInv' /\ PullInv'
    BY <1>1, <2>3, <2>4, <2>12, <2>13, UploadKeeps
  <2>15. FlagIsLock'
    <3>1. /\ job'[m].pc = "row" /\ job'[m].at = p /\ Running(m)'
          /\ \A x \in Import \ {m} : job'[x] = job[x] /\ Running(x)' = Running(x)
      BY <2>3, <2>13 DEF ImportInv, Typed, Running
    <3>2. \A x \in Import : ~(Running(x) /\ job[x].at = p)
      BY <1>2 DEF Admits, ImportInv, FlagIsLock
    <3>3. /\ importing'[p] = TRUE
          /\ \A q \in Process \ {p} : importing'[q] = importing[q]
      BY <1>2 DEF ImportInv, Typed
    <3>4. \A q \in Process :
              (importing[q] = (\E x \in Import : Running(x) /\ job[x].at = q))'
      <4>1. (\E x \in Import : Running(x) /\ job[x].at = p)'
        BY <3>1
      <4>2. \A q \in Process \ {p} :
                (\E x \in Import : Running(x) /\ job[x].at = q)'
                    = (\E x \in Import : Running(x) /\ job[x].at = q)
        BY <1>1, <3>1
      <4> QED BY <3>3, <4>1, <4>2 DEF ImportInv, FlagIsLock
    <3>5. \A x \in Import : (Running(x) => job[x].at \in Process)'
      BY <3>1 DEF ImportInv, FlagIsLock
    <3>6. \A x, y \in Import : (Running(x) /\ Running(y) /\ job[x].at = job[y].at => x = y)'
      BY <3>1, <3>2 DEF ImportInv, FlagIsLock
    <3> QED BY <3>4, <3>5, <3>6 DEF FlagIsLock
  <2> QED BY <2>14, <2>15 DEF ImportInv
<1>3. CASE job' = [job EXCEPT ![m].pc = "refused"] /\ UNCHANGED importing
  <2>1. PICK j \in Job : j = job[m]
    BY DEF ImportInv, Typed
  <2>2. PICK e : e = [j EXCEPT !.pc = "refused"]
    OBVIOUS
  <2>3. job' = [job EXCEPT ![m] = e]
    BY <1>3, <2>1, <2>2
  <2>4. /\ e \in Job /\ SameUpload(j, e) /\ e.pc = "refused" /\ e.aborted = j.aborted
        /\ e.tx = j.tx /\ e.i = j.i /\ e.now = j.now /\ e.errors = j.errors
        /\ e.imported = j.imported /\ e.empresa = j.empresa /\ e.presentante = j.presentante
    BY <2>1, <2>2, PcEffect DEF Labels, Ended
  <2>5. Counted(e)
    BY <1>1, <2>1, <2>4 DEF ImportInv, JobInv, Counted, SameUpload, InRow
  <2>6. /\ e.pc # "answered" /\ e.pc # "sent" /\ e.pc \in Ended
        /\ importing' \in [Process -> BOOLEAN]
    BY <1>3, <2>4 DEF Ended, ImportInv, Typed
  <2>7. Typed' /\ JobInv' /\ DataInv' /\ PullInv'
    BY <1>1, <2>3, <2>4, <2>5, <2>6, UploadKeeps
  <2>8. FlagIsLock'
    <3>1. job'[m] = e /\ \A x \in Import \ {m} : job'[x] = job[x]
      BY <2>3 DEF ImportInv, Typed
    <3>2. \A x \in Import : Running(x)' = Running(x) /\ job'[x].at = job[x].at
      BY <1>1, <2>1, <2>4, <3>1 DEF Running, SameUpload
    <3> QED BY <1>3, <3>2, LockKeeps
  <2> QED BY <2>7, <2>8 DEF ImportInv
<1> QED BY <1>2, <1>3 DEF Upload

\* The flag is cleared when the upload ends.
LEMMA ReleaseFrees ==
    ASSUME ImportInv, NEW m \in Import, Running(m), NEW reply, Release(m, reply),
           NEW e, job' = [job EXCEPT ![m] = e], e.pc \in Ended
    PROVE  FlagIsLock'
<1>1. /\ ~Running(m)'
      /\ \A x \in Import \ {m} : job'[x] = job[x] /\ Running(x)' = Running(x)
  BY DEF ImportInv, Typed, Running, Ended
<1>2. /\ job[m].at \in Process /\ importing'[job[m].at] = FALSE
      /\ \A q \in Process \ {job[m].at} : importing'[q] = importing[q]
  BY DEF Release, ImportInv, FlagIsLock, Typed
<1>3. \A q \in Process :
          (importing[q] = (\E x \in Import : Running(x) /\ job[x].at = q))'
  <2>0. PICK p \in Process : p = job[m].at
    BY <1>2
  <2>1. \A x \in Import : ~(Running(x)' /\ job'[x].at = p)
    BY <1>1, <2>0 DEF ImportInv, FlagIsLock
  <2>2. \A q \in Process \ {p} :
            (\E x \in Import : Running(x) /\ job[x].at = q)'
                = (\E x \in Import : Running(x) /\ job[x].at = q)
    BY <1>1, <2>0
  <2>3. \A q \in Process \ {p} :
            (importing[q] = (\E x \in Import : Running(x) /\ job[x].at = q))'
    BY <1>2, <2>0, <2>2 DEF ImportInv, FlagIsLock
  <2>4. (importing[p] = (\E x \in Import : Running(x) /\ job[x].at = p))'
    BY <1>2, <2>0, <2>1
  <2> QED BY <2>3, <2>4
<1>4. \A x \in Import : (Running(x) => job[x].at \in Process)'
  BY <1>1 DEF ImportInv, FlagIsLock
<1>5. \A x, y \in Import : (Running(x) /\ Running(y) /\ job[x].at = job[y].at => x = y)'
  BY <1>1 DEF ImportInv, FlagIsLock
<1> QED BY <1>3, <1>4, <1>5 DEF FlagIsLock

\* What the upload is when it has ended: in the state l, without its transaction.
LEMMA EndEffect ==
    ASSUME ImportInv, NEW m \in Import, NEW l \in Ended, Ends(m, l)
    PROVE  \E e \in Job :
            /\ job' = [job EXCEPT ![m] = e] /\ e.pc = l /\ e.tx = NoRows /\ Counted(e)
            /\ SameUpload(job[m], e) /\ e.errors = job[m].errors
<1>1. PICK j \in Job : j = job[m]
  BY DEF ImportInv, Typed
<1>2. PICK e : e = [[j EXCEPT !.tx = NoRows] EXCEPT !.pc = l]
  OBVIOUS
<1>3. job' = [job EXCEPT ![m] = e]
  BY <1>1, <1>2 DEF Ends, Goto
<1>4. /\ e \in Job /\ SameUpload(j, e) /\ e.pc = l /\ e.tx = NoRows
      /\ e.i = j.i /\ e.errors = j.errors /\ e.imported = j.imported
  BY <1>1, <1>2, NoRowsTyped DEF Job, SameUpload
<1>5. Counted(e)
  BY <1>1, <1>4 DEF ImportInv, JobInv, Counted, SameUpload, Ended, InRow
<1> QED BY <1>1, <1>3, <1>4, <1>5

-----------------------------------------------------------------------------
(* The other steps *)

\* The steps in which no upload moves keep what is true of each.
LEMMA JobsStay ==
    ASSUME ImportInv, job' = job, catalogs' = catalogs, clock' \in Nat, clock' >= clock,
           \A table \in {"empresas", "presentantes"} : db'[table] = db[table],
           \A m \in Import : Stored(m)' = Stored(m),
           \A m \in Import : Running(m) /\ job[m].clean => cursor' = cursor /\ (pulling' => pulling)
    PROVE  JobInv'
<1> SUFFICES ASSUME NEW m \in Import
             PROVE  /\ Counted(job[m])'
                    /\ Running(m)' => WhileRunning(m, job[m])'
                    /\ job'[m].pc = "sent" => Pending(m, job[m])'
                    /\ job'[m].pc \notin Decided => (Stored(m) = {})'
  BY DEF JobInv
<1>1. PICK j \in Job : j = job[m]
  BY DEF ImportInv, Typed
<1>2. job'[m] = j /\ Running(m)' = Running(m)
  BY <1>1 DEF Running
<1>3. Running(m) => WhileRunning(m, j)
  BY <1>1 DEF ImportInv, JobInv
<1>4. Running(m) => OneName(j)'
  BY <1>3 DEF WhileRunning, OneName, Seen, Late
<1>5. Running(m) => WhileRunning(m, j)'
  BY <1>1, <1>3, <1>4, StaysWell DEF ImportInv, Typed
<1>6. Running(m) => WhileRunning(m, job[m])'
  BY <1>2, <1>5 DEF WhileRunning, Faultless, Done, Whole, Ready, Refers, OneName,
                    There, Seen, Ahead, Own
<1>7. j.pc = "sent" => Pending(m, j)'
  <2>1. j.pc = "sent" => Pending(m, j)
    BY <1>1 DEF ImportInv, JobInv
  <2> QED BY <1>1, <2>1, StaysPending DEF ImportInv, Typed
<1>8. job'[m].pc = "sent" => Pending(m, job[m])'
  BY <1>2, <1>7 DEF Pending, Done, Whole, Ready, Refers, There, Seen, Own
<1> QED BY <1>1, <1>2, <1>6, <1>8 DEF ImportInv, JobInv, Counted

\* A pull is let in only where no import runs.
LEMMA PullCheckKeeps ==
    ASSUME ImportInv, PullCheck
    PROVE  ImportInv'
<1>1. /\ UNCHANGED <<importing, job, db, catalogs, clock, cursor, pulled, commits, faults>>
      /\ pulling' = TRUE /\ ~importing[Home]
  BY DEF PullCheck, CheckMaintenanceMode
<1>2. \A m \in Import : Running(m) => ~job[m].clean
  <2>1. \A m \in Import : Running(m) => job[m].at # Home
    BY <1>1, HomeAssumption DEF ImportInv, FlagIsLock
  <2> QED BY <2>1 DEF ImportInv, JobInv, WhileRunning, Ahead
<1>3. Typed'
  BY <1>1 DEF ImportInv, Typed
<1>4. FlagIsLock'
  BY <1>1, LockKeeps DEF Running
<1>5. JobInv'
  <2>1. clock' \in Nat /\ clock' >= clock
    BY <1>1 DEF ImportInv, Typed
  <2> QED BY <1>1, <1>2, <2>1, JobsStay DEF Stored
<1>6. DataInv' /\ PullInv'
  BY <1>1 DEF ImportInv, DataInv, AllOrNothing, OneOfAName, Stored, PullInv, NothingIsSkipped, Late
<1> QED BY <1>3, <1>4, <1>5, <1>6 DEF ImportInv

\* A set of tramites has a last one.
LEMMA LastStamp ==
    ASSUME ImportInv, NEW page, page \subseteq db["tramites"], page # {}
    PROVE  \E s \in {t.stamp : t \in page} : \A t \in page : t.stamp <= s
<1> DEFINE Left == {clock - s : s \in {t.stamp : t \in page}}
<1>1. clock \in Nat /\ \A t \in page : t.stamp \in Nat /\ t.stamp <= clock
  BY DEF ImportInv, Typed, Schema, Tramite, PullInv
<1>2. Left \subseteq Nat /\ Left # {}
  BY <1>1
<1>3. /\ \A t \in page : clock - t.stamp \in Left
      /\ \A l \in Left : \E s \in {t.stamp : t \in page} : l = clock - s
  OBVIOUS
<1> HIDE DEF Left
<1>4. PICK l \in Left : \A k \in Left : ~(<<k, l>> \in OpToRel(<, Nat))
  BY <1>2, NatLessThanWellFounded, WFMin
<1>5. \A k \in Left : ~(k < l)
  BY <1>2, <1>4 DEF OpToRel
<1>6. PICK s \in {t.stamp : t \in page} : l = clock - s
  BY <1>3
<1>7. ASSUME NEW t \in page
      PROVE  t.stamp <= s
  <2>1. clock - t.stamp \in Left /\ ~(clock - t.stamp < l)
    BY <1>3, <1>5
  <2> QED BY <1>1, <1>6, <2>1
<1> QED BY <1>7

\* What a pull takes are all the rows after its cursor, up to the last one.
LEMMA PullQueryKeeps ==
    ASSUME ImportInv, PullQuery
    PROVE  ImportInv'
<1> DEFINE page == {t \in db["tramites"] : t.stamp > cursor}
<1>1. /\ UNCHANGED <<importing, job, db, catalogs, clock, commits, faults>>
      /\ pulling /\ pulling' = FALSE /\ pulled' = pulled \cup page
      /\ cursor' = IF page = {} THEN cursor
                   ELSE CHOOSE s \in {t.stamp : t \in page} : \A t \in page : t.stamp <= s
  BY DEF PullQuery
<1>t. /\ clock \in Nat /\ cursor \in Nat /\ cursor <= clock
      /\ \A t \in db["tramites"] : t \in Tramite /\ t.stamp \in Nat /\ t.stamp <= clock
  BY DEF ImportInv, Typed, Schema, Tramite, PullInv
<1>2. \A m \in Import : Running(m) => ~job[m].clean
  BY <1>1 DEF ImportInv, JobInv, WhileRunning, Ahead
<1>3. /\ cursor' \in Nat /\ cursor' >= cursor /\ cursor' <= clock
      /\ \A t \in page : t.stamp <= cursor'
      /\ \A t \in db["tramites"] : t.stamp <= cursor' => t.stamp <= cursor \/ t \in page
  <2>1. CASE page = {}
    BY <1>1, <1>t, <2>1
  <2>2. CASE page # {}
    <3>1. \E s \in {t.stamp : t \in page} : \A t \in page : t.stamp <= s
      BY <2>2, LastStamp
    <3>2. cursor' \in {t.stamp : t \in page} /\ \A t \in page : t.stamp <= cursor'
      BY <1>1, <2>2, <3>1
    <3> QED BY <1>t, <3>2
  <2> QED BY <2>1, <2>2
<1>4. Typed'
  <2>1. pulled' \subseteq Tramite
    BY <1>1, <1>t DEF ImportInv, Typed
  <2> QED BY <1>1, <1>3, <2>1 DEF ImportInv, Typed
<1>5. FlagIsLock'
  BY <1>1, LockKeeps DEF Running
<1>6. JobInv'
  <2>1. clock' \in Nat /\ clock' >= clock
    BY <1>1 DEF ImportInv, Typed
  <2> QED BY <1>1, <1>2, <2>1, JobsStay DEF Stored
<1>7. DataInv'
  BY <1>1 DEF ImportInv, DataInv, AllOrNothing, OneOfAName, Stored, Late
<1>8. PullInv'
  <2>1. \A t \in db["tramites"] : t.stamp <= clock
    BY <1>t
  <2>2. \A t \in pulled' : t \in db["tramites"] /\ t.stamp <= cursor'
    <3>1. \A t \in pulled : t \in db["tramites"] /\ t.stamp <= cursor
      BY DEF ImportInv, PullInv
    <3>2. \A t \in pulled : t \in db["tramites"] /\ t.stamp <= cursor'
      <4>1. \A x \in Nat : x <= cursor => x <= cursor'
        BY <1>t, <1>3
      <4> QED BY <1>t, <3>1, <4>1
    <3>3. \A t \in page : t \in db["tramites"] /\ t.stamp <= cursor'
      BY <1>3
    <3> HIDE DEF page
    <3> QED BY <1>1, <3>2, <3>3
  <2>3. \A t \in db["tramites"] : t.clean /\ ~Late(t.id) /\ t.stamp <= cursor' => t \in pulled'
    BY <1>1, <1>3 DEF ImportInv, PullInv, NothingIsSkipped
  <2>4. \A id : Late(id)' = Late(id)
    BY <1>1 DEF Late
  <2> QED BY <1>1, <1>3, <2>1, <2>2, <2>3, <2>4 DEF PullInv, NothingIsSkipped
<1> QED BY <1>4, <1>5, <1>6, <1>7, <1>8 DEF ImportInv

\* What a push job stores comes after all that was pulled, and names no entry.
LEMMA PushCommitKeeps ==
    ASSUME ImportInv, PushCommit
    PROVE  ImportInv'
<1> DEFINE id == <<"push", commits'>>
           row == [id |-> id, stamp |-> clock', clean |-> TRUE]
           new == [tramite |-> id, empresa |-> Nil, presentante |-> Nil]
<1>1. /\ UNCHANGED <<importing, job, catalogs, pulling, cursor, pulled, faults>>
      /\ commits' = commits + 1 /\ clock' = clock + 1
      /\ db' = [db EXCEPT !["tramites"] = @ \cup {row}, !["partes"] = @ \cup {id},
                          !["detalles"] = @ \cup {new}]
  BY DEF PushCommit
<1>t. /\ clock \in Nat /\ cursor \in Nat /\ cursor <= clock /\ commits' \in Nat /\ clock' \in Nat
      /\ \A t \in db["tramites"] : t.stamp \in Nat /\ t.stamp <= clock
  BY <1>1 DEF ImportInv, Typed, Schema, Tramite, PullInv
<1>2. db' \in Schema
  <2>1. id \in Key /\ row \in Tramite /\ new \in Detalle
    BY <1>t DEF Key, Tramite, Detalle
  <2> HIDE DEF id, row, new
  <2>2. db \in Schema
    BY DEF ImportInv, Typed
  <2>3. PICK d : d = [db EXCEPT !["tramites"] = db["tramites"] \cup {row}]
    OBVIOUS
  <2>4. PICK e : e = [d EXCEPT !["partes"] = d["partes"] \cup {id}]
    OBVIOUS
  <2>5. d \in Schema
    BY <2>1, <2>2, <2>3, SchemaGrows
  <2>6. e \in Schema
    BY <2>1, <2>4, <2>5, SchemaGrows
  <2>7. db' = [e EXCEPT !["detalles"] = e["detalles"] \cup {new}]
    BY <1>1, <2>2, <2>3, <2>4 DEF Schema, Tables
  <2> QED BY <2>1, <2>6, <2>7, SchemaGrows
<1>3. /\ db'["tramites"] = db["tramites"] \cup {row} /\ db'["partes"] = db["partes"] \cup {id}
      /\ db'["detalles"] = db["detalles"] \cup {new}
      /\ db'["empresas"] = db["empresas"] /\ db'["presentantes"] = db["presentantes"]
  <2> HIDE DEF id, row, new
  <2>1. db \in [Tables -> SUBSET (Key \cup Tramite \cup Entity \cup Detalle)]
    BY DEF ImportInv, Typed, Schema
  <2> QED BY <1>1, <2>1 DEF Tables
<1>4. /\ row.id = id /\ row.stamp = clock' /\ new.tramite = id /\ new.empresa = Nil
      /\ new.presentante = Nil /\ id[1] = "push"
  OBVIOUS
<1> HIDE DEF id, row, new
<1>5. \A m \in Import : Stored(m)' = Stored(m)
  BY <1>3, <1>4, ImportAssumption DEF Stored
<1>6. Typed'
  BY <1>1, <1>2, <1>t DEF ImportInv, Typed
<1>7. FlagIsLock'
  BY <1>1, LockKeeps DEF Running
<1>8. JobInv'
  <2>1. clock' >= clock
    BY <1>1, <1>t
  <2>2. \A table \in {"empresas", "presentantes"} : db'[table] = db[table]
    BY <1>3
  <2> QED BY <1>1, <1>t, <1>5, <2>1, <2>2, JobsStay
<1>9. DataInv'
  <2>1. \A m \in Import : AnsweredRows(m)'
    BY <1>1, <1>5, AnsweredHolds, AnsweredStay
  <2>2. \A t \in db'["tramites"] :
            t.id \in db'["partes"] /\ \E d \in db'["detalles"] : d.tramite = t.id
    BY <1>3, <1>4 DEF ImportInv, DataInv, AllOrNothing
  <2>3. \A d \in db'["detalles"] :
            /\ d.empresa # Nil => \E e \in db'["empresas"] : e.id = d.empresa
            /\ d.presentante # Nil => \E e \in db'["presentantes"] : e.id = d.presentante
    BY <1>3, <1>4 DEF ImportInv, DataInv, AllOrNothing
  <2>4. OneOfAName'
    BY <1>1, <1>3 DEF ImportInv, DataInv, OneOfAName, Late
  <2> QED BY <2>1, <2>2, <2>3, <2>4 DEF DataInv, AllOrNothing, AnsweredRows
<1>10. PullInv'
  <2>1. /\ \A t \in db'["tramites"] : t.stamp <= clock'
        /\ cursor' <= clock' /\ ~(row.stamp <= cursor')
    <3>1. clock' <= clock' /\ cursor' = cursor /\ cursor <= clock' /\ ~(clock' <= cursor)
      BY <1>1, <1>t
    <3>2. \A t \in db["tramites"] : t.stamp <= clock'
      BY <1>1, <1>t
    <3> QED BY <1>3, <1>4, <3>1, <3>2
  <2>2. \A t \in pulled' : t \in db'["tramites"] /\ t.stamp <= cursor'
    BY <1>1, <1>3 DEF ImportInv, PullInv
  <2>3. \A t \in db'["tramites"] : t.clean /\ ~Late(t.id) /\ t.stamp <= cursor' => t \in pulled'
    BY <1>1, <1>3, <2>1 DEF ImportInv, PullInv, NothingIsSkipped
  <2>4. \A i : Late(i)' = Late(i)
    BY <1>1 DEF Late
  <2> QED BY <2>1, <2>2, <2>3, <2>4 DEF PullInv, NothingIsSkipped
<1> QED BY <1>6, <1>7, <1>8, <1>9, <1>10 DEF ImportInv

\* A restart ends the uploads of its process, and no other.
LEMMA CrashKeeps ==
    ASSUME ImportInv, NEW p \in Process, Crash(p)
    PROVE  ImportInv'
<1> DEFINE Hit(m) == Running(m) /\ job[m].at = p
<1>0. PICK l : l = [Idle EXCEPT !.pc = "lost", !.at = p]
  OBVIOUS
<1>1. /\ importing' = [importing EXCEPT ![p] = FALSE]
      /\ job' = [m \in Import |-> IF Hit(m) THEN l ELSE job[m]]
      /\ pulling' = (pulling /\ Home # p)
      /\ UNCHANGED <<db, catalogs, clock, cursor, pulled, commits>>
  BY <1>0 DEF Crash
<1>2. /\ l \in Job /\ l.pc = "lost" /\ l.tx = NoRows /\ Counted(l)
  <2>1. PICK j \in Job : j = Idle
    BY IdleTyped
  <2>2. j.i = 1 /\ j.imported = 0 /\ j.errors = 0 /\ j.tx = NoRows /\ j.rows = << >>
    BY <2>1 DEF Idle
  <2>3. l = [j EXCEPT !.pc = "lost", !.at = p]
    BY <1>0, <2>1
  <2>4. /\ l \in Job /\ l.pc = "lost" /\ l.tx = NoRows /\ l.i = 1 /\ l.imported = 0
        /\ l.errors = 0 /\ l.rows = << >>
    BY <2>2, <2>3 DEF Job, Ended
  <2> QED BY <2>4 DEF Counted, InRow
<1>3. /\ \A m \in Import : Hit(m) => job'[m] = l /\ ~Running(m)'
      /\ \A m \in Import : ~Hit(m) => job'[m] = job[m] /\ Running(m)' = Running(m)
  BY <1>1, <1>2 DEF Running
<1>l. LateStays
  BY <1>3 DEF LateStays, Late, Running
<1>4. Typed'
  <2>1. job' \in [Import -> Job]
    BY <1>1, <1>2 DEF ImportInv, Typed
  <2>2. importing' \in [Process -> BOOLEAN] /\ pulling' \in BOOLEAN
    BY <1>1 DEF ImportInv, Typed
  <2> QED BY <1>1, <2>1, <2>2 DEF ImportInv, Typed
<1>5. FlagIsLock'
  <2>1. importing'[p] = FALSE /\ \A q \in Process \ {p} : importing'[q] = importing[q]
    BY <1>1 DEF ImportInv, Typed
  <2>2. \A m \in Import : Running(m)' => Running(m) /\ job[m].at # p /\ job'[m] = job[m]
    BY <1>3
  <2>3. \A m \in Import : Running(m) /\ job[m].at # p => Running(m)' /\ job'[m] = job[m]
    BY <1>3
  <2>4. ~(\E m \in Import : Running(m) /\ job[m].at = p)'
    BY <2>2
  <2>5. \A q \in Process \ {p} :
            (\E m \in Import : Running(m) /\ job[m].at = q)'
                = (\E m \in Import : Running(m) /\ job[m].at = q)
    BY <2>2, <2>3
  <2>6. \A q \in Process \ {p} :
            (importing[q] = (\E m \in Import : Running(m) /\ job[m].at = q))'
    BY <2>1, <2>5 DEF ImportInv, FlagIsLock
  <2>7. (importing[p] = (\E m \in Import : Running(m) /\ job[m].at = p))'
    BY <2>1, <2>4
  <2>8. \A m \in Import : (Running(m) => job[m].at \in Process)'
    BY <2>2 DEF ImportInv, FlagIsLock
  <2>9. \A m, n \in Import : (Running(m) /\ Running(n) /\ job[m].at = job[n].at => m = n)'
    BY <2>2 DEF ImportInv, FlagIsLock
  <2> QED BY <2>6, <2>7, <2>8, <2>9 DEF FlagIsLock
<1> HIDE DEF Hit
<1>6. \A m \in Import : Stored(m)' = Stored(m)
  BY <1>1 DEF Stored
<1>7. JobInv'
  <2> SUFFICES ASSUME NEW m \in Import
               PROVE  /\ Counted(job[m])'
                      /\ Running(m)' => WhileRunning(m, job[m])'
                      /\ job'[m].pc = "sent" => Pending(m, job[m])'
                      /\ job'[m].pc \notin Decided => (Stored(m) = {})'
    BY DEF JobInv
  <2>1. CASE Hit(m)
    <3>1. job'[m] = l /\ ~Running(m)'
      BY <1>3, <2>1
    <3>2. Stored(m)' = {}
      BY <1>6, <2>1 DEF Hit, ImportInv, JobInv, Running, Decided
    <3> QED BY <1>2, <3>1, <3>2 DEF Counted
  <2>2. CASE ~Hit(m)
    <3>1. PICK j \in Job : j = job[m]
      BY DEF ImportInv, Typed
    <3>2. job'[m] = j /\ Running(m)' = Running(m)
      BY <1>3, <2>2, <3>1
    <3>3. Running(m) => WhileRunning(m, j)
      BY <3>1 DEF ImportInv, JobInv
    <3>4. Running(m) => OneName(j)'
      BY <1>1, <1>l, <3>3, OneNameStays DEF WhileRunning
    <3>5. clock \in Nat /\ clock' = clock /\ clock' >= clock /\ (pulling' => pulling)
      BY <1>1 DEF ImportInv, Typed
    <3>6. Running(m) => WhileRunning(m, j)'
      BY <1>1, <3>3, <3>4, <3>5, StaysWell
    <3>7. Running(m) => WhileRunning(m, job[m])'
      BY <3>2, <3>6 DEF WhileRunning, Faultless, Done, Whole, Ready, Refers, OneName,
                        There, Seen, Ahead, Own
    <3>8. j.pc = "sent" => Pending(m, j)'
      <4>1. j.pc = "sent" => Pending(m, j)
        BY <3>1 DEF ImportInv, JobInv
      <4> QED BY <1>1, <3>5, <4>1, StaysPending
    <3>9. job'[m].pc = "sent" => Pending(m, job[m])'
      BY <3>2, <3>8 DEF Pending, Done, Whole, Ready, Refers, There, Seen, Own
    <3> QED BY <1>6, <3>1, <3>2, <3>7, <3>9 DEF ImportInv, JobInv, Counted
  <2> QED BY <2>1, <2>2
<1>8. DataInv'
  <2>1. \A m \in Import : job'[m].pc = "answered" => job'[m] = job[m]
    BY <1>2, <1>3
  <2>2. \A m \in Import : AnsweredRows(m)'
    BY <1>6, <2>1, AnsweredHolds, AnsweredStay
  <2>3. db' = db
    BY <1>1
  <2>4. OneOfAName'
    BY <1>l, <2>3 DEF ImportInv, DataInv, OneOfAName, LateStays
  <2> QED BY <2>2, <2>3, <2>4 DEF ImportInv, DataInv, AllOrNothing, AnsweredRows
<1>9. PullInv'
  BY <1>1, <1>l DEF ImportInv, PullInv, NothingIsSkipped, LateStays
<1> QED BY <1>4, <1>5, <1>7, <1>8, <1>9 DEF ImportInv

-----------------------------------------------------------------------------
(* The COMMIT *)

\* What is true of the rows of an upload that is about to commit them.
LEMMA ReadyToCommit ==
    ASSUME ImportInv, NEW m \in Import, NEW j \in Job, j = job[m], j.pc = "commit"
    PROVE  /\ Running(m) /\ WhileRunning(m, j) /\ Counted(j) /\ Stored(m) = {}
           /\ j.pc \notin After
           /\ Ready(j) = {k \in DOMAIN j.rows : j.rows[k] # Nil}
           /\ j.errors # 0 /\ ~j.aborted => j.tx["tramites"] = {}
           /\ j.aborted => j.errors # 0
<1>1. Running(m) /\ j.pc \notin After
  BY DEF Running, After
<1>2. WhileRunning(m, j) /\ Counted(j) /\ Stored(m) = {}
  BY <1>1 DEF ImportInv, JobInv, Decided
<1>3. Ready(j) = {k \in DOMAIN j.rows : j.rows[k] # Nil}
  <2>1. j.i \in Nat /\ DOMAIN j.rows = 1 .. Len(j.rows) /\ Len(j.rows) \in Nat
    BY JobTyped
  <2>2. \A k \in DOMAIN j.rows : k >= j.i => j.rows[k] = Nil
    BY <1>2 DEF Counted
  <2> QED BY <1>1, <2>1, <2>2 DEF Ready
<1>4. /\ j.errors # 0 /\ ~j.aborted => j.tx["tramites"] = {}
      /\ j.aborted => j.errors # 0
  BY <1>2 DEF WhileRunning, Faultless
<1> QED BY <1>1, <1>2, <1>3, <1>4

\* As many tramites as rows, if there was no error.
LEMMA OneEach ==
    ASSUME NEW m \in Import, NEW j \in Job, Done(m, j), j.errors = 0
    PROVE  Cardinality(j.tx["tramites"]) = Cardinality(Ready(j))
<1> DEFINE T == j.tx["tramites"]
           R == Ready(j)
           g(k) == CHOOSE t \in T : t.id = <<m, k>>
           f == [k \in R |-> g(k)]
<1>1. IsFiniteSet(R)
  <2>1. R \subseteq 1 .. Len(j.rows) /\ Len(j.rows) \in Nat
    BY JobTyped DEF Ready
  <2>2. IsFiniteSet(1 .. Len(j.rows))
    BY <2>1, FS_Interval
  <2> QED BY <2>1, <2>2, FS_Subset
<1>2. /\ \A t \in T : \E k \in R : t.id = <<m, k>>
      /\ \A t, u \in T : t.id = u.id => t = u
      /\ \A k \in R : \E t \in T : t.id = <<m, k>>
  BY DEF Done
<1> HIDE DEF T, R
<1>3. \A k \in R : g(k) \in T /\ g(k).id = <<m, k>>
  BY <1>2
<1> HIDE DEF g
<1>4. f \in Bijection(R, T)
  <2>1. f \in [R -> T] /\ \A k \in R : f[k] = g(k)
    BY <1>3
  <2>2. \A k, l \in R : f[k] = f[l] => k = l
    BY <1>3, <2>1
  <2>3. \A t \in T : \E k \in R : f[k] = t
    <3> SUFFICES ASSUME NEW t \in T PROVE \E k \in R : f[k] = t
      OBVIOUS
    <3>1. PICK k \in R : t.id = <<m, k>>
      BY <1>2
    <3> QED BY <1>2, <1>3, <2>1, <3>1
  <2> HIDE DEF f
  <2> QED BY <2>1, <2>2, <2>3, Fun_IsBij
<1>5. ExistsBijection(R, T)
  BY <1>4 DEF ExistsBijection
<1>6. IsFiniteSet(T) /\ Cardinality(T) = Cardinality(R)
  BY <1>1, <1>5, FS_Bijection
<1> QED BY <1>6 DEF T, R

\* What becomes of the tables when the rows of an upload are stored.
Fits(m) ==
    /\ \A x \in Import \ {m} : Stored(x)' = Stored(x)
    /\ \A t \in db'["tramites"] :
        t.id \in db'["partes"] /\ \E d \in db'["detalles"] : d.tramite = t.id
    /\ \A d \in db'["detalles"] :
        /\ d.empresa # Nil => \E e \in db'["empresas"] : e.id = d.empresa
        /\ d.presentante # Nil => \E e \in db'["presentantes"] : e.id = d.presentante

LEMMA RowsStored ==
    ASSUME ImportInv, NEW m \in Import, NEW j \in Job, j = job[m], ~j.aborted, j.pc \notin After,
           Done(m, j), Whole(m, j), Refers(j),
           db' = [t \in Tables |-> db[t] \cup j.tx[t]]
    PROVE  /\ db' \in Schema
           /\ \A t \in Tables : db'[t] = db[t] \cup j.tx[t]
           /\ Stored(m)' = Stored(m) \cup j.tx["tramites"]
           /\ Fits(m)
<1>2. \A t \in Tables : db'[t] = db[t] \cup j.tx[t]
  OBVIOUS
<1>3. /\ db'["tramites"] = db["tramites"] \cup j.tx["tramites"]
      /\ db'["partes"] = db["partes"] \cup j.tx["partes"]
      /\ db'["detalles"] = db["detalles"] \cup j.tx["detalles"]
      /\ db'["empresas"] = db["empresas"] \cup j.tx["empresas"]
      /\ db'["presentantes"] = db["presentantes"] \cup j.tx["presentantes"]
  BY <1>2 DEF Tables
<1>4. db' \in Schema
  <2>1. db \in Schema /\ j.tx \in Schema
    BY JobTyped DEF ImportInv, Typed
  <2>2. db' \in [Tables -> SUBSET (Key \cup Tramite \cup Entity \cup Detalle)]
    BY <2>1 DEF Schema
  <2> QED BY <1>3, <2>1, <2>2 DEF Schema
<1>5. \A t \in j.tx["tramites"] : t.id[1] = m
  BY DEF Done
<1>6. Stored(m)' = Stored(m) \cup j.tx["tramites"] /\ \A x \in Import \ {m} : Stored(x)' = Stored(x)
  BY <1>3, <1>5 DEF Stored
<1>7. \A t \in db'["tramites"] :
          t.id \in db'["partes"] /\ \E d \in db'["detalles"] : d.tramite = t.id
  <2>1. \A t \in j.tx["tramites"] :
            t.id \in j.tx["partes"] /\ \E d \in j.tx["detalles"] : d.tramite = t.id
    BY DEF Whole
  <2> QED BY <1>3, <2>1 DEF ImportInv, DataInv, AllOrNothing
<1>8. \A d \in db'["detalles"] :
          /\ d.empresa # Nil => \E e \in db'["empresas"] : e.id = d.empresa
          /\ d.presentante # Nil => \E e \in db'["presentantes"] : e.id = d.presentante
  <2>1. Seen(j, "empresas") = db'["empresas"] /\ Seen(j, "presentantes") = db'["presentantes"]
    BY <1>3 DEF Seen
  <2>2. \A d \in j.tx["detalles"] :
            /\ d.empresa # Nil => \E e \in db'["empresas"] : e.id = d.empresa
            /\ d.presentante # Nil => \E e \in db'["presentantes"] : e.id = d.presentante
    BY <2>1 DEF Refers, There
  <2>3. \A d \in db["detalles"] :
            /\ d.empresa # Nil => \E e \in db["empresas"] : e.id = d.empresa
            /\ d.presentante # Nil => \E e \in db["presentantes"] : e.id = d.presentante
    BY DEF ImportInv, DataInv, AllOrNothing
  <2> QED BY <1>3, <2>2, <2>3
<1> QED BY <1>2, <1>4, <1>6, <1>7, <1>8 DEF Fits

\* No two entries of a name are stored by the COMMIT of a running import, and the others
\* see what was stored, whose entries are those of another process.
LEMMA OneNameStored ==
    ASSUME ImportInv, NEW m \in Import, NEW j \in Job, j = job[m], j.pc = "commit", ~j.aborted,
           db' = [t \in Tables |-> db[t] \cup j.tx[t]], LateStays
    PROVE  OneOfAName'
<1>1. OneName(j)
  BY ReadyToCommit DEF WhileRunning
<1>2. \A table \in {"empresas", "presentantes"} : db'[table] = Seen(j, table)
  BY DEF Seen, Tables
<1> QED BY <1>1, <1>2 DEF OneName, OneOfAName, LateStays

LEMMA OthersSee ==
    ASSUME ImportInv, NEW m \in Import, NEW j \in Job, j = job[m], j.pc = "commit", ~j.aborted,
           db' = [t \in Tables |-> db[t] \cup j.tx[t]], LateStays,
           NEW x \in Import \ {m}, NEW k \in Job, k = job[x], Running(x)
    PROVE  OneName(k)'
<1>1. OneName(j) /\ OneName(k) /\ j.at # k.at
  BY ReadyToCommit DEF ImportInv, JobInv, WhileRunning, FlagIsLock
<1> SUFFICES ASSUME NEW table \in {"empresas", "presentantes"}
             PROVE  /\ \A e \in k.tx[table] : e.at = k.at
                    /\ \A e, f \in Seen(k, table)' :
                          e.name = f.name /\ e.at = f.at /\ ~Late(e.id)' /\ ~Late(f.id)' => e = f
  BY DEF OneName
<1>2. Seen(k, table)' = db[table] \cup j.tx[table] \cup k.tx[table]
  BY DEF Seen, Tables
<1>3. /\ \A e \in j.tx[table] : e.at = j.at
      /\ \A e \in k.tx[table] : e.at = k.at
      /\ \A e, f \in db[table] \cup j.tx[table] :
            e.name = f.name /\ e.at = f.at /\ ~Late(e.id) /\ ~Late(f.id) => e = f
      /\ \A e, f \in db[table] \cup k.tx[table] :
            e.name = f.name /\ e.at = f.at /\ ~Late(e.id) /\ ~Late(f.id) => e = f
  BY <1>1 DEF OneName, Seen
<1>4. \A e : ~Late(e.id)' => ~Late(e.id)
  BY DEF LateStays
<1> HIDE DEF LateStays
<1> QED BY <1>1, <1>2, <1>3, <1>4

\* What is true of the other uploads while one stores its rows, and of a pending one.
LEMMA OthersStay ==
    ASSUME ImportInv, NEW m \in Import, NEW e, job' = [job EXCEPT ![m] = e],
           UNCHANGED <<catalogs, clock, pulling, cursor>>,
           \A t \in Tables : db[t] \subseteq db'[t],
           \A x \in Import \ {m} : Stored(x)' = Stored(x),
           \A x \in Import \ {m}, k \in Job : k = job[x] /\ Running(x) => OneName(k)',
           NEW x \in Import \ {m}
    PROVE  /\ Counted(job[x])'
           /\ Running(x)' => WhileRunning(x, job[x])'
           /\ job'[x].pc = "sent" => Pending(x, job[x])'
           /\ job'[x].pc \notin Decided => (Stored(x) = {})'
<1>1. PICK k \in Job : k = job[x]
  BY DEF ImportInv, Typed
<1>2. job'[x] = k /\ Running(x)' = Running(x)
  BY <1>1 DEF ImportInv, Typed, Running
<1>3. Running(x) => WhileRunning(x, k)
  BY <1>1 DEF ImportInv, JobInv
<1>4. Running(x) => OneName(k)'
  BY <1>1
<1>5. clock \in Nat /\ clock' \in Nat /\ clock' >= clock
  BY DEF ImportInv, Typed
<1>6. \A table \in {"empresas", "presentantes"} : db[table] \subseteq db'[table]
  BY DEF Tables
<1>7. Running(x) => WhileRunning(x, k)'
  BY <1>3, <1>4, <1>5, <1>6, StaysWell
<1>8. Running(x) => WhileRunning(x, job[x])'
  BY <1>2, <1>7 DEF WhileRunning, Faultless, Done, Whole, Ready, Refers, OneName,
                    There, Seen, Ahead, Own
<1>9. k.pc = "sent" => Pending(x, k)'
  <2>1. k.pc = "sent" => Pending(x, k)
    BY <1>1 DEF ImportInv, JobInv
  <2> QED BY <1>5, <1>6, <2>1, StaysPending
<1>10. job'[x].pc = "sent" => Pending(x, job[x])'
  BY <1>2, <1>9 DEF Pending, Done, Whole, Ready, Refers, There, Seen, Own
<1> QED BY <1>1, <1>2, <1>8, <1>10 DEF ImportInv, JobInv, Counted

\* All rows that are not blank are stored, or no tramite is.
LEMMA StoringKeeps ==
    ASSUME ImportInv, NEW m \in Import, NEW l \in {"answered", "error"}, NEW reply,
           At(m, "commit"), Stores(m), Ends(m, l), Release(m, reply),
           UNCHANGED <<catalogs, clock, pulling, cursor, pulled, commits>>
    PROVE  ImportInv'
<1>0. /\ At(m, "commit") /\ Release(m, reply) /\ l \in Ended /\ l \in Decided /\ l # "sent"
      /\ db' = IF job[m].aborted THEN db ELSE [t \in Tables |-> db[t] \cup job[m].tx[t]]
      /\ UNCHANGED <<catalogs, clock, pulling, cursor, pulled, commits>>
  BY DEF Stores, Ended, Decided
<1>j. PICK j \in Job : j = job[m]
  BY DEF ImportInv, Typed
<1>1. j.pc = "commit" /\ Running(m)
  BY <1>0, <1>j DEF At, Running
<1>2. PICK e \in Job :
        /\ job' = [job EXCEPT ![m] = e] /\ e.pc = l /\ e.tx = NoRows /\ Counted(e)
        /\ SameUpload(j, e) /\ e.errors = j.errors
  BY <1>0, <1>j, EndEffect
<1>3. job' \in [Import -> Job] /\ job'[m] = e /\ ~Running(m)'
      /\ \A x \in Import \ {m} : job'[x] = job[x] /\ Running(x)' = Running(x)
  BY <1>2 DEF ImportInv, Typed, Running
<1>l. LateStays
  BY <1>j, <1>1, <1>2, LateKeeps DEF ImportInv, Typed
<1>4. /\ WhileRunning(m, j) /\ Ready(j) = {k \in DOMAIN j.rows : j.rows[k] # Nil}
      /\ Stored(m) = {}
      /\ j.errors # 0 /\ ~j.aborted => j.tx["tramites"] = {}
      /\ j.aborted => j.errors # 0
  BY <1>j, <1>1, ReadyToCommit
<1>e. Cardinality({}) = 0
  BY FS_EmptySet
<1>5. FlagIsLock'
  BY <1>0, <1>1, <1>2, ReleaseFrees DEF Ended
<1>6. /\ db' \in Schema /\ \A t \in Tables : db[t] \subseteq db'[t]
      /\ \A x \in Import \ {m} : Stored(x)' = Stored(x)
      /\ Cardinality(Stored(m)') = IF j.errors # 0 THEN 0 ELSE Cardinality(Ready(j))
      /\ \A t \in db'["tramites"] :
            t.id \in db'["partes"] /\ \E d \in db'["detalles"] : d.tramite = t.id
      /\ \A d \in db'["detalles"] :
            /\ d.empresa # Nil => \E f \in db'["empresas"] : f.id = d.empresa
            /\ d.presentante # Nil => \E f \in db'["presentantes"] : f.id = d.presentante
      /\ OneOfAName'
      /\ \A x \in Import \ {m}, k \in Job : k = job[x] /\ Running(x) => OneName(k)'
      /\ db'["tramites"] \subseteq db["tramites"] \cup j.tx["tramites"]
  <2>1. CASE j.aborted
    <3>1. db' = db
      BY <1>0, <1>j, <2>1
    <3>2. \A x \in Import : Stored(x)' = Stored(x)
      BY <3>1 DEF Stored
    <3>3. Cardinality(Stored(m)') = IF j.errors # 0 THEN 0 ELSE Cardinality(Ready(j))
      BY <1>e, <1>4, <2>1, <3>2
    <3>4. \A x \in Import \ {m}, k \in Job : k = job[x] /\ Running(x) => OneName(k)'
      BY <1>l, <3>1, OneNameStays DEF ImportInv, JobInv, WhileRunning
    <3>5. OneOfAName' /\ db' \in Schema
      BY <1>l, <3>1 DEF ImportInv, Typed, DataInv, OneOfAName, LateStays
    <3> QED BY <3>1, <3>2, <3>3, <3>4, <3>5 DEF ImportInv, DataInv, AllOrNothing
  <2>2. CASE ~j.aborted
    <3>1. db' = [t \in Tables |-> db[t] \cup j.tx[t]]
      BY <1>0, <1>j, <2>2
    <3>s. /\ db' \in Schema /\ Stored(m)' = Stored(m) \cup j.tx["tramites"] /\ Fits(m)
      <4>1. j.pc \notin After /\ Done(m, j) /\ Whole(m, j) /\ Refers(j)
        BY <1>1, <1>4 DEF WhileRunning, After
      <4> QED BY <1>j, <2>2, <3>1, <4>1, RowsStored
    <3>2. Stored(m)' = j.tx["tramites"]
      BY <1>4, <3>s
    <3>3. Cardinality(Stored(m)') = IF j.errors # 0 THEN 0 ELSE Cardinality(Ready(j))
      <4>1. CASE j.errors = 0
        BY <1>4, <3>2, <4>1, OneEach DEF WhileRunning
      <4>2. CASE j.errors # 0
        BY <1>e, <1>4, <2>2, <3>2, <4>2
      <4> QED BY <4>1, <4>2
    <3>4. \A x \in Import \ {m}, k \in Job : k = job[x] /\ Running(x) => OneName(k)'
      BY <1>j, <1>l, <1>1, <2>2, <3>1, OthersSee
    <3>5. /\ \A t \in Tables : db[t] \subseteq db'[t]
          /\ db'["tramites"] = db["tramites"] \cup j.tx["tramites"]
      BY <3>1 DEF Tables
    <3>6. OneOfAName'
      BY <1>j, <1>l, <1>1, <2>2, <3>1, OneNameStored
    <3> QED BY <3>s, <3>3, <3>4, <3>5, <3>6 DEF Fits
  <2> QED BY <2>1, <2>2
<1>7. Typed'
  <2>1. importing' \in [Process -> BOOLEAN]
    BY <1>0 DEF Release, ImportInv, Typed
  <2> QED BY <1>0, <1>3, <1>6, <2>1 DEF ImportInv, Typed
<1>8. JobInv'
  <2> SUFFICES ASSUME NEW x \in Import
               PROVE  /\ Counted(job[x])'
                      /\ Running(x)' => WhileRunning(x, job[x])'
                      /\ job'[x].pc = "sent" => Pending(x, job[x])'
                      /\ job'[x].pc \notin Decided => (Stored(x) = {})'
    BY DEF JobInv
  <2>1. CASE x = m
    BY <1>0, <1>2, <1>3, <2>1 DEF Counted
  <2>2. CASE x # m
    BY <1>0, <1>2, <1>6, <2>2, OthersStay
  <2> QED BY <2>1, <2>2
<1>9. DataInv'
  <2>1. \A x \in Import : AnsweredRows(x)'
    <3> SUFFICES ASSUME NEW x \in Import
                 PROVE  AnsweredRows(x)'
      OBVIOUS
    <3>1. CASE x = m
      <4>1. job'[m] = e /\ e.errors = j.errors /\ e.rows = j.rows
        BY <1>2, <1>3 DEF SameUpload
      <4>2. Cardinality(Stored(m)') =
              IF j.errors # 0 THEN 0
              ELSE Cardinality({k \in DOMAIN j.rows : j.rows[k] # Nil})
        BY <1>4, <1>6
      <4> QED BY <3>1, <4>1, <4>2 DEF AnsweredRows
    <3>2. CASE x # m
      BY <1>3, <1>6, <3>2, AnsweredHolds, AnsweredStay
    <3> QED BY <3>1, <3>2
  <2> QED BY <1>6, <2>1 DEF DataInv, AllOrNothing, AnsweredRows
<1>10. PullInv'
  <2>1. /\ \A t \in j.tx["tramites"] : t.stamp <= clock
        /\ \A t \in j.tx["tramites"] : t.clean => t.stamp > cursor /\ ~(t.stamp <= cursor)
    <3>1. cursor \in Nat /\ \A t \in j.tx["tramites"] : t.stamp \in Nat
      BY JobTyped DEF Tramite, ImportInv, Typed
    <3> QED BY <1>4, <3>1 DEF WhileRunning, Ahead
  <2>2. db["tramites"] \subseteq db'["tramites"]
    BY <1>6 DEF Tables
  <2>3. clock' = clock /\ cursor' = cursor /\ pulled' = pulled
    BY <1>0
  <2>4. NothingIsSkipped'
    BY <1>l, <1>6, <2>1, <2>3 DEF ImportInv, PullInv, NothingIsSkipped, LateStays
  <2>5. \A t \in db'["tramites"] : t.stamp <= clock'
    BY <1>6, <2>1, <2>3 DEF ImportInv, PullInv
  <2> QED BY <2>2, <2>3, <2>4, <2>5 DEF ImportInv, PullInv
<1> QED BY <1>5, <1>7, <1>8, <1>9, <1>10 DEF ImportInv

LEMMA CommitKeeps ==
    ASSUME ImportInv, NEW m \in Import, Commit(m)
    PROVE  ImportInv'
BY StoringKeeps DEF Commit

\* The COMMIT throws: the rows are stored by then, or never will be, or may be still.
LEMMA CommitFailsKeeps ==
    ASSUME ImportInv, NEW m \in Import, CommitFails(m)
    PROVE  ImportInv'
<1>0. /\ At(m, "commit") /\ Release(m, "error")
      /\ UNCHANGED <<catalogs, clock, pulling, cursor, pulled, commits>>
  BY DEF CommitFails
<1>1. /\ job[m].pc = "commit" /\ Running(m) /\ job[m].pc \notin Decided
      /\ clock' \in Nat /\ clock' >= clock /\ importing' \in [Process -> BOOLEAN]
  <2>1. job[m].pc = "commit" /\ Running(m) /\ job[m].pc \notin Decided
    BY <1>0 DEF At, Running, Decided
  <2>2. clock' \in Nat /\ clock' >= clock
    BY <1>0 DEF ImportInv, Typed
  <2>3. importing' \in [Process -> BOOLEAN]
    BY <1>0 DEF Release, ImportInv, Typed
  <2> QED BY <2>1, <2>2, <2>3
<1>2. CASE Stores(m) /\ Ends(m, "error")
  BY <1>0, <1>2, StoringKeeps
<1>3. CASE UNCHANGED db /\ Ends(m, "error")
  <2>1. PICK e \in Job : job' = [job EXCEPT ![m] = e] /\ e.pc = "error" /\ Counted(e)
    BY <1>3, EndEffect DEF Ended
  <2>2. e.pc \in Ended /\ e.pc # "answered" /\ e.pc # "sent"
    BY <2>1 DEF Ended
  <2>3. FlagIsLock'
    BY <1>0, <1>1, <2>1, <2>2, ReleaseFrees
  <2>4. Typed' /\ JobInv' /\ DataInv' /\ PullInv'
    BY <1>0, <1>1, <1>3, <2>1, <2>2, UploadKeeps
  <2> QED BY <2>3, <2>4 DEF ImportInv
<1>4. CASE UNCHANGED db /\ Goto(m, "sent", job[m])
  <2>1. PICK j \in Job : j = job[m]
    BY DEF ImportInv, Typed
  <2>2. PICK e : e = [j EXCEPT !.pc = "sent"]
    OBVIOUS
  <2>3. job' = [job EXCEPT ![m] = e]
    BY <1>4, <2>1, <2>2 DEF Goto
  <2>4. /\ e \in Job /\ SameUpload(j, e) /\ e.pc = "sent" /\ e.aborted = j.aborted
        /\ e.tx = j.tx /\ e.i = j.i /\ e.now = j.now /\ e.errors = j.errors
        /\ e.imported = j.imported /\ e.empresa = j.empresa /\ e.presentante = j.presentante
    BY <2>1, <2>2, PcEffect DEF Labels, Ended
  <2>5. Counted(j) /\ WhileRunning(m, j) /\ j.pc \notin After
    BY <1>1, <2>1, ReadyToCommit
  <2>6. Counted(e) /\ e.pc \in Ended /\ e.pc # "answered"
    BY <2>4, <2>5 DEF Counted, SameUpload, InRow, Ended
  <2>7. Ready(e) = Ready(j)
    BY <2>4, <2>5 DEF Ready, SameUpload, After
  <2>8. Pending(m, e)
    <3>1. Done(m, e) /\ Whole(m, e)
      BY <2>4, <2>5, <2>7 DEF WhileRunning, Done, Whole
    <3>2. Refers(e) /\ Own(m, e)
      BY <2>4, <2>5 DEF WhileRunning, Refers, There, Seen, Own
    <3> QED BY <2>4, <2>5, <3>1, <3>2 DEF WhileRunning, Ahead, Pending
  <2>9. FlagIsLock'
    BY <1>0, <1>1, <2>3, <2>6, ReleaseFrees
  <2>10. Typed' /\ JobInv' /\ DataInv' /\ PullInv'
    BY <1>0, <1>1, <1>4, <2>3, <2>4, <2>6, <2>8, UploadKeeps
  <2> QED BY <2>9, <2>10 DEF ImportInv
<1> QED BY <1>2, <1>3, <1>4 DEF CommitFails

\* A transaction nobody waits for commits: its rows fit together, and those the properties
\* speak of are not among them.
LEMMA CommitLateKeeps ==
    ASSUME ImportInv, NEW m \in Import, CommitLate(m)
    PROVE  ImportInv'
<1>0. /\ At(m, "sent")
      /\ UNCHANGED <<importing, catalogs, clock, pulling, cursor, pulled, commits>>
  BY DEF CommitLate
<1>j. PICK j \in Job : j = job[m]
  BY DEF ImportInv, Typed
<1>1. /\ j.pc = "sent" /\ ~Running(m) /\ job[m].pc \notin Decided /\ j.pc \notin After
      /\ clock' \in Nat /\ clock' >= clock /\ importing' \in [Process -> BOOLEAN]
  BY <1>0, <1>j DEF At, Running, Decided, After, ImportInv, Typed
<1>2. PICK e \in Job : /\ job' = [job EXCEPT ![m] = e] /\ Counted(e) /\ e.at = j.at
                       /\ \/ Stores(m) /\ e.pc = "late"
                          \/ UNCHANGED db /\ e.pc = "error"
  BY <1>j, EndEffect DEF CommitLate, Ended, SameUpload
<1>3. /\ job' \in [Import -> Job] /\ job'[m] = e /\ ~Running(m)'
      /\ e.pc \in Ended /\ e.pc # "answered" /\ e.pc # "sent" /\ e.pc \in Decided
      /\ \A x \in Import \ {m} : job'[x] = job[x] /\ Running(x)' = Running(x)
  BY <1>2 DEF ImportInv, Typed, Running, Ended, Decided
<1>l. LateStays
  BY <1>j, <1>1, <1>2, LateKeeps DEF ImportInv, Typed
<1>4. FlagIsLock'
  <2>1. Running(m)' = Running(m) /\ job'[m].at = job[m].at
    <3>1. Running(m) \in BOOLEAN /\ Running(m)' \in BOOLEAN
      BY DEF Running
    <3>2. job'[m].at = job[m].at
      BY <1>j, <1>2, <1>3
    <3> QED BY <1>1, <1>3, <3>1, <3>2
  <2>2. \A x \in Import \ {m} : Running(x)' = Running(x) /\ job'[x].at = job[x].at
    BY <1>3
  <2>3. \A x \in Import : Running(x)' = Running(x) /\ job'[x].at = job[x].at
    BY <2>1, <2>2
  <2> QED BY <1>0, <2>3, LockKeeps
<1>5. CASE UNCHANGED db
  <2>1. Typed' /\ JobInv' /\ DataInv' /\ PullInv'
    BY <1>0, <1>1, <1>2, <1>3, <1>5, UploadKeeps
  <2> QED BY <1>4, <2>1 DEF ImportInv
<1>6. CASE e.pc = "late" /\ ~j.aborted /\ db' = [t \in Tables |-> db[t] \cup j.tx[t]]
  <2>1. Pending(m, j)
    BY <1>j, <1>1 DEF ImportInv, JobInv
  <2>2. /\ db' \in Schema /\ \A t \in Tables : db'[t] = db[t] \cup j.tx[t]
        /\ Fits(m)
    <3>1. Done(m, j) /\ Whole(m, j) /\ Refers(j)
      BY <2>1 DEF Pending
    <3> QED BY <1>j, <1>1, <1>6, <3>1, RowsStored
  <2>3. /\ db'["tramites"] = db["tramites"] \cup j.tx["tramites"]
        /\ \A t \in {"empresas", "presentantes"} : db'[t] = db[t] \cup j.tx[t]
    BY <2>2 DEF Tables
  <2>4. \A id : id[1] = m => Late(id)'
    BY <1>3, <1>6 DEF Late
  <2>5. /\ \A t \in j.tx["tramites"] : Late(t.id)'
        /\ \A table \in {"empresas", "presentantes"} : \A x \in j.tx[table] : Late(x.id)'
    BY <2>1, <2>4 DEF Pending, Done, Own
  <2>6. \A x \in Import \ {m}, k \in Job : k = job[x] /\ Running(x) => OneName(k)'
    <3> SUFFICES ASSUME NEW x \in Import \ {m}, NEW k \in Job, k = job[x], Running(x)
                 PROVE  OneName(k)'
      OBVIOUS
    <3>1. OneName(k)
      BY DEF ImportInv, JobInv, WhileRunning
    <3>2. \A t \in {"empresas", "presentantes"} : Seen(k, t)' = Seen(k, t) \cup j.tx[t]
      BY <2>3 DEF Seen
    <3> QED BY <1>l, <2>5, <3>1, <3>2 DEF OneName, LateStays
  <2>7. Typed'
    BY <1>0, <1>1, <1>3, <2>2 DEF ImportInv, Typed
  <2>8. JobInv'
    <3> SUFFICES ASSUME NEW x \in Import
                 PROVE  /\ Counted(job[x])'
                        /\ Running(x)' => WhileRunning(x, job[x])'
                        /\ job'[x].pc = "sent" => Pending(x, job[x])'
                        /\ job'[x].pc \notin Decided => (Stored(x) = {})'
      BY DEF JobInv
    <3>1. CASE x = m
      BY <1>2, <1>3, <3>1 DEF Counted
    <3>2. CASE x # m
      <4>1. /\ \A t \in Tables : db[t] \subseteq db'[t]
            /\ \A y \in Import \ {m} : Stored(y)' = Stored(y)
        BY <2>2 DEF Fits
      <4> QED BY <1>0, <1>2, <2>6, <3>2, <4>1, OthersStay
    <3> QED BY <3>1, <3>2
  <2>9. DataInv'
    <3>1. \A x \in Import : AnsweredRows(x)'
      <4> SUFFICES ASSUME NEW x \in Import
                   PROVE  AnsweredRows(x)'
        OBVIOUS
      <4>1. CASE x = m
        BY <1>3, <4>1 DEF AnsweredRows
      <4>2. CASE x # m
        <5>1. Stored(x)' = Stored(x)
          BY <2>2, <4>2 DEF Fits
        <5> QED BY <1>3, <4>2, <5>1, AnsweredHolds, AnsweredStay
      <4> QED BY <4>1, <4>2
    <3>2. OneOfAName'
      BY <1>l, <2>3, <2>5 DEF ImportInv, DataInv, OneOfAName, LateStays
    <3> QED BY <2>2, <3>1, <3>2 DEF Fits, DataInv, AllOrNothing, AnsweredRows
  <2>10. PullInv'
    <3>1. \A t \in db'["tramites"] : t.stamp <= clock'
      BY <1>0, <2>1, <2>3 DEF Pending, ImportInv, PullInv
    <3>2. \A t \in pulled' : t \in db'["tramites"] /\ t.stamp <= cursor'
      BY <1>0, <2>3 DEF ImportInv, PullInv
    <3>3. NothingIsSkipped'
      BY <1>0, <1>l, <2>3, <2>5 DEF ImportInv, PullInv, NothingIsSkipped, LateStays
    <3> QED BY <1>0, <3>1, <3>2, <3>3 DEF ImportInv, PullInv
  <2> QED BY <1>4, <2>7, <2>8, <2>9, <2>10 DEF ImportInv
<1> QED BY <1>j, <1>2, <1>5, <1>6 DEF Stores

-----------------------------------------------------------------------------
(* The theorems *)

LEMMA ImportInit == Init => ImportInv
<1> SUFFICES ASSUME Init PROVE ImportInv
  OBVIOUS
<1>1. /\ importing = [p \in Process |-> FALSE] /\ job = [m \in Import |-> Idle] /\ db = NoRows
      /\ catalogs \in Catalogs /\ clock = 0 /\ pulling = FALSE /\ cursor = 0 /\ pulled = {}
      /\ commits = 0
  BY DEF Init
<1>2. \A m \in Import : job[m] = Idle /\ ~Running(m)
  BY <1>1 DEF Running, Idle
<1>3. \A t \in Tables : db[t] = {}
  BY <1>1, NoRowsTyped
<1>4. Idle.pc = "idle" /\ Idle.tx = NoRows
  BY DEF Idle
<1>5. Typed
  BY <1>1, NoRowsTyped, IdleTyped, CatalogsAssumption DEF Typed
<1>6. FlagIsLock
  BY <1>1, <1>2 DEF FlagIsLock
<1>7. JobInv
  BY <1>2, <1>3, <1>4, IdleTyped DEF JobInv, Stored, Tables
<1>8. DataInv /\ PullInv
  <2>1. \A m \in Import : job[m].pc # "answered"
    BY <1>2, <1>4
  <2>2. db["tramites"] = {} /\ db["detalles"] = {} /\ db["empresas"] = {} /\ db["presentantes"] = {}
    BY <1>3 DEF Tables
  <2> QED BY <1>1, <2>1, <2>2 DEF DataInv, AllOrNothing, OneOfAName, PullInv, NothingIsSkipped
<1> QED BY <1>5, <1>6, <1>7, <1>8 DEF ImportInv

LEMMA ImportNext == ImportInv /\ [Next]_vars => ImportInv'
<1> SUFFICES ASSUME ImportInv, [Next]_vars PROVE ImportInv'
  OBVIOUS
<1>1. CASE \E m \in Import, p \in Process, file \in Files : Upload(m, p, file)
  BY <1>1, UploadStarts
<1>2. CASE \E m \in Import : ImportStep(m)
  BY <1>2, RowStepsKeep, CommitKeeps, CommitFailsKeeps DEF ImportStep
<1>8. CASE \E m \in Import : CommitLate(m)
  BY <1>8, CommitLateKeeps
<1>3. CASE \E p \in Process : Crash(p)
  BY <1>3, CrashKeeps
<1>4. CASE PushCommit
  BY <1>4, PushCommitKeeps
<1>5. CASE PullCheck
  BY <1>5, PullCheckKeeps
<1>6. CASE PullQuery
  BY <1>6, PullQueryKeeps
<1>7. CASE UNCHANGED vars
  <2>1. UNCHANGED <<importing, job, db, catalogs, clock, pulling, cursor, pulled, commits>>
    BY <1>7 DEF vars
  <2>2. Typed'
    BY <2>1 DEF ImportInv, Typed
  <2>3. FlagIsLock'
    BY <2>1, LockKeeps DEF Running
  <2>4. JobInv'
    <3>1. clock' \in Nat /\ clock' >= clock
      BY <2>1 DEF ImportInv, Typed
    <3> QED BY <2>1, <3>1, JobsStay DEF Stored
  <2>5. DataInv' /\ PullInv'
    BY <2>1 DEF ImportInv, DataInv, AllOrNothing, OneOfAName, Stored, PullInv, NothingIsSkipped, Late
  <2> QED BY <2>2, <2>3, <2>4, <2>5 DEF ImportInv
<1> QED BY <1>1, <1>2, <1>3, <1>4, <1>5, <1>6, <1>7, <1>8 DEF Next

\* The invariant holds in every state of an import, its refusals, its failures and the
\* restarts of its process.
THEOREM ImportInvHolds == Spec => []ImportInv
<1> QED BY ImportInit, ImportNext, PTL DEF Spec

\* The flag of a process is set just while an import runs in it, and there are never two:
\* the finally that clears it and the check that reads it make it a lock.
THEOREM FlagHolds == Spec => []ImportTypeOK
<1>1. ImportInv => ImportTypeOK
  <2> SUFFICES ASSUME ImportInv PROVE ImportTypeOK
    OBVIOUS
  <2>1. \A m \in Import : job[m].imported + job[m].errors <= Len(job[m].rows)
    <3> SUFFICES ASSUME NEW m \in Import
                 PROVE  job[m].imported + job[m].errors <= Len(job[m].rows)
      OBVIOUS
    <3>1. job[m] \in Job /\ Counted(job[m])
      BY DEF ImportInv, Typed, JobInv
    <3> QED BY <3>1, JobTyped DEF Counted
  <2> QED BY <2>1 DEF ImportInv, FlagIsLock, PullInv, ImportTypeOK
<1> QED BY <1>1, ImportInvHolds, PTL

\* An import stores all its rows or no tramite, and nothing that refers to what is not
\* stored, in whatever order its process runs them with others, fails or restarts.
THEOREM ImportIsAllOrNothing == Spec => []AllOrNothing
<1>1. ImportInv => AllOrNothing
  BY DEF ImportInv, DataInv
<1> QED BY <1>1, ImportInvHolds, PTL

\* The imports of one process never make two entries of one name.
THEOREM NamesAreUnique == Spec => []OneOfAName
<1>1. ImportInv => OneOfAName
  BY DEF ImportInv, DataInv
<1> QED BY <1>1, ImportInvHolds, PTL

\* A client whose pulls the maintenance mode refused receives the rows of the import,
\* although their stamps are older than those of what was pushed meanwhile.
THEOREM MaintenanceModeWorks == Spec => []NothingIsSkipped
<1>1. ImportInv => NothingIsSkipped
  BY DEF ImportInv, PullInv
<1> QED BY <1>1, ImportInvHolds, PTL

=============================================================================

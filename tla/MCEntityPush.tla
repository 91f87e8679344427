---------------------------- MODULE MCEntityPush ----------------------------
(* Sessions for TLC: each entity by itself, and families of rows that refer to *)
(* each other.                                                                 *)
EXTENDS EntityPush, TLC

CONSTANTS one, two, id   \* two contents, and the id of every row

\* The columns that name another row.
Links == {"empresaGestoraId", "clienteId", "vehiculoId", "tramiteId", "representanteLegalId",
          "sucursalId", "usuarioId", "dispositivoId"}

Record(cols, content) ==
    [c \in cols |-> IF c \in Links THEN id ELSE IF c = "deletedAt" THEN Null ELSE content]

\* Every column; or what the DTO describes or requires, and createdAt if the table
\* needs it, which no DTO has.
Dates(e) == TableOf[e].needs \cap {"createdAt"}
Full(e, content)      == Record(Columns(e), content)
Described(e, content) == Record(DtoOf[e].must \cup DtoOf[e].may \cup Dates(e), content)
Least(e, content)     == Record(DtoOf[e].must \cup Dates(e), content)

Chunk(e, base, record) == [entity |-> e, id |-> id, base |-> base, record |-> record]

Stored(entities) ==
    {[entity |-> e, id |-> id, version |-> 1, row |-> Inserted(e, Least(e, one))] : e \in entities}

Session(waits, rows, jobs) == [waits |-> waits, rows |-> rows, jobs |-> jobs]

\* The rows that must be there before a row of e, or that health misses after it.
Around(e) ==
    CASE e = "representante_legal" -> {"empresa_gestora"}
      [] e = "tramite"             -> {"cliente", "vehiculo", "tramite_detalle"}
      [] e = "tramite_detalle"     -> {"cliente", "vehiculo", "tramite", "empresa_gestora",
                                       "representante_legal"}
      [] e = "usuario"             -> {"sucursal"}
      [] e = "dispositivo"         -> {"sucursal", "usuario"}
      [] OTHER                     -> {}

\* A user is created before the device it is bound to later.
Unbound(record) == [record EXCEPT !["dispositivoId"] = Null]

Shapes(e, content) ==
    {Least(e, content)} \cup
        {IF e = "usuario" THEN Unbound(record) ELSE record :
            record \in {Full(e, content), Described(e, content)}}

\* A row is pushed, and then changed, each time whole, as its DTO describes it or
\* with the least it needs.
OneByOne ==
    {Session(TRUE, Stored(Around(e)), << <<Chunk(e, 0, r)>>, <<Chunk(e, 1, s)>> >>) :
        <<e, r, s>> \in UNION {{e} \X Shapes(e, one) \X Shapes(e, two) : e \in Entity}}

S == Chunk("sucursal", 0, Full("sucursal", one))
U == Chunk("usuario", 0, Unbound(Full("usuario", one)))
D == Chunk("dispositivo", 0, Full("dispositivo", one))
B == Chunk("usuario", 1, Full("usuario", two))

\* A branch, a user and a device, the user bound to the device at last.
Access ==
    {Session(FALSE, {}, << <<S>>, <<U>>, <<D>> >>), Session(FALSE, {}, << <<U>>, <<S, D>> >>),
     Session(FALSE, {}, << <<D, S, U>> >>), Session(FALSE, {}, << <<S, U, D, B>> >>),
     Session(TRUE, {}, << <<S>>, <<U>>, <<D>>, <<B>> >>)}

C == Chunk("cliente", 0, Full("cliente", one))
V == Chunk("vehiculo", 0, Least("vehiculo", one))
E == Chunk("empresa_gestora", 0, Full("empresa_gestora", one))
R == Chunk("representante_legal", 0, Least("representante_legal", one))
T == Chunk("tramite", 0, Full("tramite", one))
Detail == Chunk("tramite_detalle", 0, Full("tramite_detalle", one))

\* A tramite with all that belongs to it.
Dossier ==
    {Session(FALSE, {}, << <<C>>, <<V>>, <<E>>, <<R>>, <<T>>, <<Detail>> >>),
     Session(FALSE, {}, << <<C, V, T, Detail>>, <<E>>, <<R>> >>),
     Session(FALSE, {}, << <<E, R>>, <<Detail, C, V>>, <<T>> >>),
     Session(TRUE, {}, << <<C, V>>, <<E>>, <<R>>, <<T, Detail>> >>)}

Deleted(chunk) == [chunk EXCEPT !.base = 1, !.record["deletedAt"] = two]

\* It is deleted, with its detail.
Deletion ==
    LET rows == Stored(Around("tramite_detalle") \cup {"tramite_detalle"})
    IN  {Session(FALSE, rows, << <<Deleted(T)>>, <<Deleted(Detail)>> >>),
         Session(FALSE, rows, << <<Deleted(Detail), Deleted(T)>>, <<Deleted(C)>> >>),
         Session(TRUE, rows, << <<Deleted(Detail)>>, <<Deleted(T)>> >>)}

MCSessions == OneByOne \cup Access \cup Dossier \cup Deletion

\* The hypotheses of the theorems hold of these sessions.
ASSUME ClientsAssumption ==
    TableColumns /\ RowsApart /\ BasedOnLast /\ WholeRecords /\ UniqueValues /\ EndsWhole
=============================================================================

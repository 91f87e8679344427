----------------------------- MODULE EntityRows -----------------------------
(***************************************************************************)
(* The tables of the synchronised entities, as their TypeORM classes declare  *)
(* them, the shapes of the records the DTO classes describe, and the INSERT   *)
(* ... ON CONFLICT (id) DO UPDATE of the adapters.                            *)
(*                                                                            *)
(* A table lists the columns that a rule tells apart (required, defaulted,    *)
(* unique, a reference, left alone by the upsert); "rest" stands for all its   *)
(* other columns, which are nullable, and "entregas" for the four booleans of  *)
(* a tramite.  id and the columns that the server fills in are left out.      *)
(***************************************************************************)
EXTENDS Naturals, FiniteSets

CONSTANTS
    Null,       \* SQL NULL
    Default     \* what the DEFAULT clause of a column yields

\* needs: NOT NULL without DEFAULT; defaults: NOT NULL DEFAULT; refs: foreign keys.
Table(needs, defaults, optional, unique, refs) ==
    [needs |-> needs, defaults |-> defaults \cup {"createdAt", "updatedAt"},
     optional |-> optional \cup {"deletedAt"}, unique |-> unique, refs |-> refs]

\* The entities of auth have no CreateDateColumn: the writer gives both dates.
TableWithoutDates(needs, defaults, optional, unique, refs) ==
    [Table(needs \cup {"createdAt", "updatedAt"}, defaults, optional, unique, refs)
        EXCEPT !.defaults = defaults]

Cliente == Table({"tipoDocumento"}, {}, {"rest"}, {}, {})

Vehiculo == Table({}, {}, {"rest"}, {}, {})

EmpresaGestora == Table({"razonSocial"}, {}, {"rest"}, {}, {})

PlantillaDocumento ==
    Table({"nombreDocumento", "contenidoHtml"}, {"orientacionPapel", "activo"}, {},
          {"nombreDocumento"}, {})

Presentante == Table({}, {}, {"rest"}, {}, {})

RepresentanteLegal ==
    Table({"empresaGestoraId"}, {}, {"rest"}, {},
          {<<"empresaGestoraId", "empresa_gestora">>})

Tramite ==
    Table({"tramiteAnio", "clienteId", "vehiculoId", "tipoTramiteId", "situacionId",
           "usuarioCreadorId", "sucursalId", "fechaPresentacion"},
          {"entregas"}, {"rest"}, {}, {})

TramiteDetalle ==
    Table({"tramiteId"}, {}, {"representanteLegalId", "rest"}, {"tramiteId"},
          {<<"representanteLegalId", "representante_legal">>})

CatalogoTipoTramite == Table({"nombre"}, {"activo"}, {}, {}, {})

CatalogoSituacion == Table({"nombre"}, {"activo"}, {"rest"}, {}, {})

PerfilGestor == Table({}, {}, {"rest"}, {}, {})

MessageTemplate == Table({"name", "content"}, {}, {}, {"name"}, {})

Usuario ==
    TableWithoutDates({"username", "passwordHash", "nombreCompleto"}, {"rol", "estaActivo"},
                      {"dispositivoId"}, {"username"}, {<<"dispositivoId", "dispositivo">>})

Dispositivo ==
    TableWithoutDates({"macAddress", "nombreEquipo", "sucursalId"}, {"autorizado"},
                      {"provisionId", "usuarioId"}, {"macAddress"},
                      {<<"sucursalId", "sucursal">>, <<"usuarioId", "usuario">>})

Sucursal == TableWithoutDates({"nombre"}, {"esCentral"}, {"codigo", "direccion"}, {}, {})

\* A conflict has fechaConflicto for updatedAt, and is never soft-deleted.
SyncConflicto ==
    [needs |-> {"tablaAfectada", "registroId", "datosLocales", "datosRemotos", "fechaConflicto"},
     defaults |-> {"resuelto"}, optional |-> {"rest"}, unique |-> {}, refs |-> {}]

\* The tables by the name of the entity in a chunk.
TableOf ==
    [cliente |-> Cliente, vehiculo |-> Vehiculo, empresa_gestora |-> EmpresaGestora,
     plantilla_documento |-> PlantillaDocumento, presentante |-> Presentante,
     representante_legal |-> RepresentanteLegal, tramite |-> Tramite,
     tramite_detalle |-> TramiteDetalle, catalogo_tipo_tramite |-> CatalogoTipoTramite,
     catalogo_situacion |-> CatalogoSituacion, perfil_gestor |-> PerfilGestor,
     message_template |-> MessageTemplate, usuario |-> Usuario, dispositivo |-> Dispositivo,
     sucursal |-> Sucursal, sync_conflicto |-> SyncConflicto]

Entity == DOMAIN TableOf

NotNull(e) == TableOf[e].needs \cup TableOf[e].defaults

Columns(e) == NotNull(e) \cup TableOf[e].optional

-----------------------------------------------------------------------------
(* The DTO classes: what a record must and may carry besides its id *)

Dto(must, may) == [must |-> must \cup {"updatedAt"}, may |-> may]

ClienteSyncDto == Dto({"tipoDocumento"}, {"rest"})

VehiculoSyncDto == Dto({}, {"rest"})

EmpresaGestoraSyncDto == Dto({"razonSocial"}, {"rest"})

PlantillaDocumentoSyncDto ==
    Dto({"nombreDocumento", "contenidoHtml"}, {"orientacionPapel", "activo"})

PresentanteSyncDto == Dto({}, {"rest"})

RepresentanteLegalSyncDto == Dto({"empresaGestoraId"}, {"rest"})

TramiteSyncDto ==
    Dto({"tramiteAnio", "clienteId", "vehiculoId", "tipoTramiteId", "situacionId",
         "usuarioCreadorId", "sucursalId", "fechaPresentacion"}, {"entregas", "rest"})

TramiteDetalleSyncDto == Dto({"tramiteId"}, {"representanteLegalId", "rest"})

CatalogoTipoTramiteSyncDto == Dto({"nombre"}, {"activo"})

CatalogoSituacionSyncDto == Dto({"nombre"}, {"activo", "rest"})

PerfilGestorSyncDto == Dto({}, {"rest"})

MessageTemplateSyncDto == Dto({"name", "content"}, {})

UsuarioSyncDto ==
    Dto({"username", "passwordHash", "nombreCompleto"}, {"rol", "estaActivo", "dispositivoId"})

DispositivoSyncDto ==
    Dto({"macAddress", "nombreEquipo", "sucursalId"}, {"autorizado", "provisionId", "usuarioId"})

SucursalSyncDto == Dto({"nombre", "codigo"}, {"direccion"})

SyncConflictoSyncDto ==
    [must |-> {"tablaAfectada", "registroId", "datosLocales", "datosRemotos", "fechaConflicto"},
     may |-> {"resuelto", "rest"}]

DtoOf ==
    [cliente |-> ClienteSyncDto, vehiculo |-> VehiculoSyncDto,
     empresa_gestora |-> EmpresaGestoraSyncDto,
     plantilla_documento |-> PlantillaDocumentoSyncDto, presentante |-> PresentanteSyncDto,
     representante_legal |-> RepresentanteLegalSyncDto, tramite |-> TramiteSyncDto,
     tramite_detalle |-> TramiteDetalleSyncDto,
     catalogo_tipo_tramite |-> CatalogoTipoTramiteSyncDto,
     catalogo_situacion |-> CatalogoSituacionSyncDto, perfil_gestor |-> PerfilGestorSyncDto,
     message_template |-> MessageTemplateSyncDto, usuario |-> UsuarioSyncDto,
     dispositivo |-> DispositivoSyncDto, sucursal |-> SucursalSyncDto,
     sync_conflicto |-> SyncConflictoSyncDto]

-----------------------------------------------------------------------------
(* The upsert *)

\* The columns that ..._UPSERT_COLUMNS leaves out: an existing row keeps them.
\* Conflicts are saved by the repository, which writes the columns it is given.
MaestrosKept == {"createdAt"}

\* Mutant of CatalogosKept: activo is missing from the list.
CatalogosKeptActivo == {"createdAt", "activo"}

CatalogosKept == {"createdAt"}

TramiteKept == {"createdAt", "usuarioCreadorId", "sucursalId"}

\* Mutant of TramiteDetalleKept: deleted_at is missing from the list.
DetalleKeptDeleted == {"createdAt", "deletedAt"}

TramiteDetalleKept == {"createdAt"}

SeguridadKept == {"createdAt"}

SucursalKept == {"createdAt", "esCentral"}

Kept(e) ==
    CASE e = "tramite"                                    -> TramiteKept
      [] e = "tramite_detalle"                            -> TramiteDetalleKept
      [] e = "sucursal"                                   -> SucursalKept
      [] e \in {"usuario", "dispositivo"}                 -> SeguridadKept
      [] e \in {"catalogo_tipo_tramite", "catalogo_situacion"} -> CatalogosKept
      [] OTHER                                            -> MaestrosKept

\* INSERT INTO e VALUES (record): a column the record leaves out gets DEFAULT.
Inserted(e, record) ==
    [c \in Columns(e) |->
        IF c \in DOMAIN record THEN record[c]
        ELSE IF c \in TableOf[e].defaults THEN Default ELSE Null]

\* Mutant of Updated: the record takes the place of the row.
UpdatedWhole(e, row, record) == record

\* ON CONFLICT (id) DO UPDATE SET c = EXCLUDED.c; save of an existing conflict.
Updated(e, row, record) ==
    [c \in Columns(e) |->
        IF e = "sync_conflicto" THEN IF c \in DOMAIN record THEN record[c] ELSE row[c]
        ELSE IF c \in Kept(e) THEN row[c] ELSE Inserted(e, record)[c]]

\* Mutant of Rejection: an INSERT without ON CONFLICT (id).
RejectionInsert(db, e, id, record) ==
    IF \E s \in db : s.entity = e /\ s.id = id THEN "unique" ELSE "none"

\* Why PostgreSQL rejects the record with this id in a database, "none" if it
\* does not.  NOT NULL is checked of the row to insert, also when the id exists.
Rejection(db, e, id, record) ==
    LET new == Inserted(e, record)
        known(r, t) == \E s \in db : s.entity = t /\ s.id = r
    IN  IF \E c \in NotNull(e) : new[c] = Null
            /\ ~ (e = "sync_conflicto" /\ known(id, e) /\ c \notin DOMAIN record) THEN "null"
        ELSE IF \E c \in TableOf[e].unique : \E s \in db :
                s.entity = e /\ s.id # id /\ s.row[c] = new[c] THEN "unique"
        ELSE IF \E ref \in TableOf[e].refs :
                new[ref[1]] # Null /\ ~known(new[ref[1]], ref[2]) THEN "reference"
        ELSE "none"

\* The entities whose adapter compares versions before it upserts.
Versioned == {"cliente", "vehiculo", "tramite", "tramite_detalle"}

\* The stored version is not the one the record is based on.
Conflicts(db, e, id, base) ==
    e \in Versioned /\ \E s \in db : s.entity = e /\ s.id = id /\ s.version # base

\* The database after the upsert of a record that is not rejected.
Upsert(db, e, id, record) ==
    LET old == {s \in db : s.entity = e /\ s.id = id}
    IN  (db \ old) \cup
            (IF old = {}
             THEN {[entity |-> e, id |-> id, version |-> 1, row |-> Inserted(e, record)]}
             ELSE {[s EXCEPT !.version = @ + 1, !.row = Updated(e, s.row, record)] : s \in old})

\* A database as the schema admits it: whole rows, one of a kind, and nothing that
\* is NOT NULL is null.
WellFormed(rows) ==
    /\ \A s \in rows :
        /\ s = [entity |-> s.entity, id |-> s.id, version |-> s.version, row |-> s.row]
        /\ s.entity \in Entity /\ s.version \in Nat
        /\ DOMAIN s.row = Columns(s.entity) /\ s.row = [c \in DOMAIN s.row |-> s.row[c]]
        /\ \A c \in NotNull(s.entity) : s.row[c] # Null
    /\ \A s, t \in rows : s.entity = t.entity /\ s.id = t.id => s = t

=============================================================================

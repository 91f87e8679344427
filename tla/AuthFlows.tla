----------------------------- MODULE AuthFlows -----------------------------
(***************************************************************************)
(* The endpoints of AuthService that write (provision, register, reset-code,  *)
(* reset-password), the check that admits a device to synchronisation, and    *)
(* the pushes of users and devices.  A request runs statement by statement;    *)
(* between two of them others run, and what it has read may be out of date.    *)
(* A save of the repository writes every column in which its entity differs    *)
(* from the row, so it puts back what the request has read.                    *)
(***************************************************************************)
EXTENDS Naturals, Sequences, FiniteSets

CONSTANTS
    Request,    \* requests
    Plans,      \* what they ask for: functions from Request to records
    Worlds,     \* the databases there may be at first
    UserId, DeviceId, Branch,   \* ids of usuarios, dispositivos and sucursales
    Name, Password, Address,    \* user names, password hashes and MAC addresses
    MaxPushes,  \* bound on the pushes of a client's copy
    Nil

\* A MAC as it is written; a row of usuarios, a row of dispositivos; a request.
MacAddress == [address : Address, spelling : {"lower", "upper"}]
UserRow    == [name : Name, password : Password, active : BOOLEAN, device : DeviceId \cup {Nil}]
DeviceRow  == [mac : MacAddress, authorised : BOOLEAN, branch : Branch, owner : UserId \cup {Nil}]
PlanType   == [op : {"none", "provision", "register", "code", "reset"}, name : Name,
               password : Password \cup {Nil}, hash : Password, uid : UserId \cup {Nil},
               did : DeviceId \cup {Nil}, mac : MacAddress, branchId : Branch \cup {Nil},
               branch : Branch \cup {Nil}, retry : BOOLEAN]

\* A row that is created without an id gets a fresh one: that of its request.
ASSUME IdAssumption ==
    /\ Request \subseteq UserId /\ Request \subseteq DeviceId
    /\ Nil \notin UserId \cup DeviceId \cup Branch \cup UserRow \cup DeviceRow

\* A reset carries the new password.
ASSUME PlansAssumption ==
    /\ Plans \subseteq [Request -> PlanType]
    /\ \A asks \in Plans, r \in Request : asks[r].op = "reset" => asks[r].password # Nil

\* The database starts with its foreign keys and its unique names, and with no MAC
\* stored in two spellings.
ASSUME WorldsAssumption ==
    \A w \in Worlds :
        /\ w.users \in [UserId -> UserRow \cup {Nil}]
        /\ w.devices \in [DeviceId -> DeviceRow \cup {Nil}]
        /\ w.branches \subseteq Branch
        /\ \A u, v \in UserId : w.users[u] # Nil =>
                /\ w.users[u].device # Nil => w.devices[w.users[u].device] # Nil
                /\ w.users[v] # Nil /\ w.users[u].name = w.users[v].name => u = v
        /\ \A d, e \in DeviceId : w.devices[d] # Nil =>
                /\ w.devices[d].branch \in w.branches
                /\ w.devices[d].owner # Nil => w.users[w.devices[d].owner] # Nil
                /\ w.devices[e] # Nil /\ w.devices[d].mac.address = w.devices[e].mac.address => d = e

VARIABLES
    plan,       \* what each request asks for
    users,      \* usuarios by id: name, password, active, device (dispositivoId)
    devices,    \* dispositivos by id: mac, authorised, branch, owner (usuarioId)
    branches,   \* the sucursales there are
    codes,      \* password_reset_codes, in the order of their creation
    req,        \* the state of each request
    copy,       \* a client's pulled copy of usuarios and dispositivos
    pushes,     \* number of rows pushed from it
    current,    \* history: the password last set for a user, by id
    exposed,    \* history: users set while a copy read before was still to be saved
    moved       \* history: devices whose owner the save of a user has changed

vars == <<plan, users, devices, branches, codes, req, copy, pushes, current, exposed, moved>>

Idle == [pc |-> "start", reply |-> "none", uid |-> Nil, user |-> Nil, owned |-> {},
         branch |-> Nil, did |-> Nil, device |-> Nil, code |-> 0]

Init ==
    /\ plan \in Plans
    /\ \E w \in Worlds : users = w.users /\ devices = w.devices /\ branches = w.branches
    /\ codes = << >>
    /\ req = [r \in Request |-> Idle]
    /\ copy = Nil
    /\ pushes = 0
    /\ current = [u \in UserId |-> IF users[u] = Nil THEN Nil ELSE users[u].password]
    /\ exposed = {}
    /\ moved = {}

-----------------------------------------------------------------------------

Op(r, op, pc) == plan[r].op = op /\ req[r].pc = pc

\* Request r goes on at pc with these local values.
Goto(r, pc, local) == req' = [req EXCEPT ![r] = [local EXCEPT !.pc = pc]]

Answer(r, reply) == req' = [req EXCEPT ![r].pc = "done", ![r].reply = reply]

\* Mutant of NormalizeMac: the case is kept.
NormalizeMacTrim(mac) == mac

\* value.trim().toLowerCase()
NormalizeMac(mac) == [mac EXCEPT !.spelling = "lower"]

\* The users with this name: at most one, the column is unique.
Named(name) == {u \in UserId : users[u] # Nil /\ users[u].name = name}

\* user.dispositivos as it is read: the devices of u and their sucursales.
Owned(u) == {<<d, devices[d].branch>> : d \in {e \in DeviceId : devices[e] # Nil /\ devices[e].owner = u}}

\* The users whose row a request or a client will write back as it has read it.
ReadBefore ==
    {req[r].uid : r \in {s \in Request : Op(s, "provision", "saveUser") /\ req[s].user.known}}
        \cup (IF copy = Nil THEN {} ELSE UserId)

-----------------------------------------------------------------------------
(* POST /auth/provision *)

\* validateUser: the answer depends on the row that was read.
ValidateUser(r) ==
    /\ Op(r, "provision", "start") /\ plan[r].password # Nil
    /\ \/ \E u \in Named(plan[r].name) :
            /\ users[u].active /\ users[u].password = plan[r].password
            /\ Goto(r, "branch", [req[r] EXCEPT !.uid = u, !.user = users[u], !.owned = Owned(u)])
       \/ /\ ~ \E u \in Named(plan[r].name) :
                users[u].active /\ users[u].password = plan[r].password
          /\ Answer(r, "denied")
    /\ UNCHANGED <<plan, users, devices, branches, codes, copy, pushes, current, exposed, moved>>

\* bootstrapUserFromProvisionFile, up to the save: the user of the file, or the one
\* of that name as it is now, made active.
ReadUser(r) ==
    /\ Op(r, "provision", "start") /\ plan[r].password = Nil
    /\ LET new == [name |-> plan[r].name, password |-> plan[r].hash, active |-> TRUE,
                   device |-> Nil, known |-> FALSE]
           found(u) == [name |-> users[u].name, password |-> users[u].password,
                        active |-> TRUE, device |-> users[u].device, known |-> TRUE]
       IN  IF Named(plan[r].name) = {}
           THEN Goto(r, "saveUser",
                     [req[r] EXCEPT !.uid = IF plan[r].uid = Nil THEN r ELSE plan[r].uid,
                                    !.user = new])
           ELSE \E u \in Named(plan[r].name) :
                    Goto(r, "saveUser", [req[r] EXCEPT !.uid = u, !.user = found(u), !.owned = Owned(u)])
    /\ UNCHANGED <<plan, users, devices, branches, codes, copy, pushes, current, exposed, moved>>

Columns(user) == [name |-> user.name, password |-> user.password, active |-> user.active,
                  device |-> user.device]

\* Mutant of NameTaken: the column is not unique.
NameTakenNever(id, name) == FALSE

\* Another user has the name.
NameTaken(id, name) == ~ (Named(name) \subseteq {id})

\* The relation is saved with the user: it gets the devices it had when it was read,
\* and loses those it has got since.
Reowned(u, owned) ==
    [d \in DeviceId |->
        IF devices[d] = Nil THEN Nil
        ELSE IF \E o \in owned : o[1] = d THEN [devices[d] EXCEPT !.owner = u]
        ELSE IF devices[d].owner = u THEN [devices[d] EXCEPT !.owner = Nil]
        ELSE devices[d]]

\* The save, which inserts or updates by id; another user of that name rejects it.
SaveUser(r) ==
    /\ Op(r, "provision", "saveUser")
    /\ IF ~NameTaken(req[r].uid, req[r].user.name)
       THEN /\ users' = [users EXCEPT ![req[r].uid] = Columns(req[r].user)]
            /\ current' = IF req[r].user.known THEN current
                          ELSE [current EXCEPT ![req[r].uid] = req[r].user.password]
            /\ exposed' = IF req[r].user.known THEN exposed
                          ELSE IF req[r].uid \in ReadBefore THEN exposed \cup {req[r].uid}
                          ELSE exposed \ {req[r].uid}
            /\ devices' = IF req[r].user.known THEN Reowned(req[r].uid, req[r].owned) ELSE devices
            /\ moved' = moved \cup {d \in DeviceId : devices'[d] # devices[d]}
            /\ Goto(r, "fresh", req[r])
       ELSE Answer(r, "error") /\ UNCHANGED <<users, devices, current, exposed, moved>>
    /\ UNCHANGED <<plan, branches, codes, copy, pushes>>

\* The saved user is read again.
FreshUser(r) ==
    /\ Op(r, "provision", "fresh")
    /\ Goto(r, "branch", [req[r] EXCEPT !.user = users[req[r].uid],
                                        !.owned = Owned(req[r].uid)])
    /\ UNCHANGED <<plan, users, devices, branches, codes, copy, pushes, current, exposed, moved>>

\* Where resolveSucursalForProvision looks when the request names no sucursal: the
\* device of the user, one of the user's devices, any sucursal.
Resolved(r) ==
    IF req[r].user.device # Nil THEN {devices[req[r].user.device].branch}
    ELSE IF req[r].owned # {} THEN {o[2] : o \in req[r].owned}
    ELSE branches

\* resolveSucursalForProvision; a sucursal that the request describes is saved.
ResolveSucursal(r) ==
    /\ Op(r, "provision", "branch")
    /\ \/ /\ plan[r].branch # Nil
          /\ branches' = branches \cup {plan[r].branch}
          /\ Goto(r, "device", [req[r] EXCEPT !.branch = plan[r].branch])
       \/ /\ plan[r].branch = Nil /\ plan[r].branchId \in branches
          /\ Goto(r, "device", [req[r] EXCEPT !.branch = plan[r].branchId])
          /\ UNCHANGED branches
       \/ /\ plan[r].branch = Nil /\ plan[r].branchId = Nil
          /\ \E b \in Resolved(r) : Goto(r, "device", [req[r] EXCEPT !.branch = b])
          /\ UNCHANGED branches
       \/ /\ plan[r].branch = Nil
          /\ plan[r].branchId \notin branches
          /\ plan[r].branchId = Nil => Resolved(r) = {}
          /\ Answer(r, "error")
          /\ UNCHANGED branches
    /\ UNCHANGED <<plan, users, devices, codes, copy, pushes, current, exposed, moved>>

\* Mutant of Matches: only devices that are already authorised.
MatchesAuthorised(mac) ==
    {d \in DeviceId : devices[d] # Nil /\ devices[d].authorised /\ NormalizeMac(devices[d].mac) = mac}

\* WHERE LOWER(mac_address) = :macAddress
Matches(mac) ==
    {d \in DeviceId : devices[d] # Nil /\ [devices[d].mac EXCEPT !.spelling = "lower"] = mac}

\* Mutant of Found: the device keeps its user.
FoundKept(r, device) ==
    [device EXCEPT !.mac = NormalizeMac(plan[r].mac), !.authorised = TRUE,
                   !.branch = IF plan[r].branchId # Nil THEN plan[r].branchId ELSE @]

\* A device that is there already, as request r is to save it.
Found(r, device) ==
    [device EXCEPT !.mac = NormalizeMac(plan[r].mac), !.authorised = TRUE, !.owner = req[r].uid,
                   !.branch = IF plan[r].branchId # Nil THEN plan[r].branchId ELSE @]

\* The device with that MAC, or a new one.
FindDevice(r) ==
    /\ Op(r, "provision", "device")
    /\ LET mac == NormalizeMac(plan[r].mac)
           new == [mac |-> mac, authorised |-> TRUE, branch |-> req[r].branch,
                   owner |-> req[r].uid]
       IN  IF Matches(mac) = {}
           THEN Goto(r, "saveDevice", [req[r] EXCEPT !.device = new,
                                        !.did = IF plan[r].did = Nil THEN r ELSE plan[r].did])
           ELSE \E d \in Matches(mac) :
                    Goto(r, "saveDevice", [req[r] EXCEPT !.did = d, !.device = Found(r, devices[d])])
    /\ UNCHANGED <<plan, users, devices, branches, codes, copy, pushes, current, exposed, moved>>

\* The unique index on the MAC compares it letter by letter.
MacTaken(id, device) ==
    \E d \in DeviceId \ {id} : devices[d] # Nil /\ devices[d].mac = device.mac

SaveDevice(r) ==
    /\ Op(r, "provision", "saveDevice")
    /\ IF MacTaken(req[r].did, req[r].device) \/ req[r].device.branch \notin branches
       THEN Answer(r, "error") /\ UNCHANGED devices
       ELSE /\ devices' = [devices EXCEPT ![req[r].did] = req[r].device]
            /\ Goto(r, "bind", req[r])
    /\ UNCHANGED <<plan, users, branches, codes, copy, pushes, current, exposed, moved>>

\* Mutant of BindUser: the whole user is saved instead of two of its columns.
BindUserWhole(r) ==
    /\ Op(r, "provision", "bind")
    /\ LET effective == IF req[r].user.device # Nil THEN req[r].user.device ELSE req[r].did
       IN  users' = [users EXCEPT ![req[r].uid] = [Columns(req[r].user) EXCEPT !.device = effective]]
    /\ Answer(r, "ok")
    /\ UNCHANGED <<plan, devices, branches, codes, copy, pushes, current, exposed, moved>>

\* usuarioRepo.update sets dispositivoId only: the one the user had when it was read,
\* or this one.  The answer is read from the rows after it.
BindUser(r) ==
    /\ Op(r, "provision", "bind")
    /\ LET effective == IF req[r].user.device # Nil THEN req[r].user.device ELSE req[r].did
       IN  users' = [users EXCEPT ![req[r].uid].device = effective]
    /\ Answer(r, "ok")
    /\ UNCHANGED <<plan, devices, branches, codes, copy, pushes, current, exposed, moved>>

\* The client sends the request again.
Retry(r) ==
    /\ plan[r].retry
    /\ req[r].reply = "error"
    /\ req' = [req EXCEPT ![r] = Idle]
    /\ UNCHANGED <<plan, users, devices, branches, codes, copy, pushes, current, exposed, moved>>

-----------------------------------------------------------------------------
(* POST /auth/register: the entity it saves has neither an id nor createdAt, *)
(* which the table requires.                                                  *)

Register(r) ==
    /\ Op(r, "register", "start")
    /\ \/ Named(plan[r].name) # {} /\ Answer(r, "denied")
       \/ Named(plan[r].name) = {} /\ Answer(r, "error")
    /\ UNCHANGED <<plan, users, devices, branches, codes, copy, pushes, current, exposed, moved>>

-----------------------------------------------------------------------------
(* POST /auth/reset-code *)

\* A name that no user has is answered like any other.
ReadForCode(r) ==
    /\ Op(r, "code", "start")
    /\ \/ Named(plan[r].name) = {} /\ Answer(r, "ok")
       \/ Named(plan[r].name) # {} /\ Goto(r, "void", req[r])
    /\ UNCHANGED <<plan, users, devices, branches, codes, copy, pushes, current, exposed, moved>>

\* The unused codes of the user are marked used.
VoidCodes(r) ==
    /\ Op(r, "code", "void")
    /\ codes' = [c \in DOMAIN codes |->
                    IF codes[c].name = plan[r].name THEN [codes[c] EXCEPT !.used = TRUE]
                    ELSE codes[c]]
    /\ Goto(r, "insert", req[r])
    /\ UNCHANGED <<plan, users, devices, branches, copy, pushes, current, exposed, moved>>

InsertCode(r) ==
    /\ Op(r, "code", "insert")
    /\ codes' = Append(codes, [name |-> plan[r].name, used |-> FALSE, expired |-> FALSE,
                               sent |-> FALSE])
    /\ Goto(r, "mail", [req[r] EXCEPT !.code = Len(codes) + 1])
    /\ UNCHANGED <<plan, users, devices, branches, copy, pushes, current, exposed, moved>>

\* sendResetCodeEmail: without SMTP nothing is sent; a mail that fails is an error.
SendCode(r) ==
    /\ Op(r, "code", "mail")
    /\ \/ codes' = [codes EXCEPT ![req[r].code].sent = TRUE] /\ Answer(r, "ok")
       \/ UNCHANGED codes /\ \E reply \in {"ok", "error"} : Answer(r, reply)
    /\ UNCHANGED <<plan, users, devices, branches, copy, pushes, current, exposed, moved>>

\* Fifteen minutes pass.
Expire(c) ==
    /\ ~codes[c].expired
    /\ codes' = [codes EXCEPT ![c].expired = TRUE]
    /\ UNCHANGED <<plan, users, devices, branches, req, copy, pushes, current, exposed, moved>>

-----------------------------------------------------------------------------
(* POST /auth/reset-password *)

Valid(c, name) == codes[c].name = name /\ ~codes[c].used /\ ~codes[c].expired

\* The user types a code that was mailed; it must be the newest valid one.
LookUpCode(r) ==
    /\ Op(r, "reset", "start")
    /\ \E c \in DOMAIN codes :
        /\ codes[c].name = plan[r].name /\ codes[c].sent
        /\ IF Valid(c, plan[r].name) /\ \A d \in DOMAIN codes : d > c => ~Valid(d, plan[r].name)
           THEN Goto(r, "setPassword", [req[r] EXCEPT !.code = c])
           ELSE Answer(r, "denied")
    /\ UNCHANGED <<plan, users, devices, branches, codes, copy, pushes, current, exposed, moved>>

SetPassword(r) ==
    /\ Op(r, "reset", "setPassword")
    /\ users' = [u \in UserId |-> IF u \in Named(plan[r].name)
                    THEN [users[u] EXCEPT !.password = plan[r].password] ELSE users[u]]
    /\ current' = [u \in UserId |-> IF u \in Named(plan[r].name) THEN plan[r].password
                                   ELSE current[u]]
    /\ exposed' = (exposed \ Named(plan[r].name)) \cup (Named(plan[r].name) \cap ReadBefore)
    /\ Goto(r, "spend", req[r])
    /\ UNCHANGED <<plan, devices, branches, codes, copy, pushes, moved>>

SpendCode(r) ==
    /\ Op(r, "reset", "spend")
    /\ codes' = [codes EXCEPT ![req[r].code].used = TRUE]
    /\ Answer(r, "ok")
    /\ UNCHANGED <<plan, users, devices, branches, copy, pushes, current, exposed, moved>>

-----------------------------------------------------------------------------
(* Pushes of usuario and dispositivo: a client sends rows as it has pulled them *)

Copy ==
    /\ copy = Nil /\ pushes < MaxPushes
    /\ copy' = [users |-> users, devices |-> devices]
    /\ UNCHANGED <<plan, users, devices, branches, codes, req, pushes, current, exposed, moved>>

PushUser(u) ==
    /\ copy # Nil /\ copy.users[u] # Nil
    /\ ~NameTaken(u, copy.users[u].name)
    /\ users' = [users EXCEPT ![u] = copy.users[u]]
    /\ copy' = Nil /\ pushes' = pushes + 1
    /\ UNCHANGED <<plan, devices, branches, codes, req, current, exposed, moved>>

PushDevice(d) ==
    /\ copy # Nil /\ copy.devices[d] # Nil
    /\ ~MacTaken(d, copy.devices[d])
    /\ devices' = [devices EXCEPT ![d] = copy.devices[d]]
    /\ copy' = Nil /\ pushes' = pushes + 1
    /\ UNCHANGED <<plan, users, branches, codes, req, current, exposed, moved>>

-----------------------------------------------------------------------------

Provision(r) ==
    \/ ValidateUser(r) \/ ReadUser(r) \/ SaveUser(r) \/ FreshUser(r) \/ ResolveSucursal(r)
    \/ FindDevice(r) \/ SaveDevice(r) \/ BindUser(r) \/ Retry(r)

ResetCode(r) == ReadForCode(r) \/ VoidCodes(r) \/ InsertCode(r) \/ SendCode(r)

ResetPassword(r) == LookUpCode(r) \/ SetPassword(r) \/ SpendCode(r)

Next ==
    \/ \E r \in Request : Provision(r) \/ Register(r) \/ ResetCode(r) \/ ResetPassword(r)
    \/ \E c \in DOMAIN codes : Expire(c)
    \/ Copy
    \/ \E u \in UserId : PushUser(u)
    \/ \E d \in DeviceId : PushDevice(d)

Spec == Init /\ [][Next]_vars

\* A request that runs goes on to its next statement, a client that repeats does so.
FairSpec == Spec /\ \A r \in Request : WF_vars(Provision(r))

-----------------------------------------------------------------------------
(* Properties *)

Past(r) == plan[r].op = "provision" /\ (req[r].pc = "bind" \/ req[r].reply = "ok")

\* Rows refer to rows that exist, no two users have one name, and a provision works on
\* a user and a device that exist.
AuthTypeOK ==
    /\ \A u \in UserId : users[u] # Nil =>
            /\ users[u].active \in BOOLEAN
            /\ users[u].device # Nil => devices[users[u].device] # Nil
            /\ Named(users[u].name) = {u}
    /\ \A d \in DeviceId : devices[d] # Nil =>
            /\ devices[d].branch \in branches
            /\ devices[d].owner # Nil => users[devices[d].owner] # Nil
    /\ \A r \in Request :
            /\ req[r].reply \in {"none", "ok", "denied", "error"}
            /\ (req[r].reply # "none") = (req[r].pc = "done")
            /\ Past(r) => users[req[r].uid] # Nil /\ devices[req[r].did] # Nil
    /\ codes \in Seq([name : {plan[r].name : r \in Request}, used : BOOLEAN,
                      expired : BOOLEAN, sent : BOOLEAN])

\* Two devices never share a MAC, however it is spelled: provisioning compares MACs
\* without their case, the unique index letter by letter.  (A push of an older row may
\* bring a spelling back after its device was given another MAC.)
OneDevicePerMac ==
    pushes = 0 => \A d, e \in DeviceId : devices[d] # Nil /\ devices[e] # Nil /\ d # e
        => devices[d].mac.address # devices[e].mac.address

\* The password that was last set for a user is the one in the table, also after
\* provisions that ran meanwhile, unless a row that was read before is saved or pushed.
ResetSticks ==
    \A u \in UserId : users[u] # Nil /\ u \notin exposed => users[u].password = current[u]

\* validateOperatorDevice: what admits a user's device to synchronisation.
MaySync(u, mac) ==
    /\ users[u] # Nil /\ users[u].active
    /\ \E o \in Owned(u) : devices[o[1]].authorised /\ NormalizeMac(devices[o[1]].mac) = NormalizeMac(mac)

\* A user whose device was provisioned may synchronise from it.  The exceptions: the
\* device was provisioned again for another user or with another MAC, a save of a user
\* moved it, or an older row was pushed.
AnsweredMaySync ==
    \A r \in Request :
        /\ plan[r].op = "provision" /\ req[r].reply = "ok"
        /\ req[r].did \notin moved /\ pushes = 0
        /\ \A s \in Request : Past(s) /\ req[s].did = req[r].did =>
                req[s].uid = req[r].uid /\ plan[s].mac.address = plan[r].mac.address
        => MaySync(req[r].uid, plan[r].mac)

\* Where there is a sucursal, a provision that its client repeats after an error is
\* answered at last: requests that race for a user name or a MAC do not block each
\* other, nor does a device that exists in another spelling or without authorisation.
ProvisionEnds ==
    \A r \in Request :
        plan[r].op = "provision" /\ plan[r].retry /\ branches # {} ~> req[r].reply \in {"ok", "denied"}

-----------------------------------------------------------------------------
(* Not invariants: states the code reaches, see the README *)

\* No save or push undoes a reset that was answered.
ResetIsKept ==
    \A u \in UserId : users[u] # Nil => users[u].password = current[u]

\* Every device that was provisioned last for its user stays that user's.
DeviceIsKept ==
    \A r \in Request : plan[r].op = "provision" /\ req[r].reply = "ok" /\ pushes = 0
        /\ (\A s \in Request : Past(s) /\ s # r => req[s].did # req[r].did)
        => MaySync(req[r].uid, plan[r].mac)

\* Once a reset is answered, its code was the last one of that user to be accepted.
OneCodeAccepted ==
    \A r, s \in Request : plan[r].op = "reset" /\ plan[s].op = "reset" /\ r # s
        /\ req[r].reply = "ok" /\ req[s].reply = "ok" => req[r].code # req[s].code

\* This one holds: by the schema of the entity classes no registration stores a user (register
\* leaves out the id and created_at).
NeverRegistered == \A r \in Request : plan[r].op = "register" => req[r].reply # "ok"

=============================================================================

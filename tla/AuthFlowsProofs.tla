--------------------------- MODULE AuthFlowsProofs ---------------------------
(***************************************************************************)
(* Theorems of AuthFlows, for any number of requests, users, devices and     *)
(* sucursales, whatever the requests ask for and whatever the database       *)
(* holds at first.                                                           *)
(***************************************************************************)
EXTENDS AuthFlows, SequenceTheorems, TLAPS

(* The inductive invariant *)

\* What a request reads before it saves a user, and the local state of a request.
UserRead == [name : Name, password : Password, active : BOOLEAN,
             device : DeviceId \cup {Nil}, known : BOOLEAN]
Pc == {"start", "saveUser", "fresh", "branch", "device", "saveDevice", "bind",
       "void", "insert", "mail", "setPassword", "spend", "done"}
LocalType ==
    [pc : Pc, reply : {"none", "ok", "denied", "error"}, uid : UserId \cup {Nil},
     user : UserRow \cup UserRead \cup {Nil}, owned : SUBSET (DeviceId \X Branch),
     branch : Branch \cup {Nil}, did : DeviceId \cup {Nil},
     device : DeviceRow \cup {Nil}, code : Nat]

Users   == [UserId -> UserRow \cup {Nil}]
Devices == [DeviceId -> DeviceRow \cup {Nil}]
CodeRow == [name : {plan[r].name : r \in Request}, used : BOOLEAN, expired : BOOLEAN,
            sent : BOOLEAN]

Typed ==
    /\ plan \in [Request -> PlanType]
    /\ \A r \in Request : plan[r].op = "reset" => plan[r].password # Nil
    /\ users \in Users
    /\ devices \in Devices
    /\ branches \subseteq Branch
    /\ codes \in Seq(CodeRow)
    /\ req \in [Request -> LocalType]
    /\ copy # Nil => copy.users \in Users /\ copy.devices \in Devices
    /\ pushes \in Nat

\* Rows us and ds, of the tables or of a copy, refer to rows of the tables.
UserRefers(us)   == \A u \in UserId : us[u] # Nil /\ us[u].device # Nil => devices[us[u].device] # Nil
DeviceRefers(ds) ==
    \A d \in DeviceId : ds[d] # Nil =>
        /\ ds[d].branch \in branches
        /\ ds[d].owner # Nil => users[ds[d].owner] # Nil

UniqueNames ==
    \A u, v \in UserId : users[u] # Nil /\ users[v] # Nil /\ users[u].name = users[v].name => u = v

Refers ==
    /\ UserRefers(users) /\ DeviceRefers(devices)
    /\ copy # Nil => UserRefers(copy.users) /\ DeviceRefers(copy.devices)
    /\ UniqueNames

\* What a request has read or prepared at each of its statements.
HasUser == {"fresh", "branch", "device", "saveDevice", "bind"}
KnowsRow == {"branch", "device", "saveDevice", "bind"}

LocalOK(r) ==
    /\ (req[r].reply # "none") = (req[r].pc = "done")
    /\ req[r].pc = "saveUser" =>
         /\ req[r].uid \in UserId /\ req[r].user \in UserRead /\ req[r].user.active
         /\ req[r].user.device # Nil => devices[req[r].user.device] # Nil
    /\ req[r].pc \in HasUser => req[r].uid \in UserId /\ users[req[r].uid] # Nil
    /\ req[r].pc \in KnowsRow =>
         /\ req[r].user \in UserRow
         /\ req[r].user.device # Nil => devices[req[r].user.device] # Nil
    /\ req[r].pc = "device" => req[r].branch \in Branch
    /\ req[r].pc = "saveDevice" =>
         /\ req[r].did \in DeviceId /\ req[r].device \in DeviceRow
         /\ req[r].device.authorised /\ req[r].device.owner = req[r].uid
         /\ req[r].device.mac = NormalizeMac(plan[r].mac)
    /\ Past(r) =>
         /\ req[r].uid \in UserId /\ users[req[r].uid] # Nil
         /\ req[r].did \in DeviceId /\ devices[req[r].did] # Nil

\* Rows are there, of the right kind, wherever something refers to them.
BaseInv == Typed /\ Refers /\ \A r \in Request : LocalOK(r)

\* No device but its own has a spelling of the MAC that a request is about to save,
\* except the spelling the unique index compares.
OneSpelling ==
    pushes = 0 => \A r \in Request, e \in DeviceId :
        /\ req[r].pc = "saveDevice" /\ e # req[r].did /\ devices[e] # Nil
        /\ devices[e].mac.address = req[r].device.mac.address
        => devices[e].mac.spelling = "lower"

MacInv == BaseInv /\ OneDevicePerMac /\ OneSpelling

\* A row that will be written back as it was read has the password of its user, or
\* its user is exposed.
ReadSticks ==
    \A r \in Request : Op(r, "provision", "saveUser") /\ req[r].user.known
                       /\ req[r].uid \notin exposed
        => req[r].user.password = current[req[r].uid]
CopySticks ==
    copy # Nil => \A u \in UserId : copy.users[u] # Nil /\ u \notin exposed
        => copy.users[u].password = current[u]

ResetInv ==
    /\ BaseInv /\ current \in [UserId -> Password \cup {Nil}]
    /\ ResetSticks /\ ReadSticks /\ CopySticks

\* Until an older row is pushed, a request works for an active user, and a device that
\* only requests of one user and one MAC have saved is as they saved it.
ActiveUsers ==
    \A r \in Request : req[r].pc \in HasUser \/ Past(r) => users[req[r].uid].active

Alone(r) ==
    \A s \in Request : Past(s) /\ req[s].did = req[r].did =>
        req[s].uid = req[r].uid /\ plan[s].mac.address = plan[r].mac.address

AsSaved ==
    \A r \in Request : Past(r) /\ req[r].did \notin moved /\ Alone(r) =>
        /\ devices[req[r].did].authorised
        /\ devices[req[r].did].owner = req[r].uid
        /\ devices[req[r].did].mac = NormalizeMac(plan[r].mac)

AnswerInv == BaseInv /\ (pushes = 0 => ActiveUsers /\ AsSaved)


-----------------------------------------------------------------------------
(* Frames *)

\* Request r goes to label l with the local values of loc; the others stay.
Became(r, l, loc) ==
    /\ req' \in [Request -> LocalType]
    /\ \A q \in Request \ {r} : req'[q] = req[q]
    /\ req'[r].pc = l /\ req'[r].reply = loc.reply /\ req'[r].uid = loc.uid
    /\ req'[r].user = loc.user /\ req'[r].owned = loc.owned /\ req'[r].branch = loc.branch
    /\ req'[r].did = loc.did /\ req'[r].device = loc.device /\ req'[r].code = loc.code

LEMMA GotoFrame ==
    ASSUME req \in [Request -> LocalType], NEW r \in Request, NEW l \in Pc,
           NEW loc \in LocalType, Goto(r, l, loc)
    PROVE  Became(r, l, loc)
<1> DEFINE q == [loc EXCEPT !.pc = l]
<1>1. /\ q \in LocalType /\ q.pc = l /\ q.reply = loc.reply /\ q.uid = loc.uid
      /\ q.user = loc.user /\ q.owned = loc.owned /\ q.branch = loc.branch
      /\ q.did = loc.did /\ q.device = loc.device /\ q.code = loc.code
  BY DEF LocalType
<1>2. req' = [req EXCEPT ![r] = q]
  BY DEF Goto
<1> HIDE DEF q
<1> QED BY <1>1, <1>2 DEF Became

\* Request r is answered; its local values and the other requests stay.
Answered(r, reply) ==
    /\ req' \in [Request -> LocalType]
    /\ \A q \in Request \ {r} : req'[q] = req[q]
    /\ req'[r].pc = "done" /\ req'[r].reply = reply
    /\ req'[r].uid = req[r].uid /\ req'[r].did = req[r].did

LEMMA AnswerFrame ==
    ASSUME req \in [Request -> LocalType], NEW r \in Request,
           NEW e \in {"ok", "denied", "error"}, Answer(r, e)
    PROVE  Answered(r, e)
<1> DEFINE q == [req[r] EXCEPT !.pc = "done", !.reply = e]
<1>0. req[r] \in LocalType /\ "done" \in Pc /\ e \in {"none", "ok", "denied", "error"}
  BY DEF Pc
<1>1. q \in LocalType /\ q.pc = "done" /\ q.reply = e /\ q.uid = req[r].uid /\ q.did = req[r].did
  BY <1>0 DEF LocalType
<1>2. req' = [req EXCEPT ![r] = q]
  BY DEF Answer
<1> HIDE DEF q
<1> QED BY <1>1, <1>2 DEF Answered

\* Rows and requests that exist stay.
RowsStay ==
    /\ plan' = plan
    /\ \A u \in UserId : users[u] # Nil => users'[u] # Nil
    /\ \A d \in DeviceId : devices[d] # Nil => devices'[d] # Nil
    /\ branches \subseteq branches'

LEMMA OthersKeep ==
    ASSUME RowsStay, NEW q \in Request, req'[q] = req[q], LocalOK(q)
    PROVE  LocalOK(q)'
BY DEF RowsStay, LocalOK, Past, NormalizeMac, HasUser, KnowsRow, UserRow, UserRead

\* A request that is answered with an error, or that provisions nothing, needs no row.
LEMMA AnswerOK ==
    ASSUME NEW r \in Request, NEW e \in {"ok", "denied", "error"}, Answered(r, e), plan' = plan,
           e # "ok" \/ plan[r].op # "provision"
    PROVE  LocalOK(r)'
BY DEF Answered, LocalOK, Past, HasUser, KnowsRow

\* The type of the codes depends on the plan, which never changes.
LEMMA CodeRowSame == ASSUME plan' = plan PROVE CodeRow' = CodeRow
BY DEF CodeRow

\* A step of request r that writes no row of users and devices.
LEMMA QuietStep ==
    ASSUME BaseInv, NEW r \in Request, UNCHANGED <<plan, users, devices, copy, pushes>>,
           branches \subseteq branches', branches' \subseteq Branch,
           codes' \in Seq(CodeRow), req' \in [Request -> LocalType],
           \A q \in Request \ {r} : req'[q] = req[q], LocalOK(r)'
    PROVE  BaseInv'
<1>1. Typed'
  BY CodeRowSame DEF BaseInv, Typed
<1>2. Refers'
  BY DEF BaseInv, Refers, UserRefers, DeviceRefers, UniqueNames
<1>3. RowsStay
  BY DEF RowsStay
<1>4. \A q \in Request : LocalOK(q)'
  BY <1>3, OthersKeep DEF BaseInv
<1> QED BY <1>1, <1>2, <1>4 DEF BaseInv

-----------------------------------------------------------------------------
(* The initial state *)

LEMMA InitBase == Init => BaseInv
<1> SUFFICES ASSUME Init PROVE BaseInv
  OBVIOUS
<1>1. plan \in [Request -> PlanType] /\ \A r \in Request : plan[r].op = "reset" => plan[r].password # Nil
  BY PlansAssumption DEF Init
<1>2. PICK w \in Worlds : users = w.users /\ devices = w.devices /\ branches = w.branches
  BY DEF Init
<1>3. users \in Users /\ devices \in Devices /\ branches \subseteq Branch
  BY <1>2, WorldsAssumption DEF Users, Devices
<1>4. Idle \in LocalType /\ Idle.pc = "start" /\ Idle.reply = "none"
  BY DEF Idle, LocalType, Pc
<1>5. req \in [Request -> LocalType] /\ \A r \in Request : req[r].pc = "start" /\ req[r].reply = "none"
  BY <1>4 DEF Init
<1>6. codes \in Seq(CodeRow) /\ copy = Nil /\ pushes \in Nat
  BY DEF Init
<1>7. Typed
  BY <1>1, <1>3, <1>5, <1>6 DEF Typed
<1>8. UserRefers(users) /\ UniqueNames
  BY <1>2, WorldsAssumption DEF UserRefers, UniqueNames
<1>9. DeviceRefers(devices)
  BY <1>2, WorldsAssumption DEF DeviceRefers
<1>10. \A r \in Request : LocalOK(r)
  BY <1>5 DEF LocalOK, HasUser, KnowsRow, Past
<1> QED BY <1>6, <1>7, <1>8, <1>9, <1>10 DEF BaseInv, Refers

-----------------------------------------------------------------------------
(* The steps that read, or write nothing but sucursales and codes *)

\* What the tables hold, by type.
LEMMA Rows ==
    ASSUME BaseInv
    PROVE  /\ \A u \in UserId : users[u] # Nil => users[u] \in UserRow
           /\ \A d \in DeviceId : devices[d] # Nil => devices[d] \in DeviceRow
           /\ \A u \in UserId : Owned(u) \in SUBSET (DeviceId \X Branch)
           /\ \A r \in Request : req[r] \in LocalType /\ plan[r] \in PlanType
<1>1. /\ \A u \in UserId : users[u] # Nil => users[u] \in UserRow
      /\ \A d \in DeviceId : devices[d] # Nil => devices[d] \in DeviceRow
      /\ \A r \in Request : req[r] \in LocalType /\ plan[r] \in PlanType
  BY DEF BaseInv, Typed, Users, Devices
<1>2. \A d \in DeviceId : devices[d] # Nil => devices[d].branch \in Branch
  BY <1>1 DEF DeviceRow
<1>3. \A u \in UserId : Owned(u) \in SUBSET (DeviceId \X Branch)
  BY <1>2 DEF Owned
<1> QED BY <1>1, <1>3

LEMMA ValidateUserBase ==
    ASSUME BaseInv, NEW r \in Request, ValidateUser(r)
    PROVE  BaseInv'
<1>t. req \in [Request -> LocalType] /\ codes \in Seq(CodeRow) /\ branches \subseteq Branch
  BY DEF BaseInv, Typed
<1>u. UNCHANGED <<plan, users, devices, branches, codes, copy, pushes>>
  BY DEF ValidateUser
<1>1. CASE Answer(r, "denied")
  BY <1>1, <1>t, <1>u, AnswerFrame, AnswerOK, QuietStep DEF Answered
<1>2. ASSUME NEW u \in Named(plan[r].name),
             Goto(r, "branch", [req[r] EXCEPT !.uid = u, !.user = users[u], !.owned = Owned(u)])
      PROVE  BaseInv'
  <2> DEFINE loc == [req[r] EXCEPT !.uid = u, !.user = users[u], !.owned = Owned(u)]
  <2>1. u \in UserId /\ users[u] # Nil /\ users[u] \in UserRow
    BY Rows DEF Named
  <2>2. loc \in LocalType /\ loc.uid = u /\ loc.user = users[u] /\ loc.reply = req[r].reply
    BY <2>1, Rows DEF LocalType
  <2>3. req[r].reply = "none"
    BY DEF BaseInv, LocalOK, ValidateUser, Op
  <2> HIDE DEF loc
  <2>4. Became(r, "branch", loc)
    BY <1>2, <1>t, <2>2, GotoFrame DEF Pc, loc
  <2>5. users[u].device # Nil => devices[users[u].device] # Nil
    BY <2>1 DEF BaseInv, Refers, UserRefers
  <2>6. LocalOK(r)'
    BY <2>1, <2>2, <2>3, <2>4, <2>5, <1>u DEF Became, LocalOK, Past, HasUser, KnowsRow
  <2> QED BY <2>4, <2>6, <1>t, <1>u, QuietStep DEF Became
<1> QED BY <1>1, <1>2 DEF ValidateUser

LEMMA ReadUserBase ==
    ASSUME BaseInv, NEW r \in Request, ReadUser(r)
    PROVE  BaseInv'
<1>t. req \in [Request -> LocalType] /\ codes \in Seq(CodeRow) /\ branches \subseteq Branch
  BY DEF BaseInv, Typed
<1>u. UNCHANGED <<plan, users, devices, branches, codes, copy, pushes>>
  BY DEF ReadUser
<1>r. req[r].reply = "none" /\ req[r].pc = "start"
  BY DEF BaseInv, LocalOK, ReadUser, Op
\* What is read for the user with id u.
<1>k. ASSUME NEW loc \in LocalType, loc.reply = "none", Became(r, "saveUser", loc),
             loc.uid \in UserId, loc.user \in UserRead, loc.user.active,
             loc.user.device # Nil => devices[loc.user.device] # Nil
      PROVE  BaseInv'
  <2>1. LocalOK(r)'
    BY <1>k, <1>u DEF Became, LocalOK, Past, HasUser, KnowsRow
  <2> QED BY <2>1, <1>k, <1>t, <1>u, QuietStep DEF Became
<1>1. CASE Named(plan[r].name) = {}
  <2> DEFINE new == [name |-> plan[r].name, password |-> plan[r].hash, active |-> TRUE,
                     device |-> Nil, known |-> FALSE]
             id == IF plan[r].uid = Nil THEN r ELSE plan[r].uid
             loc == [req[r] EXCEPT !.uid = id, !.user = new]
  <2>1. new \in UserRead /\ new.active /\ new.device = Nil /\ id \in UserId
    BY Rows, IdAssumption DEF UserRead, PlanType
  <2>2. Goto(r, "saveUser", loc)
    BY <1>1 DEF ReadUser
  <2> HIDE DEF new, id
  <2>3. loc \in LocalType /\ loc.uid = id /\ loc.user = new /\ loc.reply = req[r].reply
    BY <2>1, Rows DEF LocalType
  <2> HIDE DEF loc
  <2>4. Became(r, "saveUser", loc)
    BY <1>t, <2>2, <2>3, GotoFrame DEF Pc
  <2> QED BY <1>k, <1>r, <2>1, <2>3, <2>4
<1>2. CASE Named(plan[r].name) # {}
  <2> DEFINE found(u) == [name |-> users[u].name, password |-> users[u].password,
                          active |-> TRUE, device |-> users[u].device, known |-> TRUE]
             loc(u) == [req[r] EXCEPT !.uid = u, !.user = found(u), !.owned = Owned(u)]
  <2>1. PICK u \in Named(plan[r].name) : Goto(r, "saveUser", loc(u))
    BY <1>2 DEF ReadUser
  <2>2. u \in UserId /\ users[u] # Nil /\ users[u] \in UserRow
    BY Rows DEF Named
  <2>3. found(u) \in UserRead /\ found(u).active /\ found(u).device = users[u].device
    BY <2>2 DEF UserRead, UserRow
  <2>4. users[u].device # Nil => devices[users[u].device] # Nil
    BY <2>2 DEF BaseInv, Refers, UserRefers
  <2> HIDE DEF found
  <2>5. loc(u) \in LocalType /\ loc(u).uid = u /\ loc(u).user = found(u) /\ loc(u).reply = req[r].reply
    BY <2>2, <2>3, Rows DEF LocalType
  <2> HIDE DEF loc
  <2>6. Became(r, "saveUser", loc(u))
    BY <1>t, <2>1, <2>5, GotoFrame DEF Pc
  <2> QED BY <1>k, <1>r, <2>2, <2>3, <2>4, <2>5, <2>6
<1> QED BY <1>1, <1>2

LEMMA FreshUserBase ==
    ASSUME BaseInv, NEW r \in Request, FreshUser(r)
    PROVE  BaseInv'
<1>t. req \in [Request -> LocalType] /\ codes \in Seq(CodeRow) /\ branches \subseteq Branch
  BY DEF BaseInv, Typed
<1>u. UNCHANGED <<plan, users, devices, branches, codes, copy, pushes>>
  BY DEF FreshUser
<1> DEFINE u == req[r].uid
           loc == [req[r] EXCEPT !.user = users[u], !.owned = Owned(u)]
<1>1. req[r].pc = "fresh" /\ req[r].reply = "none" /\ u \in UserId /\ users[u] # Nil
  BY DEF BaseInv, LocalOK, FreshUser, Op, HasUser
<1>2. users[u] \in UserRow /\ (users[u].device # Nil => devices[users[u].device] # Nil)
  BY <1>1, Rows DEF BaseInv, Refers, UserRefers
<1>3. loc \in LocalType /\ loc.uid = u /\ loc.user = users[u] /\ loc.reply = req[r].reply
  BY <1>1, <1>2, Rows DEF LocalType
<1>4. Goto(r, "branch", loc)
  BY DEF FreshUser
<1> HIDE DEF loc
<1>5. Became(r, "branch", loc)
  BY <1>3, <1>4, <1>t, GotoFrame DEF Pc
<1>6. LocalOK(r)'
  BY <1>1, <1>2, <1>3, <1>5, <1>u DEF Became, LocalOK, Past, HasUser, KnowsRow
<1> QED BY <1>5, <1>6, <1>t, <1>u, QuietStep DEF Became

\* The sucursales a provision may resolve to.
LEMMA ResolvedBranches ==
    ASSUME BaseInv, NEW r \in Request, req[r].pc \in KnowsRow
    PROVE  Resolved(r) \subseteq Branch
<1>1. /\ req[r].user \in UserRow /\ req[r].owned \in SUBSET (DeviceId \X Branch)
      /\ req[r].user.device # Nil => devices[req[r].user.device] # Nil
  BY Rows DEF BaseInv, LocalOK, LocalType
<1>2. req[r].user.device # Nil => devices[req[r].user.device].branch \in Branch
  BY <1>1, Rows DEF UserRow, DeviceRow
<1>3. {o[2] : o \in req[r].owned} \subseteq Branch
  BY <1>1
<1>4. branches \subseteq Branch
  BY DEF BaseInv, Typed
<1> QED BY <1>2, <1>3, <1>4 DEF Resolved

LEMMA ResolveSucursalBase ==
    ASSUME BaseInv, NEW r \in Request, ResolveSucursal(r)
    PROVE  BaseInv'
<1>t. req \in [Request -> LocalType] /\ codes \in Seq(CodeRow) /\ branches \subseteq Branch
  BY DEF BaseInv, Typed
<1>u. UNCHANGED <<plan, users, devices, codes, copy, pushes>>
  BY DEF ResolveSucursal
<1>r. /\ req[r].pc = "branch" /\ req[r].reply = "none" /\ req[r].uid \in UserId
      /\ users[req[r].uid] # Nil /\ req[r].user \in UserRow
      /\ req[r].user.device # Nil => devices[req[r].user.device] # Nil
  BY DEF BaseInv, LocalOK, ResolveSucursal, Op, HasUser, KnowsRow
<1>1. CASE Answer(r, "error") /\ UNCHANGED branches
  BY <1>1, <1>t, <1>u, AnswerFrame, AnswerOK, QuietStep DEF Answered
<1>2. ASSUME NEW b \in Branch, Goto(r, "device", [req[r] EXCEPT !.branch = b]),
             branches \subseteq branches', branches' \subseteq Branch
      PROVE  BaseInv'
  <2> DEFINE loc == [req[r] EXCEPT !.branch = b]
  <2>1. /\ loc \in LocalType /\ loc.branch = b /\ loc.uid = req[r].uid
        /\ loc.user = req[r].user /\ loc.reply = req[r].reply
    BY Rows DEF LocalType
  <2> HIDE DEF loc
  <2>2. Became(r, "device", loc)
    BY <1>2, <1>t, <2>1, GotoFrame DEF Pc, loc
  <2>3. LocalOK(r)'
    BY <1>r, <2>1, <2>2, <1>u DEF Became, LocalOK, Past, HasUser, KnowsRow
  <2> QED BY <1>2, <2>2, <2>3, <1>t, <1>u, QuietStep DEF Became
<1>3. plan[r] \in PlanType /\ Resolved(r) \subseteq Branch
  BY <1>r, Rows, ResolvedBranches DEF KnowsRow
<1>4. CASE /\ plan[r].branch # Nil
           /\ branches' = branches \cup {plan[r].branch}
           /\ Goto(r, "device", [req[r] EXCEPT !.branch = plan[r].branch])
  <2>1. plan[r].branch \in Branch
    BY <1>3, <1>4 DEF PlanType
  <2> QED BY <1>2, <1>4, <1>t, <2>1
<1>5. CASE /\ plan[r].branchId \in branches
           /\ Goto(r, "device", [req[r] EXCEPT !.branch = plan[r].branchId])
           /\ UNCHANGED branches
  BY <1>2, <1>5, <1>t
<1>6. CASE /\ \E b \in Resolved(r) : Goto(r, "device", [req[r] EXCEPT !.branch = b])
           /\ UNCHANGED branches
  BY <1>2, <1>3, <1>6, <1>t
<1> QED BY <1>1, <1>4, <1>5, <1>6 DEF ResolveSucursal

\* The device that a request is to save.
LEMMA PreparedDevice ==
    ASSUME BaseInv, NEW r \in Request, FindDevice(r)
    PROVE  \E loc \in LocalType :
             /\ Became(r, "saveDevice", loc)
             /\ loc.reply = "none" /\ loc.uid = req[r].uid /\ loc.user = req[r].user
             /\ loc.did \in DeviceId /\ loc.device \in DeviceRow
             /\ loc.device.authorised /\ loc.device.owner = req[r].uid
             /\ loc.device.mac = NormalizeMac(plan[r].mac)
             /\ \/ Matches(loc.device.mac) = {}
                \/ loc.did \in Matches(loc.device.mac)
<1>t. req \in [Request -> LocalType]
  BY DEF BaseInv, Typed
<1>r. /\ req[r].pc = "device" /\ req[r].reply = "none" /\ req[r].uid \in UserId
      /\ req[r].branch \in Branch
  BY DEF BaseInv, LocalOK, FindDevice, Op, HasUser
<1>p. plan[r] \in PlanType /\ plan[r].mac \in MacAddress
  BY Rows DEF PlanType
<1> DEFINE mac == NormalizeMac(plan[r].mac)
<1>m. mac \in MacAddress
  BY <1>p DEF NormalizeMac, MacAddress
<1> HIDE DEF mac
<1>1. CASE Matches(mac) = {}
  <2> DEFINE new == [mac |-> mac, authorised |-> TRUE, branch |-> req[r].branch,
                     owner |-> req[r].uid]
             id == IF plan[r].did = Nil THEN r ELSE plan[r].did
             loc == [req[r] EXCEPT !.device = new, !.did = id]
  <2>1. /\ new \in DeviceRow /\ new.authorised /\ new.owner = req[r].uid /\ new.mac = mac
        /\ id \in DeviceId
    BY <1>r, <1>p, <1>m, IdAssumption DEF DeviceRow, PlanType
  <2>2. Goto(r, "saveDevice", loc)
    BY <1>1 DEF FindDevice, mac
  <2> HIDE DEF new, id
  <2>3. /\ loc \in LocalType /\ loc.did = id /\ loc.device = new
        /\ loc.reply = req[r].reply /\ loc.uid = req[r].uid /\ loc.user = req[r].user
    BY <2>1, Rows DEF LocalType
  <2> HIDE DEF loc
  <2>4. Became(r, "saveDevice", loc)
    BY <1>t, <2>2, <2>3, GotoFrame DEF Pc
  <2> QED BY <1>1, <1>r, <2>1, <2>3, <2>4 DEF mac
<1>2. CASE Matches(mac) # {}
  <2> DEFINE dev(d) == Found(r, devices[d])
             loc(d) == [req[r] EXCEPT !.did = d, !.device = dev(d)]
  <2>1. PICK d \in Matches(mac) : Goto(r, "saveDevice", loc(d))
    BY <1>2 DEF FindDevice, mac
  <2>2. d \in DeviceId /\ devices[d] \in DeviceRow
    BY Rows DEF Matches
  <2>3. /\ dev(d) \in DeviceRow /\ dev(d).authorised /\ dev(d).owner = req[r].uid
        /\ dev(d).mac = mac
    <3> DEFINE b == IF plan[r].branchId # Nil THEN plan[r].branchId ELSE devices[d].branch
    <3>1. b \in Branch
      BY <1>p, <2>2 DEF PlanType, DeviceRow
    <3>2. dev(d) = [devices[d] EXCEPT !.mac = mac, !.authorised = TRUE,
                                      !.owner = req[r].uid, !.branch = b]
      BY <2>2 DEF Found, mac, DeviceRow
    <3> HIDE DEF b, dev
    <3> QED BY <1>r, <1>m, <2>2, <3>1, <3>2 DEF DeviceRow
  <2> HIDE DEF dev
  <2>4. /\ loc(d) \in LocalType /\ loc(d).did = d /\ loc(d).device = dev(d)
        /\ loc(d).reply = req[r].reply /\ loc(d).uid = req[r].uid /\ loc(d).user = req[r].user
    BY <2>2, <2>3, Rows DEF LocalType
  <2> HIDE DEF loc
  <2>5. Became(r, "saveDevice", loc(d))
    BY <1>t, <2>1, <2>4, GotoFrame DEF Pc
  <2> QED BY <1>r, <2>1, <2>2, <2>3, <2>4, <2>5 DEF mac
<1> QED BY <1>1, <1>2

LEMMA FindDeviceBase ==
    ASSUME BaseInv, NEW r \in Request, FindDevice(r)
    PROVE  BaseInv'
<1>t. req \in [Request -> LocalType] /\ codes \in Seq(CodeRow) /\ branches \subseteq Branch
  BY DEF BaseInv, Typed
<1>u. UNCHANGED <<plan, users, devices, branches, codes, copy, pushes>>
  BY DEF FindDevice
<1>r. /\ req[r].pc = "device" /\ req[r].uid \in UserId
      /\ users[req[r].uid] # Nil /\ req[r].user \in UserRow
      /\ req[r].user.device # Nil => devices[req[r].user.device] # Nil
  BY DEF BaseInv, LocalOK, FindDevice, Op, HasUser, KnowsRow
<1>1. PICK loc \in LocalType :
             /\ Became(r, "saveDevice", loc)
             /\ loc.reply = "none" /\ loc.uid = req[r].uid /\ loc.user = req[r].user
             /\ loc.did \in DeviceId /\ loc.device \in DeviceRow
             /\ loc.device.authorised /\ loc.device.owner = req[r].uid
             /\ loc.device.mac = NormalizeMac(plan[r].mac)
  BY PreparedDevice
<1>2. LocalOK(r)'
  BY <1>r, <1>1, <1>u DEF Became, LocalOK, Past, HasUser, KnowsRow, NormalizeMac
<1> QED BY <1>1, <1>2, <1>t, <1>u, QuietStep DEF Became

LEMMA RetryBase ==
    ASSUME BaseInv, NEW r \in Request, Retry(r)
    PROVE  BaseInv'
<1>t. req \in [Request -> LocalType] /\ codes \in Seq(CodeRow) /\ branches \subseteq Branch
  BY DEF BaseInv, Typed
<1>u. UNCHANGED <<plan, users, devices, branches, codes, copy, pushes>>
  BY DEF Retry
<1>1. Idle \in LocalType /\ Idle.pc = "start" /\ Idle.reply = "none"
  BY DEF Idle, LocalType, Pc
<1>2. req' = [req EXCEPT ![r] = Idle]
  BY DEF Retry
<1>3. /\ req' \in [Request -> LocalType] /\ req'[r] = Idle
      /\ \A q \in Request \ {r} : req'[q] = req[q]
  BY <1>t, <1>1, <1>2
<1>4. LocalOK(r)'
  BY <1>1, <1>3 DEF LocalOK, Past, HasUser, KnowsRow
<1> QED BY <1>3, <1>4, <1>t, <1>u, QuietStep

\* A step of a request that is not a provision goes on to a label of its own.
LEMMA OtherGoto ==
    ASSUME BaseInv, NEW r \in Request, UNCHANGED <<plan, users, devices, branches, copy, pushes>>,
           codes' \in Seq(CodeRow), req[r].reply = "none", plan[r].op # "provision",
           NEW l \in {"void", "insert", "mail", "setPassword", "spend"},
           NEW loc \in LocalType, loc.reply = "none", Goto(r, l, loc)
    PROVE  BaseInv'
<1>1. req \in [Request -> LocalType] /\ branches \subseteq Branch
  BY DEF BaseInv, Typed
<1>2. Became(r, l, loc)
  BY <1>1, GotoFrame DEF Pc
<1>3. LocalOK(r)'
  BY <1>2 DEF Became, LocalOK, Past, HasUser, KnowsRow
<1> QED BY <1>1, <1>2, <1>3, QuietStep DEF Became

LEMMA OtherAnswer ==
    ASSUME BaseInv, NEW r \in Request, UNCHANGED <<plan, users, devices, branches, copy, pushes>>,
           codes' \in Seq(CodeRow), plan[r].op # "provision",
           NEW e \in {"ok", "denied", "error"}, Answer(r, e)
    PROVE  BaseInv'
<1>1. req \in [Request -> LocalType] /\ branches \subseteq Branch
  BY DEF BaseInv, Typed
<1> QED BY <1>1, AnswerFrame, AnswerOK, QuietStep DEF Answered

\* What the steps on the codes leave in their table.
LEMMA CodeFields ==
    ASSUME NEW c \in CodeRow
    PROVE  /\ [c EXCEPT !.used = TRUE] \in CodeRow
           /\ [c EXCEPT !.expired = TRUE] \in CodeRow
           /\ [c EXCEPT !.sent = TRUE] \in CodeRow
BY DEF CodeRow

LEMMA CodeUpdate ==
    ASSUME codes \in Seq(CodeRow), NEW c, NEW new,
           c \in DOMAIN codes => new \in CodeRow, codes' = [codes EXCEPT ![c] = new]
    PROVE  codes' \in Seq(CodeRow)
<1>1. DOMAIN codes = 1..Len(codes)
  OBVIOUS
<1>2. CASE c \in 1..Len(codes)
  BY <1>1, <1>2, ExceptSeq
<1>3. CASE c \notin 1..Len(codes)
  <2>1. codes' = codes
    BY <1>1, <1>3
  <2> QED BY <2>1
<1> QED BY <1>2, <1>3

\* A sequence rewritten entry by entry is a sequence.
LEMMA CodesRewritten ==
    ASSUME codes \in Seq(CodeRow), codes' \in [DOMAIN codes -> CodeRow]
    PROVE  codes' \in Seq(CodeRow)
<1>1. DOMAIN codes = 1..Len(codes) /\ Len(codes) \in Nat
  OBVIOUS
<1> QED BY <1>1, SeqDef

LEMMA CodesBase ==
    ASSUME BaseInv, NEW r \in Request, Register(r) \/ ResetCode(r) \/ LookUpCode(r) \/ SpendCode(r)
    PROVE  BaseInv'
<1>t. req \in [Request -> LocalType] /\ codes \in Seq(CodeRow)
  BY DEF BaseInv, Typed
<1>l. req[r] \in LocalType /\ (req[r].pc # "done" => req[r].reply = "none")
  BY <1>t DEF BaseInv, LocalOK
<1>o. /\ UNCHANGED <<plan, users, devices, branches, copy, pushes>>
      /\ plan[r].op # "provision" /\ req[r].pc # "done"
  BY DEF Register, ResetCode, ReadForCode, VoidCodes, InsertCode, SendCode, LookUpCode, SpendCode, Op
<1>1. CASE Register(r)
  <2>1. UNCHANGED codes /\ (Answer(r, "denied") \/ Answer(r, "error"))
    BY <1>1 DEF Register
  <2> QED BY <1>o, <1>t, <2>1, OtherAnswer
<1>2. CASE ReadForCode(r)
  <2>1. UNCHANGED codes /\ (Answer(r, "ok") \/ Goto(r, "void", req[r]))
    BY <1>2 DEF ReadForCode
  <2> QED BY <1>o, <1>t, <1>l, <2>1, OtherAnswer, OtherGoto
<1>3. CASE VoidCodes(r)
  <2> DEFINE new(c) == IF codes[c].name = plan[r].name THEN [codes[c] EXCEPT !.used = TRUE]
                       ELSE codes[c]
  <2>1. codes' = [c \in DOMAIN codes |-> new(c)] /\ Goto(r, "insert", req[r])
    BY <1>3 DEF VoidCodes
  <2>2. \A c \in DOMAIN codes : codes[c] \in CodeRow
    BY <1>t
  <2>3. \A c \in DOMAIN codes : new(c) \in CodeRow
    BY <2>2, CodeFields
  <2> HIDE DEF new
  <2>4. codes' \in Seq(CodeRow)
    BY <1>t, <2>1, <2>3, CodesRewritten
  <2> QED BY <1>o, <1>l, <2>1, <2>4, OtherGoto
<1>4. CASE InsertCode(r)
  <2> DEFINE new == [name |-> plan[r].name, used |-> FALSE, expired |-> FALSE, sent |-> FALSE]
             n == Len(codes) + 1
             loc == [req[r] EXCEPT !.code = n]
  <2>1. codes' = Append(codes, new) /\ Goto(r, "mail", loc)
    BY <1>4 DEF InsertCode
  <2>2. new \in CodeRow
    BY DEF CodeRow
  <2> HIDE DEF new
  <2>3. codes' \in Seq(CodeRow) /\ n \in Nat
    BY <1>t, <2>1, <2>2
  <2> HIDE DEF n
  <2>4. loc \in LocalType /\ loc.reply = req[r].reply
    BY <1>l, <2>3 DEF LocalType
  <2> QED BY <1>o, <1>l, <2>1, <2>3, <2>4, OtherGoto
<1>5. CASE SendCode(r)
  <2> DEFINE c == req[r].code
             new == [codes[c] EXCEPT !.sent = TRUE]
  <2>1. \/ codes' = [codes EXCEPT ![c] = new] /\ Answer(r, "ok")
        \/ UNCHANGED codes /\ \E e \in {"ok", "error"} : Answer(r, e)
    BY <1>5 DEF SendCode
  <2>2. c \in DOMAIN codes => new \in CodeRow
    <3>1. c \in DOMAIN codes => codes[c] \in CodeRow
      BY <1>t
    <3> QED BY <3>1, CodeFields
  <2> HIDE DEF new, c
  <2>3. codes' \in Seq(CodeRow)
    BY <1>t, <2>1, <2>2, CodeUpdate
  <2> QED BY <1>o, <2>1, <2>3, OtherAnswer
<1>6. CASE LookUpCode(r)
  <2>1. PICK c \in DOMAIN codes : \/ Goto(r, "setPassword", [req[r] EXCEPT !.code = c])
                                  \/ Answer(r, "denied")
    BY <1>6 DEF LookUpCode
  <2>2. UNCHANGED codes
    BY <1>6 DEF LookUpCode
  <2> DEFINE loc == [req[r] EXCEPT !.code = c]
  <2>3. c \in Nat
    BY <1>t
  <2>4. loc \in LocalType /\ loc.reply = req[r].reply
    BY <1>l, <2>3 DEF LocalType
  <2> QED BY <1>o, <1>l, <1>t, <2>1, <2>2, <2>4, OtherAnswer, OtherGoto
<1>7. CASE SpendCode(r)
  <2> DEFINE c == req[r].code
             new == [codes[c] EXCEPT !.used = TRUE]
  <2>1. codes' = [codes EXCEPT ![c] = new] /\ Answer(r, "ok")
    BY <1>7 DEF SpendCode
  <2>2. c \in DOMAIN codes => new \in CodeRow
    <3>1. c \in DOMAIN codes => codes[c] \in CodeRow
      BY <1>t
    <3> QED BY <3>1, CodeFields
  <2> HIDE DEF new, c
  <2>3. codes' \in Seq(CodeRow)
    BY <1>t, <2>1, <2>2, CodeUpdate
  <2> QED BY <1>o, <2>1, <2>3, OtherAnswer
<1> QED BY <1>1, <1>2, <1>3, <1>4, <1>5, <1>6, <1>7 DEF ResetCode

LEMMA ExpireBase ==
    ASSUME BaseInv, NEW c \in DOMAIN codes, Expire(c)
    PROVE  BaseInv'
<1>1. /\ codes \in Seq(CodeRow)
      /\ UNCHANGED <<plan, users, devices, branches, req, copy, pushes>>
  BY DEF BaseInv, Typed, Expire
<1> DEFINE new == [codes[c] EXCEPT !.expired = TRUE]
<1>2. codes' = [codes EXCEPT ![c] = new]
  BY DEF Expire
<1>3. codes[c] \in CodeRow
  BY <1>1
<1>4. new \in CodeRow
  BY <1>3, CodeFields
<1> HIDE DEF new
<1>5. codes' \in Seq(CodeRow)
  BY <1>1, <1>2, <1>4, CodeUpdate
<1>6. Typed'
  BY <1>1, <1>5, CodeRowSame DEF BaseInv, Typed
<1>7. Refers'
  BY <1>1 DEF BaseInv, Refers, UserRefers, DeviceRefers, UniqueNames
<1>8. \A q \in Request : LocalOK(q)'
  BY <1>1, OthersKeep DEF BaseInv, RowsStay
<1> QED BY <1>6, <1>7, <1>8 DEF BaseInv

-----------------------------------------------------------------------------
(* The steps that write users and devices *)

\* What becomes of the users when row x is written at u under a free name.
LEMMA UserWritten ==
    ASSUME BaseInv, NEW u \in UserId, NEW x \in UserRow,
           x.device # Nil => devices[x.device] # Nil,
           ~NameTaken(u, x.name), users' = [users EXCEPT ![u] = x],
           \A d \in DeviceId : devices[d] # Nil => devices'[d] # Nil
    PROVE  /\ users' \in Users /\ users'[u] = x /\ users'[u] # Nil
           /\ \A v \in UserId \ {u} : users'[v] = users[v]
           /\ \A v \in UserId : users[v] # Nil => users'[v] # Nil
           /\ UserRefers(users)' /\ UniqueNames'
<1>1. x # Nil
  BY IdAssumption
<1>2. users' \in Users /\ users'[u] = x /\ \A v \in UserId \ {u} : users'[v] = users[v]
  BY DEF BaseInv, Typed, Users
<1>3. UserRefers(users)'
  <2>1. \A v \in UserId : users[v] # Nil => users[v].device \in DeviceId \cup {Nil}
    BY Rows DEF UserRow
  <2>2. x.device \in DeviceId \cup {Nil}
    BY DEF UserRow
  <2> QED BY <1>2, <2>1, <2>2 DEF UserRefers, BaseInv, Refers
<1>4. UniqueNames'
  <2>1. \A v \in UserId \ {u} : users[v] # Nil => users[v].name # x.name
    BY DEF NameTaken, Named
  <2> QED BY <1>2, <2>1 DEF UniqueNames, BaseInv, Refers
<1> QED BY <1>1, <1>2, <1>3, <1>4

\* What becomes of the devices when row x is written at e.
LEMMA DeviceWritten ==
    ASSUME BaseInv, NEW e \in DeviceId, NEW x \in DeviceRow, x.branch \in branches,
           x.owner # Nil => users[x.owner] # Nil,
           devices' = [devices EXCEPT ![e] = x], UNCHANGED <<users, branches>>
    PROVE  /\ devices' \in Devices /\ devices'[e] = x /\ devices'[e] # Nil
           /\ \A d \in DeviceId \ {e} : devices'[d] = devices[d]
           /\ \A d \in DeviceId : devices[d] # Nil => devices'[d] # Nil
           /\ DeviceRefers(devices)' /\ UserRefers(users)'
<1>1. x # Nil
  BY IdAssumption
<1>2. devices' \in Devices /\ devices'[e] = x /\ \A d \in DeviceId \ {e} : devices'[d] = devices[d]
  BY DEF BaseInv, Typed, Devices
<1>3. DeviceRefers(devices)'
  BY <1>2 DEF DeviceRefers, BaseInv, Refers
<1>4. UserRefers(users)'
  <2>1. \A v \in UserId : users[v] # Nil => users[v].device \in DeviceId \cup {Nil}
    BY Rows DEF UserRow
  <2> QED BY <1>1, <1>2, <2>1 DEF UserRefers, BaseInv, Refers
<1> QED BY <1>1, <1>2, <1>3, <1>4

\* What becomes of the devices when those of owned are given to user u.
LEMMA DevicesReowned ==
    ASSUME BaseInv, NEW u \in UserId, NEW owned, devices' = Reowned(u, owned)
    PROVE  /\ devices' \in Devices
           /\ \A d \in DeviceId : devices'[d] = Nil <=> devices[d] = Nil
           /\ \A d \in DeviceId : devices[d] # Nil =>
                /\ devices'[d].mac = devices[d].mac
                /\ devices'[d].authorised = devices[d].authorised
                /\ devices'[d].branch = devices[d].branch
                /\ devices'[d].owner \in {devices[d].owner, u, Nil}
<1> DEFINE given(d) == [devices[d] EXCEPT !.owner = u]
           taken(d) == [devices[d] EXCEPT !.owner = Nil]
<1>1. \A d \in DeviceId : devices[d] # Nil =>
        /\ given(d) \in DeviceRow /\ given(d) # Nil /\ given(d).mac = devices[d].mac
        /\ given(d).authorised = devices[d].authorised
        /\ given(d).branch = devices[d].branch /\ given(d).owner = u
  BY Rows, IdAssumption DEF DeviceRow
<1>2. \A d \in DeviceId : devices[d] # Nil =>
        /\ taken(d) \in DeviceRow /\ taken(d) # Nil /\ taken(d).mac = devices[d].mac
        /\ taken(d).authorised = devices[d].authorised
        /\ taken(d).branch = devices[d].branch /\ taken(d).owner = Nil
  BY Rows, IdAssumption DEF DeviceRow
<1>3. /\ devices' = [d \in DeviceId |-> devices'[d]]
      /\ \A d \in DeviceId : devices[d] = Nil => devices'[d] = Nil
      /\ \A d \in DeviceId : devices[d] # Nil => devices'[d] \in {given(d), taken(d), devices[d]}
  BY DEF Reowned
<1> HIDE DEF given, taken
<1>4. \A d \in DeviceId : devices[d] # Nil => devices[d] \in DeviceRow
  BY Rows
<1>5. \A d \in DeviceId : devices'[d] \in DeviceRow \cup {Nil}
  BY <1>1, <1>2, <1>3, <1>4
<1>6. devices' \in Devices
  BY <1>3, <1>5 DEF Devices
<1> QED BY <1>1, <1>2, <1>3, <1>6

\* A copy goes on referring to rows that exist.
LEMMA CopyRefers ==
    ASSUME BaseInv, RowsStay, UNCHANGED copy
    PROVE  (copy # Nil => UserRefers(copy.users) /\ DeviceRefers(copy.devices))'
<1>1. CASE copy # Nil
  <2>1. /\ \A u \in UserId : copy.users[u] # Nil => copy.users[u] \in UserRow
        /\ \A d \in DeviceId : copy.devices[d] # Nil => copy.devices[d] \in DeviceRow
    BY <1>1 DEF BaseInv, Typed, Users, Devices
  <2>2. \A u \in UserId : copy.users[u] # Nil => copy.users[u].device \in DeviceId \cup {Nil}
    BY <2>1 DEF UserRow
  <2>3. \A d \in DeviceId : copy.devices[d] # Nil => copy.devices[d].owner \in UserId \cup {Nil}
    BY <2>1 DEF DeviceRow
  <2> QED BY <1>1, <2>2, <2>3 DEF BaseInv, Refers, UserRefers, DeviceRefers, RowsStay
<1>2. CASE copy = Nil
  BY <1>2
<1> QED BY <1>1, <1>2

LEMMA SaveUserBase ==
    ASSUME BaseInv, NEW r \in Request, SaveUser(r)
    PROVE  BaseInv'
<1>t. req \in [Request -> LocalType] /\ codes \in Seq(CodeRow) /\ branches \subseteq Branch
  BY DEF BaseInv, Typed
<1>u. UNCHANGED <<plan, branches, codes, copy, pushes>>
  BY DEF SaveUser
<1> DEFINE u == req[r].uid
           x == Columns(req[r].user)
<1>r. /\ req[r].pc = "saveUser" /\ req[r].reply = "none" /\ u \in UserId
      /\ req[r].user \in UserRead /\ req[r].user.active
      /\ req[r].user.device # Nil => devices[req[r].user.device] # Nil
      /\ req[r] \in LocalType
  BY <1>t DEF BaseInv, LocalOK, SaveUser, Op
<1>1. CASE NameTaken(u, req[r].user.name)
  <2>1. Answer(r, "error") /\ UNCHANGED <<users, devices>>
    BY <1>1 DEF SaveUser
  <2> QED BY <2>1, <1>t, <1>u, AnswerFrame, AnswerOK, QuietStep DEF Answered
<1>2. CASE ~NameTaken(u, req[r].user.name)
  <2>1. /\ users' = [users EXCEPT ![u] = x]
        /\ devices' = IF req[r].user.known THEN Reowned(u, req[r].owned) ELSE devices
        /\ Goto(r, "fresh", req[r])
    BY <1>2 DEF SaveUser
  <2>2. x \in UserRow /\ x.device = req[r].user.device /\ x.name = req[r].user.name
    BY <1>r DEF Columns, UserRow, UserRead
  <2> HIDE DEF x
  <2>3. /\ devices' \in Devices
        /\ \A d \in DeviceId : devices'[d] = Nil <=> devices[d] = Nil
        /\ \A d \in DeviceId : devices[d] # Nil =>
             /\ devices'[d].branch = devices[d].branch
             /\ devices'[d].owner \in {devices[d].owner, u, Nil}
    <3>1. devices \in Devices
      BY DEF BaseInv, Typed
    <3> QED BY <1>r, <2>1, <3>1, DevicesReowned
  <2>4. /\ users' \in Users /\ users'[u] # Nil
        /\ \A v \in UserId : users[v] # Nil => users'[v] # Nil
        /\ UserRefers(users)' /\ UniqueNames'
    BY <1>2, <1>r, <2>1, <2>2, <2>3, UserWritten
  <2>5. RowsStay
    BY <1>u, <2>3, <2>4 DEF RowsStay
  <2>6. DeviceRefers(devices)'
    <3>1. \A d \in DeviceId : devices[d] # Nil => devices[d].owner \in UserId \cup {Nil}
      BY Rows DEF DeviceRow
    <3> QED BY <1>u, <2>3, <2>4, <3>1 DEF DeviceRefers, BaseInv, Refers
  <2>7. Refers'
    BY <1>u, <2>4, <2>5, <2>6, CopyRefers DEF Refers
  <2>8. Became(r, "fresh", req[r])
    BY <1>r, <1>t, <2>1, GotoFrame DEF Pc
  <2>9. Typed'
    BY <1>u, <2>3, <2>4, <2>8, CodeRowSame DEF BaseInv, Typed, Became
  <2>10. LocalOK(r)'
    BY <1>r, <2>4, <2>8 DEF Became, LocalOK, Past, HasUser, KnowsRow
  <2>11. \A q \in Request : LocalOK(q)'
    BY <2>5, <2>8, <2>10, OthersKeep DEF BaseInv, Became
  <2> QED BY <2>7, <2>9, <2>11 DEF BaseInv
<1> QED BY <1>1, <1>2

LEMMA SaveDeviceBase ==
    ASSUME BaseInv, NEW r \in Request, SaveDevice(r)
    PROVE  BaseInv'
<1>t. req \in [Request -> LocalType] /\ codes \in Seq(CodeRow) /\ branches \subseteq Branch
  BY DEF BaseInv, Typed
<1>u. UNCHANGED <<plan, users, branches, codes, copy, pushes>>
  BY DEF SaveDevice
<1> DEFINE e == req[r].did
           x == req[r].device
<1>r. /\ req[r].pc = "saveDevice" /\ req[r].reply = "none" /\ req[r].uid \in UserId
      /\ users[req[r].uid] # Nil /\ req[r].user \in UserRow
      /\ req[r].user.device # Nil => devices[req[r].user.device] # Nil
      /\ e \in DeviceId /\ x \in DeviceRow /\ x.owner = req[r].uid
      /\ req[r] \in LocalType
  BY <1>t DEF BaseInv, LocalOK, SaveDevice, Op, HasUser, KnowsRow
<1>1. CASE Answer(r, "error") /\ UNCHANGED devices
  BY <1>1, <1>t, <1>u, AnswerFrame, AnswerOK, QuietStep DEF Answered
<1>2. CASE /\ x.branch \in branches
           /\ devices' = [devices EXCEPT ![e] = x]
           /\ Goto(r, "bind", req[r])
  <2>1. /\ devices' \in Devices /\ devices'[e] # Nil
        /\ \A d \in DeviceId : devices[d] # Nil => devices'[d] # Nil
        /\ DeviceRefers(devices)' /\ UserRefers(users)'
    BY <1>2, <1>r, <1>u, DeviceWritten
  <2>2. RowsStay
    BY <1>u, <2>1 DEF RowsStay
  <2>3. Refers'
    BY <1>u, <2>1, <2>2, CopyRefers DEF Refers, UniqueNames, BaseInv
  <2>4. Became(r, "bind", req[r])
    BY <1>2, <1>r, <1>t, GotoFrame DEF Pc
  <2>5. Typed'
    BY <1>u, <2>1, <2>4, CodeRowSame DEF BaseInv, Typed, Became
  <2>6. LocalOK(r)'
    <3>1. req[r].user.device \in DeviceId \cup {Nil}
      BY <1>r DEF UserRow
    <3> QED BY <1>r, <1>u, <2>1, <2>4, <3>1 DEF Became, LocalOK, Past, HasUser, KnowsRow
  <2>7. \A q \in Request : LocalOK(q)'
    BY <2>2, <2>4, <2>6, OthersKeep DEF BaseInv, Became
  <2> QED BY <2>3, <2>5, <2>7 DEF BaseInv
<1> QED BY <1>1, <1>2 DEF SaveDevice

\* The user of a provision is bound to the device it had, or to the new one.
LEMMA BoundUser ==
    ASSUME BaseInv, NEW r \in Request, BindUser(r)
    PROVE  LET u == req[r].uid
               e == IF req[r].user.device # Nil THEN req[r].user.device ELSE req[r].did
               x == [users[u] EXCEPT !.device = e]
           IN  /\ u \in UserId /\ users[u] # Nil /\ users[u] \in UserRow
               /\ e \in DeviceId /\ devices[e] # Nil
               /\ users' = [users EXCEPT ![u] = x]
               /\ x \in UserRow /\ x.device = e /\ x.name = users[u].name
               /\ x.password = users[u].password /\ x.active = users[u].active
               /\ Answered(r, "ok")
               /\ req[r].did \in DeviceId /\ devices[req[r].did] # Nil
<1> DEFINE u == req[r].uid
           e == IF req[r].user.device # Nil THEN req[r].user.device ELSE req[r].did
           x == [users[u] EXCEPT !.device = e]
<1>1. /\ req[r].pc = "bind" /\ u \in UserId /\ users[u] # Nil
      /\ req[r].user \in UserRow
      /\ req[r].user.device # Nil => devices[req[r].user.device] # Nil
      /\ req[r].did \in DeviceId /\ devices[req[r].did] # Nil
  BY DEF BaseInv, LocalOK, BindUser, Op, HasUser, KnowsRow, Past
<1>2. users[u] \in UserRow /\ e \in DeviceId /\ devices[e] # Nil
  BY <1>1, Rows DEF UserRow
<1>3. users' = [users EXCEPT ![u] = x] /\ Answer(r, "ok")
  BY DEF BindUser
<1>4. Answered(r, "ok")
  BY <1>3, AnswerFrame DEF BaseInv, Typed
<1> HIDE DEF e
<1>5. /\ x \in UserRow /\ x.device = e /\ x.name = users[u].name
      /\ x.password = users[u].password /\ x.active = users[u].active
  BY <1>2 DEF UserRow
<1> HIDE DEF x
<1> QED BY <1>1, <1>2, <1>3, <1>4, <1>5 DEF e, x

LEMMA BindUserBase ==
    ASSUME BaseInv, NEW r \in Request, BindUser(r)
    PROVE  BaseInv'
<1>u. UNCHANGED <<plan, devices, branches, codes, copy, pushes>>
  BY DEF BindUser
<1> DEFINE u == req[r].uid
           e == IF req[r].user.device # Nil THEN req[r].user.device ELSE req[r].did
           x == [users[u] EXCEPT !.device = e]
<1>1.   /\ u = req[r].uid /\ u \in UserId /\ users[u] # Nil
        /\ e \in DeviceId /\ devices[e] # Nil
        /\ users' = [users EXCEPT ![u] = x]
        /\ x \in UserRow /\ x.device = e /\ x.name = users[u].name
        /\ Answered(r, "ok")
        /\ req[r].did \in DeviceId /\ devices[req[r].did] # Nil
  BY BoundUser
<1> HIDE DEF u, e, x
<1>2. ~NameTaken(u, x.name)
  BY <1>1 DEF NameTaken, Named, BaseInv, Refers, UniqueNames
<1>3. /\ users' \in Users /\ users'[u] # Nil
      /\ \A v \in UserId : users[v] # Nil => users'[v] # Nil
      /\ UserRefers(users)' /\ UniqueNames'
  BY <1>1, <1>2, <1>u, UserWritten
<1>4. RowsStay
  BY <1>u, <1>3 DEF RowsStay
<1>5. DeviceRefers(devices)'
  <2>1. \A d \in DeviceId : devices[d] # Nil => devices[d].owner \in UserId \cup {Nil}
    BY Rows DEF DeviceRow
  <2> QED BY <1>u, <1>3, <2>1 DEF DeviceRefers, BaseInv, Refers
<1>6. Refers'
  BY <1>u, <1>3, <1>4, <1>5, CopyRefers DEF Refers
<1>7. Typed'
  BY <1>u, <1>1, <1>3, CodeRowSame DEF BaseInv, Typed, Answered
<1>8. LocalOK(r)'
  BY <1>1, <1>3, <1>u DEF Answered, LocalOK, Past, HasUser, KnowsRow
<1>9. \A q \in Request : LocalOK(q)'
  BY <1>1, <1>4, <1>8, OthersKeep DEF BaseInv, Answered
<1> QED BY <1>6, <1>7, <1>9 DEF BaseInv

\* The users after a reset: those of the name have the new password.
LEMMA ResetUsers ==
    ASSUME BaseInv, NEW r \in Request, SetPassword(r)
    PROVE  /\ users' \in Users
           /\ \A u \in UserId : users'[u] = Nil <=> users[u] = Nil
           /\ \A u \in UserId : users[u] # Nil =>
                /\ users'[u].name = users[u].name
                /\ users'[u].active = users[u].active
                /\ users'[u].device = users[u].device
                /\ users'[u].password = IF u \in Named(plan[r].name) THEN plan[r].password
                                        ELSE users[u].password
<1> DEFINE new(u) == [users[u] EXCEPT !.password = plan[r].password]
<1>1. plan[r].password \in Password
  BY Rows DEF SetPassword, Op, BaseInv, Typed, PlanType
<1>2. \A u \in UserId : users[u] # Nil =>
        /\ new(u) \in UserRow /\ new(u) # Nil /\ new(u).name = users[u].name
        /\ new(u).active = users[u].active /\ new(u).device = users[u].device
        /\ new(u).password = plan[r].password
  BY <1>1, Rows, IdAssumption DEF UserRow
<1>3. users' = [u \in UserId |-> IF u \in Named(plan[r].name) THEN new(u) ELSE users[u]]
  BY DEF SetPassword
<1> HIDE DEF new
<1>4. \A u \in Named(plan[r].name) : u \in UserId /\ users[u] # Nil
  BY DEF Named
<1>5. \A u \in UserId : users[u] \in UserRow \cup {Nil}
  BY Rows
<1>6. users' \in Users
  BY <1>2, <1>3, <1>4, <1>5 DEF Users
<1> QED BY <1>2, <1>3, <1>4, <1>6

LEMMA SetPasswordBase ==
    ASSUME BaseInv, NEW r \in Request, SetPassword(r)
    PROVE  BaseInv'
<1>t. req \in [Request -> LocalType]
  BY DEF BaseInv, Typed
<1>u. UNCHANGED <<plan, devices, branches, codes, copy, pushes>>
  BY DEF SetPassword
<1>r. /\ plan[r].op = "reset" /\ req[r].reply = "none" /\ req[r] \in LocalType
      /\ Goto(r, "spend", req[r])
  BY <1>t DEF BaseInv, LocalOK, SetPassword, Op
<1>1. /\ users' \in Users
      /\ \A u \in UserId : users'[u] = Nil <=> users[u] = Nil
      /\ \A u \in UserId : users[u] # Nil =>
           users'[u].name = users[u].name /\ users'[u].device = users[u].device
  BY ResetUsers
<1>2. RowsStay
  BY <1>u, <1>1 DEF RowsStay
<1>3. UserRefers(users)' /\ UniqueNames'
  BY <1>1, <1>u DEF UserRefers, UniqueNames, BaseInv, Refers
<1>4. DeviceRefers(devices)'
  <2>1. \A d \in DeviceId : devices[d] # Nil => devices[d].owner \in UserId \cup {Nil}
    BY Rows DEF DeviceRow
  <2> QED BY <1>u, <1>1, <2>1 DEF DeviceRefers, BaseInv, Refers
<1>5. Refers'
  BY <1>u, <1>2, <1>3, <1>4, CopyRefers DEF Refers
<1>6. Became(r, "spend", req[r])
  BY <1>r, <1>t, GotoFrame DEF Pc
<1>7. Typed'
  BY <1>u, <1>1, <1>6, CodeRowSame DEF BaseInv, Typed, Became
<1>8. LocalOK(r)'
  BY <1>r, <1>6 DEF Became, LocalOK, Past, HasUser, KnowsRow
<1>9. \A q \in Request : LocalOK(q)'
  BY <1>2, <1>6, <1>8, OthersKeep DEF BaseInv, Became
<1> QED BY <1>5, <1>7, <1>9 DEF BaseInv

LEMMA CopyBase == ASSUME BaseInv, Copy PROVE BaseInv'
<1>1. /\ copy' = [users |-> users, devices |-> devices]
      /\ UNCHANGED <<plan, users, devices, branches, codes, req, pushes>>
  BY DEF Copy
<1>2. copy'.users = users /\ copy'.devices = devices
  BY <1>1
<1>3. Typed'
  BY <1>1, <1>2, CodeRowSame DEF BaseInv, Typed
<1>4. Refers'
  BY <1>1, <1>2 DEF BaseInv, Refers, UserRefers, DeviceRefers, UniqueNames
<1>5. \A q \in Request : LocalOK(q)'
  BY <1>1, OthersKeep DEF BaseInv, RowsStay
<1> QED BY <1>3, <1>4, <1>5 DEF BaseInv

LEMMA PushUserBase == ASSUME BaseInv, NEW u \in UserId, PushUser(u) PROVE BaseInv'
<1> DEFINE x == copy.users[u]
<1>1. /\ copy # Nil /\ x # Nil /\ ~NameTaken(u, x.name)
      /\ users' = [users EXCEPT ![u] = x] /\ copy' = Nil /\ pushes' = pushes + 1
      /\ UNCHANGED <<plan, devices, branches, codes, req>>
  BY DEF PushUser
<1>2. x \in UserRow /\ (x.device # Nil => devices[x.device] # Nil)
  BY <1>1 DEF BaseInv, Typed, Users, Refers, UserRefers
<1>3. /\ users' \in Users
      /\ \A v \in UserId : users[v] # Nil => users'[v] # Nil
      /\ UserRefers(users)' /\ UniqueNames'
  BY <1>1, <1>2, UserWritten
<1>4. RowsStay
  BY <1>1, <1>3 DEF RowsStay
<1>5. DeviceRefers(devices)'
  <2>1. \A d \in DeviceId : devices[d] # Nil => devices[d].owner \in UserId \cup {Nil}
    BY Rows DEF DeviceRow
  <2> QED BY <1>1, <1>3, <2>1 DEF DeviceRefers, BaseInv, Refers
<1>6. Refers'
  BY <1>1, <1>3, <1>5 DEF Refers
<1>7. Typed'
  BY <1>1, <1>3, CodeRowSame DEF BaseInv, Typed
<1>8. \A q \in Request : LocalOK(q)'
  BY <1>1, <1>4, OthersKeep DEF BaseInv
<1> QED BY <1>6, <1>7, <1>8 DEF BaseInv

LEMMA PushDeviceBase == ASSUME BaseInv, NEW e \in DeviceId, PushDevice(e) PROVE BaseInv'
<1> DEFINE x == copy.devices[e]
<1>1. /\ copy # Nil /\ x # Nil
      /\ devices' = [devices EXCEPT ![e] = x] /\ copy' = Nil /\ pushes' = pushes + 1
      /\ UNCHANGED <<plan, users, branches, codes, req>>
  BY DEF PushDevice
<1>2. /\ x \in DeviceRow /\ x.branch \in branches
      /\ x.owner # Nil => users[x.owner] # Nil
  BY <1>1 DEF BaseInv, Typed, Devices, Refers, DeviceRefers
<1>3. /\ devices' \in Devices
      /\ \A d \in DeviceId : devices[d] # Nil => devices'[d] # Nil
      /\ DeviceRefers(devices)' /\ UserRefers(users)'
  BY <1>1, <1>2, DeviceWritten
<1>4. RowsStay
  BY <1>1, <1>3 DEF RowsStay
<1>5. Refers'
  BY <1>1, <1>3 DEF Refers, UniqueNames, BaseInv
<1>6. Typed'
  BY <1>1, <1>3, CodeRowSame DEF BaseInv, Typed
<1>7. \A q \in Request : LocalOK(q)'
  BY <1>1, <1>4, OthersKeep DEF BaseInv
<1> QED BY <1>5, <1>6, <1>7 DEF BaseInv

LEMMA NextBase == BaseInv /\ [Next]_vars => BaseInv'
<1> SUFFICES ASSUME BaseInv, [Next]_vars PROVE BaseInv'
  OBVIOUS
<1>1. ASSUME NEW r \in Request, Provision(r) PROVE BaseInv'
  BY <1>1, ValidateUserBase, ReadUserBase, SaveUserBase, FreshUserBase, ResolveSucursalBase,
     FindDeviceBase, SaveDeviceBase, BindUserBase, RetryBase DEF Provision
<1>2. ASSUME NEW r \in Request, Register(r) \/ ResetCode(r) \/ ResetPassword(r) PROVE BaseInv'
  BY <1>2, CodesBase, SetPasswordBase DEF ResetPassword
<1>3. ASSUME NEW c \in DOMAIN codes, Expire(c) PROVE BaseInv'
  BY <1>3, ExpireBase
<1>4. CASE Copy
  BY <1>4, CopyBase
<1>5. ASSUME NEW u \in UserId, PushUser(u) PROVE BaseInv'
  BY <1>5, PushUserBase
<1>6. ASSUME NEW d \in DeviceId, PushDevice(d) PROVE BaseInv'
  BY <1>6, PushDeviceBase
<1>7. CASE UNCHANGED vars
  <2>1. Typed'
    BY <1>7, CodeRowSame DEF BaseInv, Typed, vars
  <2>2. Refers'
    BY <1>7 DEF BaseInv, Refers, UserRefers, DeviceRefers, UniqueNames, vars
  <2>3. \A q \in Request : LocalOK(q)'
    BY <1>7, OthersKeep DEF BaseInv, RowsStay, vars
  <2> QED BY <2>1, <2>2, <2>3 DEF BaseInv
<1> QED BY <1>1, <1>2, <1>3, <1>4, <1>5, <1>6, <1>7 DEF Next

LEMMA BaseInvHolds == Spec => []BaseInv
BY InitBase, NextBase, PTL DEF Spec

\* Whatever provisions, resets and pushes run at the same time, users and devices refer
\* to rows that exist, user names are unique, and a provision that has saved its device
\* works on a user and a device that exist.
THEOREM RowsRefer == Spec => []AuthTypeOK
<1>1. BaseInv => AuthTypeOK
  <2> SUFFICES ASSUME BaseInv PROVE AuthTypeOK
    OBVIOUS
  <2>1. \A u \in UserId : users[u] # Nil =>
            /\ users[u].active \in BOOLEAN
            /\ users[u].device # Nil => devices[users[u].device] # Nil
            /\ Named(users[u].name) = {u}
    BY Rows DEF UserRow, Named, BaseInv, Refers, UserRefers, UniqueNames
  <2>2. \A d \in DeviceId : devices[d] # Nil =>
            /\ devices[d].branch \in branches
            /\ devices[d].owner # Nil => users[devices[d].owner] # Nil
    BY DEF BaseInv, Refers, DeviceRefers
  <2>3. \A r \in Request :
            /\ req[r].reply \in {"none", "ok", "denied", "error"}
            /\ (req[r].reply # "none") = (req[r].pc = "done")
            /\ Past(r) => users[req[r].uid] # Nil /\ devices[req[r].did] # Nil
    BY Rows DEF LocalType, BaseInv, LocalOK
  <2>4. codes \in Seq([name : {plan[r].name : r \in Request}, used : BOOLEAN,
                       expired : BOOLEAN, sent : BOOLEAN])
    BY DEF BaseInv, Typed, CodeRow
  <2> QED BY <2>1, <2>2, <2>3, <2>4 DEF AuthTypeOK
<1> QED BY <1>1, BaseInvHolds, PTL

-----------------------------------------------------------------------------
(* Where the requests are: which step leads to which label *)

LEMMA GotoLabel ==
    ASSUME req \in [Request -> LocalType], req' \in [Request -> LocalType],
           NEW r \in Request, NEW l, NEW loc, Goto(r, l, loc)
    PROVE  /\ \A q \in Request \ {r} : req'[q] = req[q]
           /\ req'[r].pc = l /\ req'[r].reply = loc.reply /\ req'[r].uid = loc.uid
           /\ req'[r].user = loc.user /\ req'[r].did = loc.did /\ req'[r].device = loc.device
<1> DEFINE x == [loc EXCEPT !.pc = l]
<1>1. req' = [req EXCEPT ![r] = x]
  BY DEF Goto
<1>2. x \in LocalType /\ req'[r] = x /\ \A q \in Request \ {r} : req'[q] = req[q]
  BY <1>1
<1>3. DOMAIN x = {"pc", "reply", "uid", "user", "owned", "branch", "did", "device", "code"}
  BY <1>2 DEF LocalType
<1>4. DOMAIN loc = DOMAIN x
  OBVIOUS
<1>5. /\ x.pc = l /\ x.reply = loc.reply /\ x.uid = loc.uid /\ x.user = loc.user
      /\ x.did = loc.did /\ x.device = loc.device
  BY <1>3, <1>4
<1> QED BY <1>2, <1>5

\* What a step of request r does to its place in the code.
RequestDone(r) ==
    /\ plan' = plan /\ pushes' = pushes /\ moved \subseteq moved'
    /\ \A q \in Request \ {r} : req'[q] = req[q]
    /\ \/ ValidateUser(r) /\ req[r].pc = "start" /\ req'[r].pc = "branch"
       \/ ReadUser(r) /\ req[r].pc = "start" /\ req'[r].pc = "saveUser"
       \/ /\ SaveUser(r) /\ ~NameTaken(req[r].uid, req[r].user.name)
          /\ req[r].pc = "saveUser" /\ req'[r].pc = "fresh" /\ req'[r].uid = req[r].uid
       \/ /\ req[r].pc \in {"fresh", "branch"} /\ req'[r].pc \in {"branch", "device"}
          /\ req'[r].uid = req[r].uid /\ UNCHANGED <<users, devices>>
       \/ /\ FindDevice(r) /\ req[r].pc = "device" /\ req'[r].pc = "saveDevice"
          /\ req'[r].uid = req[r].uid
       \/ /\ SaveDevice(r) /\ ~MacTaken(req[r].did, req[r].device)
          /\ devices' = [devices EXCEPT ![req[r].did] = req[r].device]
          /\ req[r].pc = "saveDevice" /\ req'[r].pc = "bind"
          /\ req'[r].uid = req[r].uid /\ req'[r].did = req[r].did
       \/ /\ BindUser(r) /\ req[r].pc = "bind" /\ req'[r].pc = "done" /\ req'[r].reply = "ok"
          /\ req'[r].uid = req[r].uid /\ req'[r].did = req[r].did
       \/ /\ req'[r].pc \in {"start", "void", "insert", "mail", "setPassword", "spend", "done"}
          /\ ~Past(r) /\ ~Past(r)' /\ UNCHANGED devices

LEMMA RequestDoes ==
    ASSUME BaseInv, BaseInv', NEW r \in Request,
           Provision(r) \/ Register(r) \/ ResetCode(r) \/ ResetPassword(r)
    PROVE  RequestDone(r)
<1>t. /\ req \in [Request -> LocalType] /\ req' \in [Request -> LocalType]
      /\ req[r] \in LocalType
      /\ (req[r].reply # "none") = (req[r].pc = "done")
      /\ (req'[r].reply # "none") = (req'[r].pc = "done")
  BY DEF BaseInv, Typed, LocalOK
<1>h. plan' = plan /\ pushes' = pushes /\ moved \subseteq moved'
  BY DEF Provision, ValidateUser, ReadUser, SaveUser, FreshUser, ResolveSucursal, FindDevice,
         SaveDevice, BindUser, Retry, Register, ResetCode, ReadForCode, VoidCodes, InsertCode,
         SendCode, ResetPassword, LookUpCode, SetPassword, SpendCode
\* An answer that is not that of a provision which has bound its user.
<1>a. ASSUME NEW e \in {"ok", "denied", "error"}, Answer(r, e), UNCHANGED devices,
             e # "ok" \/ plan[r].op # "provision", req[r].pc # "bind", req[r].pc # "done"
      PROVE  RequestDone(r)
  <2>1. Answered(r, e)
    BY <1>a, <1>t, AnswerFrame
  <2> QED BY <1>h, <1>a, <1>t, <2>1 DEF Answered, RequestDone, Past
\* A step of a request that provisions nothing.
<1>g. ASSUME NEW l \in {"void", "insert", "mail", "setPassword", "spend"}, NEW loc,
             Goto(r, l, loc), UNCHANGED devices, plan[r].op # "provision"
      PROVE  RequestDone(r)
  BY <1>h, <1>g, <1>t, GotoLabel DEF RequestDone, Past
<1>1. CASE ValidateUser(r)
  <2>1. req[r].pc = "start" /\ UNCHANGED devices
    BY <1>1 DEF ValidateUser, Op
  <2>2. CASE Answer(r, "denied")
    BY <1>a, <2>1, <2>2
  <2>3. ASSUME NEW loc, Goto(r, "branch", loc) PROVE RequestDone(r)
    BY <1>h, <1>1, <1>t, <2>1, <2>3, GotoLabel DEF RequestDone
  <2> QED BY <1>1, <2>2, <2>3 DEF ValidateUser
<1>2. CASE ReadUser(r)
  <2>1. req[r].pc = "start" /\ \E loc : Goto(r, "saveUser", loc)
    BY <1>2 DEF ReadUser, Op
  <2> QED BY <1>h, <1>2, <1>t, <2>1, GotoLabel DEF RequestDone
<1>3. CASE SaveUser(r)
  <2>1. req[r].pc = "saveUser"
    BY <1>3 DEF SaveUser, Op
  <2>2. CASE Answer(r, "error") /\ UNCHANGED devices
    BY <1>a, <2>1, <2>2
  <2>3. CASE ~NameTaken(req[r].uid, req[r].user.name) /\ Goto(r, "fresh", req[r])
    BY <1>h, <1>3, <1>t, <2>1, <2>3, GotoLabel DEF RequestDone
  <2> QED BY <1>3, <2>2, <2>3 DEF SaveUser
<1>4. CASE FreshUser(r)
  <2>1. /\ req[r].pc = "fresh" /\ UNCHANGED <<users, devices>>
        /\ Goto(r, "branch", [req[r] EXCEPT !.user = users[req[r].uid], !.owned = Owned(req[r].uid)])
    BY <1>4 DEF FreshUser, Op
  <2>2. [req[r] EXCEPT !.user = users[req[r].uid], !.owned = Owned(req[r].uid)].uid = req[r].uid
    BY <1>t DEF LocalType
  <2> QED BY <1>h, <1>t, <2>1, <2>2, GotoLabel DEF RequestDone
<1>5. CASE ResolveSucursal(r)
  <2>1. req[r].pc = "branch" /\ UNCHANGED <<users, devices>>
    BY <1>5 DEF ResolveSucursal, Op
  <2>2. CASE Answer(r, "error")
    BY <1>a, <2>1, <2>2
  <2>3. ASSUME NEW b, Goto(r, "device", [req[r] EXCEPT !.branch = b]) PROVE RequestDone(r)
    <3> DEFINE loc == [req[r] EXCEPT !.branch = b]
    <3>1. loc.uid = req[r].uid /\ Goto(r, "device", loc)
      BY <1>t, <2>3 DEF LocalType
    <3> HIDE DEF loc
    <3>2. /\ \A q \in Request \ {r} : req'[q] = req[q]
          /\ req'[r].pc = "device" /\ req'[r].uid = req[r].uid
      BY <1>t, <3>1, GotoLabel
    <3> QED BY <1>h, <2>1, <3>2 DEF RequestDone
  <2> QED BY <1>5, <2>2, <2>3 DEF ResolveSucursal
<1>6. CASE FindDevice(r)
  <2>1. req[r].pc = "device"
    BY <1>6 DEF FindDevice, Op
  <2>2. PICK loc \in LocalType : Became(r, "saveDevice", loc) /\ loc.uid = req[r].uid
    BY <1>6, PreparedDevice
  <2> QED BY <1>h, <1>6, <2>1, <2>2 DEF RequestDone, Became
<1>7. CASE SaveDevice(r)
  <2>1. req[r].pc = "saveDevice"
    BY <1>7 DEF SaveDevice, Op
  <2>2. CASE Answer(r, "error") /\ UNCHANGED devices
    BY <1>a, <2>1, <2>2
  <2>3. CASE /\ ~MacTaken(req[r].did, req[r].device) /\ Goto(r, "bind", req[r])
             /\ devices' = [devices EXCEPT ![req[r].did] = req[r].device]
    BY <1>h, <1>7, <1>t, <2>1, <2>3, GotoLabel DEF RequestDone
  <2> QED BY <1>7, <2>2, <2>3 DEF SaveDevice
<1>8. CASE BindUser(r)
  <2>1. req[r].pc = "bind" /\ Answer(r, "ok")
    BY <1>8 DEF BindUser, Op
  <2>2. Answered(r, "ok")
    BY <1>t, <2>1, AnswerFrame
  <2> QED BY <1>h, <1>8, <2>1, <2>2 DEF RequestDone, Answered
<1>9. CASE Retry(r)
  <2>1. UNCHANGED devices /\ req[r].reply = "error" /\ req' = [req EXCEPT ![r] = Idle]
    BY <1>9 DEF Retry
  <2>2. req'[r].pc = "start" /\ req'[r].reply = "none" /\ \A q \in Request \ {r} : req'[q] = req[q]
    BY <1>t, <2>1 DEF Idle
  <2> QED BY <1>h, <1>t, <2>1, <2>2 DEF RequestDone, Past
<1>10. CASE Register(r) \/ ResetCode(r) \/ ResetPassword(r)
  <2>1. UNCHANGED devices /\ plan[r].op # "provision" /\ req[r].pc # "done" /\ req[r].pc # "bind"
    BY <1>10 DEF Register, ResetCode, ReadForCode, VoidCodes, InsertCode, SendCode, ResetPassword,
                 LookUpCode, SetPassword, SpendCode, Op
  <2>2. \/ \E e \in {"ok", "denied", "error"} : Answer(r, e)
        \/ \E l \in {"void", "insert", "mail", "setPassword", "spend"}, loc \in {req[r]} \cup
               {[req[r] EXCEPT !.code = n] : n \in Nat \cup DOMAIN codes} : Goto(r, l, loc)
    <3>1. Len(codes) + 1 \in Nat
      BY DEF BaseInv, Typed
    <3> QED BY <1>10, <3>1
       DEF Register, ResetCode, ReadForCode, VoidCodes, InsertCode, SendCode, ResetPassword,
           LookUpCode, SetPassword, SpendCode
  <2> QED BY <1>a, <1>g, <2>1, <2>2
<1> QED BY <1>1, <1>2, <1>3, <1>4, <1>5, <1>6, <1>7, <1>8, <1>9, <1>10 DEF Provision

-----------------------------------------------------------------------------
(* One device per MAC *)

\* A step that leaves the MACs alone and prepares no device.
LEMMA MacsStay ==
    ASSUME MacInv, pushes' = pushes,
           \A d \in DeviceId : devices'[d] = Nil <=> devices[d] = Nil,
           \A d \in DeviceId : devices[d] # Nil => devices'[d].mac = devices[d].mac,
           \A q \in Request : req'[q].pc = "saveDevice" => req'[q] = req[q]
    PROVE  OneDevicePerMac' /\ OneSpelling'
<1>1. OneDevicePerMac'
  BY DEF MacInv, OneDevicePerMac
<1>2. OneSpelling'
  BY DEF MacInv, OneSpelling
<1> QED BY <1>1, <1>2

\* The device prepared for a MAC is the one that has it already, however it is spelled.
LEMMA FindDeviceMac ==
    ASSUME MacInv, BaseInv', NEW r \in Request, FindDevice(r), RequestDone(r)
    PROVE  OneDevicePerMac' /\ OneSpelling'
<1>u. UNCHANGED <<plan, devices, pushes>> /\ \A q \in Request \ {r} : req'[q] = req[q]
  BY DEF FindDevice, RequestDone
<1>1. OneDevicePerMac'
  BY <1>u DEF MacInv, OneDevicePerMac
<1>2. PICK loc \in LocalType :
             /\ Became(r, "saveDevice", loc)
             /\ loc.did \in DeviceId /\ loc.device \in DeviceRow
             /\ loc.device.mac = NormalizeMac(plan[r].mac)
             /\ \/ Matches(loc.device.mac) = {}
                \/ loc.did \in Matches(loc.device.mac)
  BY PreparedDevice DEF MacInv
<1> DEFINE mac == loc.device.mac
<1>3. mac \in MacAddress /\ mac.spelling = "lower"
  <2>1. plan[r].mac \in MacAddress
    BY Rows DEF MacInv, PlanType
  <2> QED BY <1>2, <2>1 DEF NormalizeMac, MacAddress
<1> HIDE DEF mac
<1>4. \A e \in DeviceId : devices[e] # Nil /\ devices[e].mac.address = mac.address => e \in Matches(mac)
  <2> SUFFICES ASSUME NEW e \in DeviceId, devices[e] # Nil, devices[e].mac.address = mac.address
               PROVE  e \in Matches(mac)
    OBVIOUS
  <2>1. devices[e].mac \in MacAddress
    BY Rows DEF MacInv, DeviceRow
  <2>2. [devices[e].mac EXCEPT !.spelling = "lower"] = mac
    BY <1>3, <2>1 DEF MacAddress
  <2> QED BY <2>2 DEF Matches
<1>5. ASSUME pushes = 0, NEW e \in DeviceId, e # loc.did, devices[e] # Nil
      PROVE  devices[e].mac.address # mac.address
  <2>1. SUFFICES ASSUME devices[e].mac.address = mac.address PROVE FALSE
    OBVIOUS
  <2>2. loc.did \in Matches(mac)
    BY <1>2, <1>4, <1>5, <2>1 DEF mac
  <2>3. /\ devices[loc.did] # Nil
        /\ [devices[loc.did].mac EXCEPT !.spelling = "lower"] = mac
    BY <2>2 DEF Matches
  <2>4. devices[loc.did].mac \in MacAddress
    BY <1>2, <2>3, Rows DEF MacInv, DeviceRow
  <2>5. devices[loc.did].mac.address = mac.address
    BY <2>3, <2>4 DEF MacAddress
  <2> QED BY <1>2, <1>5, <2>1, <2>3, <2>5 DEF MacInv, OneDevicePerMac
<1>6. OneSpelling'
  <2> SUFFICES ASSUME pushes = 0, NEW q \in Request, NEW e \in DeviceId,
                      req'[q].pc = "saveDevice", e # req'[q].did, devices[e] # Nil,
                      devices[e].mac.address = req'[q].device.mac.address
               PROVE  devices[e].mac.spelling = "lower"
    BY <1>u DEF OneSpelling
  <2>1. CASE q = r
    BY <1>2, <1>5, <2>1 DEF Became, mac
  <2>2. CASE q # r
    BY <1>u, <2>2 DEF MacInv, OneSpelling
  <2> QED BY <2>1, <2>2
<1> QED BY <1>1, <1>6

\* The index compares the MAC that is saved with the lower-case MAC of any other device.
LEMMA SaveDeviceMac ==
    ASSUME MacInv, BaseInv', NEW r \in Request, RequestDone(r),
           req[r].pc = "saveDevice", ~MacTaken(req[r].did, req[r].device),
           devices' = [devices EXCEPT ![req[r].did] = req[r].device], req'[r].pc # "saveDevice"
    PROVE  OneDevicePerMac' /\ OneSpelling'
<1> DEFINE d == req[r].did
           x == req[r].device
<1>1. /\ d \in DeviceId /\ x \in DeviceRow /\ x.mac = NormalizeMac(plan[r].mac)
  BY DEF MacInv, BaseInv, LocalOK
<1>2. x.mac \in MacAddress /\ x.mac.spelling = "lower"
  <2>1. plan[r].mac \in MacAddress
    BY Rows DEF MacInv, PlanType
  <2> QED BY <1>1, <2>1 DEF NormalizeMac, MacAddress
<1>3. devices'[d] = x /\ \A e \in DeviceId \ {d} : devices'[e] = devices[e]
  BY <1>1 DEF MacInv, BaseInv, Typed, Devices
<1>4. pushes' = pushes /\ \A q \in Request \ {r} : req'[q] = req[q]
  BY DEF RequestDone
<1>5. ASSUME pushes = 0, NEW e \in DeviceId \ {d}, devices[e] # Nil
      PROVE  devices[e].mac.address # x.mac.address
  <2>1. SUFFICES ASSUME devices[e].mac.address = x.mac.address PROVE FALSE
    OBVIOUS
  <2>2. devices[e].mac.spelling = "lower"
    BY <1>5, <2>1 DEF MacInv, OneSpelling
  <2>3. devices[e].mac \in MacAddress
    BY <1>5, Rows DEF MacInv, DeviceRow
  <2>4. devices[e].mac = x.mac
    BY <1>2, <2>1, <2>2, <2>3 DEF MacAddress
  <2> QED BY <1>5, <2>4 DEF MacTaken
<1> HIDE DEF d, x
<1>6. OneDevicePerMac'
  BY <1>1, <1>3, <1>4, <1>5 DEF MacInv, OneDevicePerMac
<1>7. OneSpelling'
  <2> SUFFICES ASSUME pushes = 0, NEW q \in Request, NEW e \in DeviceId,
                      req'[q].pc = "saveDevice", e # req'[q].did, devices'[e] # Nil,
                      devices'[e].mac.address = req'[q].device.mac.address
               PROVE  devices'[e].mac.spelling = "lower"
    BY <1>4 DEF OneSpelling
  <2>1. q # r /\ req'[q] = req[q]
    BY <1>4
  <2>2. CASE e = d
    BY <1>2, <1>3, <2>2
  <2>3. CASE e # d
    BY <1>3, <2>1, <2>3 DEF MacInv, OneSpelling
  <2> QED BY <2>2, <2>3
<1> QED BY <1>6, <1>7

LEMMA NextMac == MacInv /\ [Next]_vars => MacInv'
<1> SUFFICES ASSUME MacInv, [Next]_vars PROVE OneDevicePerMac' /\ OneSpelling'
  BY NextBase DEF MacInv
<1>b. BaseInv /\ BaseInv'
  BY NextBase DEF MacInv
<1>1. ASSUME NEW r \in Request,
             Provision(r) \/ Register(r) \/ ResetCode(r) \/ ResetPassword(r)
      PROVE  OneDevicePerMac' /\ OneSpelling'
  <2>1. RequestDone(r)
    BY <1>1, <1>b, RequestDoes
  <2>2. pushes' = pushes /\ \A q \in Request \ {r} : req'[q] = req[q]
    BY <2>1 DEF RequestDone
  <2>3. CASE UNCHANGED devices /\ req'[r].pc # "saveDevice"
    BY <2>2, <2>3, MacsStay
  <2>4. CASE FindDevice(r)
    BY <1>b, <2>1, <2>4, FindDeviceMac
  <2>5. CASE /\ req[r].pc = "saveDevice" /\ ~MacTaken(req[r].did, req[r].device)
             /\ devices' = [devices EXCEPT ![req[r].did] = req[r].device]
             /\ req'[r].pc = "bind"
    BY <1>b, <2>1, <2>5, SaveDeviceMac
  <2>6. CASE SaveUser(r) /\ ~NameTaken(req[r].uid, req[r].user.name) /\ req'[r].pc = "fresh"
    <3>1. devices' = IF req[r].user.known THEN Reowned(req[r].uid, req[r].owned) ELSE devices
      BY <2>6 DEF SaveUser
    <3>2. CASE UNCHANGED devices
      BY <2>3, <2>6, <3>2
    <3>3. CASE devices' = Reowned(req[r].uid, req[r].owned)
      <4>1. req[r].uid \in UserId
        BY <1>b, <2>6 DEF SaveUser, Op, BaseInv, LocalOK
      <4>2. /\ \A d \in DeviceId : devices'[d] = Nil <=> devices[d] = Nil
            /\ \A d \in DeviceId : devices[d] # Nil => devices'[d].mac = devices[d].mac
        BY <1>b, <3>3, <4>1, DevicesReowned
      <4> QED BY <2>2, <2>6, <4>2, MacsStay
    <3> QED BY <3>1, <3>2, <3>3
  <2>7. ValidateUser(r) \/ ReadUser(r) \/ BindUser(r) => UNCHANGED devices
    BY DEF ValidateUser, ReadUser, BindUser
  <2> QED BY <2>1, <2>3, <2>4, <2>5, <2>6, <2>7 DEF RequestDone
<1>2. CASE UNCHANGED vars \/ Copy \/ \E c \in DOMAIN codes : Expire(c)
  <2>1. UNCHANGED <<devices, req, pushes>>
    BY <1>2 DEF vars, Copy, Expire
  <2> QED BY <2>1, MacsStay
<1>3. CASE (\E u \in UserId : PushUser(u)) \/ (\E d \in DeviceId : PushDevice(d))
  <2>1. pushes' # 0
    BY <1>3, <1>b DEF PushUser, PushDevice, BaseInv, Typed
  <2> QED BY <2>1 DEF OneDevicePerMac, OneSpelling
<1> QED BY <1>1, <1>2, <1>3 DEF Next

\* Provisionings of one MAC in any spelling, also when they run at once, end in one
\* device: the unique index refuses the second insertion because both write the MAC in
\* lower case, and one that finds an older spelling updates that device.
THEOREM OneDeviceStays == Spec => []OneDevicePerMac
<1>1. Init => MacInv
  <2> SUFFICES ASSUME Init PROVE OneDevicePerMac /\ OneSpelling
    BY InitBase DEF MacInv
  <2>1. OneDevicePerMac
    <3>1. PICK w \in Worlds : devices = w.devices
      BY DEF Init
    <3> QED BY <3>1, WorldsAssumption DEF OneDevicePerMac
  <2>2. \A r \in Request : req[r].pc = "start"
    BY DEF Init, Idle
  <2>3. OneSpelling
    BY <2>2 DEF OneSpelling
  <2> QED BY <2>1, <2>3
<1>2. MacInv => OneDevicePerMac
  BY DEF MacInv
<1> QED BY <1>1, <1>2, NextMac, PTL DEF Spec

-----------------------------------------------------------------------------
(* Resets *)

\* The users of N are given a password, and all of them that were read before are
\* exposed; the rows of the others keep theirs, or get the one of a row that was read.
LEMMA PasswordsSet ==
    ASSUME ResetInv, NEW N, N \subseteq UserId, plan' = plan, copy' = copy \/ copy' = Nil,
           \A q \in Request : req'[q].pc = "saveUser" => req'[q] = req[q],
           \A u \in N : users'[u].password = current'[u],
           \A u \in UserId \ N : current'[u] = current[u] /\ (u \in exposed' <=> u \in exposed),
           \A u \in UserId \ N : users'[u] # Nil /\ u \notin exposed => users'[u].password = current[u],
           N \cap ReadBefore \subseteq exposed'
    PROVE  ResetSticks' /\ ReadSticks' /\ CopySticks'
<1>1. ResetSticks'
  BY DEF ResetSticks
<1>2. ReadSticks'
  <2> SUFFICES ASSUME NEW q \in Request, plan[q].op = "provision", req'[q].pc = "saveUser",
                      req'[q].user.known, req'[q].uid \notin exposed'
               PROVE  req'[q].user.password = current'[req'[q].uid]
    BY DEF ReadSticks, Op
  <2>1. req'[q] = req[q] /\ req[q].pc = "saveUser" /\ req[q].uid \in UserId
    BY DEF ResetInv, BaseInv, LocalOK
  <2>2. req[q].uid \in ReadBefore
    BY <2>1 DEF ReadBefore, Op
  <2>3. req[q].uid \in UserId \ N
    BY <2>1, <2>2
  <2> QED BY <2>1, <2>3 DEF ResetInv, ReadSticks, Op
<1>3. CopySticks'
  <2> SUFFICES ASSUME copy' # Nil, NEW u \in UserId, copy'.users[u] # Nil, u \notin exposed'
               PROVE  copy'.users[u].password = current'[u]
    BY DEF CopySticks
  <2>1. copy' = copy /\ copy # Nil
    OBVIOUS
  <2>2. u \in ReadBefore
    BY <2>1 DEF ReadBefore
  <2>3. u \in UserId \ N
    BY <2>2
  <2> QED BY <2>1, <2>3 DEF ResetInv, CopySticks
<1> QED BY <1>1, <1>2, <1>3

\* A step that writes no password.
LEMMA PasswordsStay ==
    ASSUME ResetInv, plan' = plan, copy' = copy \/ copy' = Nil, UNCHANGED <<current, exposed>>,
           \A q \in Request : req'[q].pc = "saveUser" => req'[q] = req[q],
           \A u \in UserId : users'[u] # Nil /\ u \notin exposed => users'[u].password = current[u]
    PROVE  ResetSticks' /\ ReadSticks' /\ CopySticks'
<1> DEFINE N == {}
<1>1. /\ N \subseteq UserId /\ N \cap ReadBefore \subseteq exposed'
      /\ \A u \in N : users'[u].password = current'[u]
      /\ \A u \in UserId \ N : current'[u] = current[u] /\ (u \in exposed' <=> u \in exposed)
      /\ \A u \in UserId \ N : users'[u] # Nil /\ u \notin exposed => users'[u].password = current[u]
  OBVIOUS
<1> HIDE DEF N
<1> QED BY <1>1, PasswordsSet

\* The row that a request will save has the password that is in the table.
LEMMA ReadUserSticks ==
    ASSUME ResetInv, BaseInv', NEW r \in Request, ReadUser(r)
    PROVE  ResetSticks' /\ ReadSticks' /\ CopySticks'
<1>t. /\ req \in [Request -> LocalType] /\ req' \in [Request -> LocalType]
      /\ req[r] \in LocalType
  BY DEF ResetInv, BaseInv, Typed
<1>u. UNCHANGED <<plan, users, copy, current, exposed>>
  BY DEF ReadUser
<1>k. ASSUME NEW loc, Goto(r, "saveUser", loc),
             loc.user.known => /\ loc.uid \in UserId /\ users[loc.uid] # Nil
                               /\ loc.user.password = users[loc.uid].password
      PROVE  ReadSticks'
  <2>1. /\ \A q \in Request \ {r} : req'[q] = req[q]
        /\ req'[r].uid = loc.uid /\ req'[r].user = loc.user
    BY <1>k, <1>t, GotoLabel
  <2>2. ASSUME req'[r].user.known, req'[r].uid \notin exposed
        PROVE  req'[r].user.password = current[req'[r].uid]
    BY <1>k, <2>1, <2>2 DEF ResetInv, ResetSticks
  <2> QED BY <1>u, <2>1, <2>2 DEF ResetInv, ReadSticks, Op
<1>1. CASE Named(plan[r].name) = {}
  <2> DEFINE new == [name |-> plan[r].name, password |-> plan[r].hash, active |-> TRUE,
                     device |-> Nil, known |-> FALSE]
             id == IF plan[r].uid = Nil THEN r ELSE plan[r].uid
             loc == [req[r] EXCEPT !.uid = id, !.user = new]
  <2>1. Goto(r, "saveUser", loc) /\ ~new.known
    BY <1>1 DEF ReadUser
  <2> HIDE DEF new, id
  <2>2. loc.user = new
    BY <1>t DEF LocalType
  <2> HIDE DEF loc
  <2>3. ReadSticks'
    BY <1>k, <2>1, <2>2
  <2> QED BY <1>u, <2>3 DEF ResetInv, ResetSticks, CopySticks
<1>2. CASE Named(plan[r].name) # {}
  <2> DEFINE found(u) == [name |-> users[u].name, password |-> users[u].password,
                          active |-> TRUE, device |-> users[u].device, known |-> TRUE]
             loc(u) == [req[r] EXCEPT !.uid = u, !.user = found(u), !.owned = Owned(u)]
  <2>1. PICK u \in Named(plan[r].name) : Goto(r, "saveUser", loc(u))
    BY <1>2 DEF ReadUser
  <2>2. u \in UserId /\ users[u] # Nil /\ found(u).password = users[u].password
    BY DEF Named
  <2> HIDE DEF found
  <2>3. loc(u).uid = u /\ loc(u).user = found(u)
    BY <1>t DEF LocalType
  <2> HIDE DEF loc
  <2>4. ReadSticks'
    BY <1>k, <2>1, <2>2, <2>3
  <2> QED BY <1>u, <2>4 DEF ResetInv, ResetSticks, CopySticks
<1> QED BY <1>1, <1>2

\* A user that is new has the password of the file; one that was read is written back.
LEMMA SaveUserSticks ==
    ASSUME ResetInv, NEW r \in Request, SaveUser(r),
           \A q \in Request : req'[q].pc = "saveUser" => req'[q] = req[q]
    PROVE  /\ current' \in [UserId -> Password \cup {Nil}]
           /\ ResetSticks' /\ ReadSticks' /\ CopySticks'
<1> DEFINE u == req[r].uid
           x == Columns(req[r].user)
<1>r. u \in UserId /\ req[r].user \in UserRead /\ plan[r].op = "provision" /\ req[r].pc = "saveUser"
  BY DEF ResetInv, BaseInv, LocalOK, SaveUser, Op
<1>u. UNCHANGED <<plan, copy>>
  BY DEF SaveUser
<1>f. /\ current \in [UserId -> Password \cup {Nil}] /\ req[r].user.password \in Password
      /\ DOMAIN users = UserId
  BY <1>r DEF ResetInv, UserRead, BaseInv, Typed, Users
<1>1. CASE NameTaken(u, req[r].user.name)
  <2>1. UNCHANGED <<users, current, exposed>>
    BY <1>1 DEF SaveUser
  <2> QED BY <1>f, <1>u, <2>1, PasswordsStay DEF ResetInv, ResetSticks
<1>2. CASE ~NameTaken(u, req[r].user.name)
  <2>1. users' = [users EXCEPT ![u] = x]
    BY <1>2 DEF SaveUser
  <2>2. x.password = req[r].user.password
    BY DEF Columns
  <2> HIDE DEF x
  <2>3. users'[u] = x /\ \A v \in UserId \ {u} : users'[v] = users[v]
    BY <1>f, <1>r, <2>1
  <2>4. CASE req[r].user.known
    <3>1. UNCHANGED <<current, exposed>>
      BY <1>2, <2>4 DEF SaveUser
    <3>2. u \notin exposed => x.password = current[u]
      BY <1>r, <2>2, <2>4 DEF ResetInv, ReadSticks, Op
    <3>3. \A v \in UserId : users'[v] # Nil /\ v \notin exposed => users'[v].password = current[v]
      BY <2>3, <3>2 DEF ResetInv, ResetSticks
    <3> QED BY <1>f, <1>u, <3>1, <3>3, PasswordsStay
  <2>5. CASE ~req[r].user.known
    <3>1. /\ current' = [current EXCEPT ![u] = req[r].user.password]
          /\ exposed' = IF u \in ReadBefore THEN exposed \cup {u} ELSE exposed \ {u}
      BY <1>2, <2>5 DEF SaveUser
    <3>2. /\ current' \in [UserId -> Password \cup {Nil}] /\ current'[u] = x.password
          /\ \A v \in UserId \ {u} : current'[v] = current[v]
      BY <1>f, <1>r, <2>2, <3>1
    <3> HIDE DEF u
    <3>3. /\ \A v \in UserId \ {u} : v \in exposed' <=> v \in exposed
          /\ {u} \cap ReadBefore \subseteq exposed'
      BY <3>1
    <3>4. \A v \in UserId \ {u} : users'[v] # Nil /\ v \notin exposed => users'[v].password = current[v]
      BY <2>3 DEF ResetInv, ResetSticks
    <3> DEFINE N == {u}
    <3>5. /\ N \subseteq UserId /\ N \cap ReadBefore \subseteq exposed'
          /\ \A v \in N : users'[v].password = current'[v]
      BY <1>r, <2>3, <3>2, <3>3 DEF u
    <3>6. /\ \A v \in UserId \ N : current'[v] = current[v] /\ (v \in exposed' <=> v \in exposed)
          /\ \A v \in UserId \ N : users'[v] # Nil /\ v \notin exposed => users'[v].password = current[v]
          /\ plan' = plan /\ (copy' = copy \/ copy' = Nil)
      BY <1>u, <3>2, <3>3, <3>4
    <3> HIDE DEF N
    <3>7. ResetSticks' /\ ReadSticks' /\ CopySticks'
      BY <3>5, <3>6, PasswordsSet
    <3> QED BY <3>2, <3>7
  <2> QED BY <2>4, <2>5
<1> QED BY <1>1, <1>2

\* The users of the name have the new password, and those that were read are exposed.
LEMMA SetPasswordSticks ==
    ASSUME ResetInv, NEW r \in Request, SetPassword(r),
           \A q \in Request : req'[q].pc = "saveUser" => req'[q] = req[q]
    PROVE  /\ current' \in [UserId -> Password \cup {Nil}]
           /\ ResetSticks' /\ ReadSticks' /\ CopySticks'
<1> DEFINE N == Named(plan[r].name)
<1>1. /\ plan' = plan /\ (copy' = copy \/ copy' = Nil)
      /\ current' = [u \in UserId |-> IF u \in N THEN plan[r].password ELSE current[u]]
      /\ exposed' = (exposed \ N) \cup (N \cap ReadBefore)
  BY DEF SetPassword
<1>2. /\ \A u \in UserId : users'[u] = Nil <=> users[u] = Nil
      /\ \A u \in UserId : users[u] # Nil =>
           users'[u].password = IF u \in N THEN plan[r].password ELSE users[u].password
  BY ResetUsers DEF ResetInv
<1>3. N \subseteq UserId /\ \A u \in N : users[u] # Nil
  BY DEF Named
<1>4. plan[r].password \in Password
  BY Rows DEF ResetInv, SetPassword, Op, BaseInv, Typed, PlanType
<1> HIDE DEF N
<1>5. current' \in [UserId -> Password \cup {Nil}]
  BY <1>1, <1>4 DEF ResetInv
<1>6. N \cap ReadBefore \subseteq exposed'
  BY <1>1
<1>7. \A u \in N : users'[u].password = current'[u]
  BY <1>1, <1>2, <1>3
<1>8. \A u \in UserId \ N : current'[u] = current[u] /\ (u \in exposed' <=> u \in exposed)
  BY <1>1
<1>9. \A u \in UserId \ N : users'[u] # Nil /\ u \notin exposed => users'[u].password = current[u]
  BY <1>2 DEF ResetInv, ResetSticks
<1>10. ResetSticks' /\ ReadSticks' /\ CopySticks'
  BY <1>1, <1>3, <1>6, <1>7, <1>8, <1>9, PasswordsSet
<1> QED BY <1>5, <1>10

LEMMA BindUserSticks ==
    ASSUME ResetInv, NEW r \in Request, BindUser(r),
           \A q \in Request : req'[q].pc = "saveUser" => req'[q] = req[q]
    PROVE  ResetSticks' /\ ReadSticks' /\ CopySticks'
<1> DEFINE u == req[r].uid
           e == IF req[r].user.device # Nil THEN req[r].user.device ELSE req[r].did
           x == [users[u] EXCEPT !.device = e]
<1>1. /\ u \in UserId /\ users[u] # Nil
      /\ users' = [users EXCEPT ![u] = x] /\ x.password = users[u].password
  BY BoundUser DEF ResetInv
<1>2. plan' = plan /\ (copy' = copy \/ copy' = Nil) /\ UNCHANGED <<current, exposed>>
  BY DEF BindUser
<1> HIDE DEF u, x
<1>3. \A v \in UserId : users'[v] # Nil /\ v \notin exposed => users'[v].password = current[v]
  BY <1>1 DEF ResetInv, ResetSticks, BaseInv, Typed, Users
<1> QED BY <1>2, <1>3, PasswordsStay

LEMMA NextReset == ResetInv /\ [Next]_vars => ResetInv'
<1> SUFFICES ASSUME ResetInv, [Next]_vars
             PROVE  /\ current' \in [UserId -> Password \cup {Nil}]
                    /\ ResetSticks' /\ ReadSticks' /\ CopySticks'
  BY NextBase DEF ResetInv
<1>b. BaseInv /\ BaseInv' /\ current \in [UserId -> Password \cup {Nil}]
  BY NextBase DEF ResetInv
<1>s. \A u \in UserId : users[u] # Nil /\ u \notin exposed => users[u].password = current[u]
  BY DEF ResetInv, ResetSticks
<1>1. ASSUME NEW r \in Request,
             Provision(r) \/ Register(r) \/ ResetCode(r) \/ ResetPassword(r)
      PROVE  /\ current' \in [UserId -> Password \cup {Nil}]
             /\ ResetSticks' /\ ReadSticks' /\ CopySticks'
  <2>1. CASE ReadUser(r)
    <3>1. current' = current
      BY <2>1 DEF ReadUser
    <3> QED BY <1>b, <2>1, <3>1, ReadUserSticks
  <2>2. CASE ~ReadUser(r)
    <3>1. RequestDone(r)
      BY <1>1, <1>b, RequestDoes
    <3>2. req'[r].pc # "saveUser" /\ \A q \in Request \ {r} : req'[q] = req[q]
      BY <2>2, <3>1 DEF RequestDone
    <3>3. \A q \in Request : req'[q].pc = "saveUser" => req'[q] = req[q]
      BY <3>2
    <3>4. CASE SaveUser(r)
      BY <3>3, <3>4, SaveUserSticks
    <3>5. CASE SetPassword(r)
      BY <3>3, <3>5, SetPasswordSticks
    <3>6. CASE BindUser(r)
      <4>1. current' = current
        BY <3>6 DEF BindUser
      <4> QED BY <1>b, <3>3, <3>6, <4>1, BindUserSticks
    <3>7. CASE ~(SaveUser(r) \/ SetPassword(r) \/ BindUser(r))
      <4>1. UNCHANGED <<plan, users, copy, current, exposed>>
        BY <1>1, <2>2, <3>7
           DEF Provision, ValidateUser, FreshUser, ResolveSucursal, FindDevice, SaveDevice, Retry,
               Register, ResetCode, ReadForCode, VoidCodes, InsertCode, SendCode, ResetPassword,
               LookUpCode, SpendCode
      <4> QED BY <1>b, <1>s, <3>3, <4>1, PasswordsStay
    <3> QED BY <3>4, <3>5, <3>6, <3>7
  <2> QED BY <2>1, <2>2
<1>2. CASE UNCHANGED vars \/ (\E c \in DOMAIN codes : Expire(c)) \/ \E d \in DeviceId : PushDevice(d)
  <2>1. UNCHANGED <<plan, users, req, current, exposed>> /\ (copy' = copy \/ copy' = Nil)
    BY <1>2 DEF vars, Expire, PushDevice
  <2> QED BY <1>b, <1>s, <2>1, PasswordsStay
<1>3. CASE Copy
  <2>1. /\ UNCHANGED <<plan, users, req, current, exposed>>
        /\ copy' = [users |-> users, devices |-> devices]
    BY <1>3 DEF Copy
  <2>2. ResetSticks' /\ ReadSticks'
    BY <2>1 DEF ResetInv, ResetSticks, ReadSticks, Op
  <2>3. CopySticks'
    BY <1>s, <2>1 DEF CopySticks
  <2> QED BY <1>b, <2>1, <2>2, <2>3
<1>4. ASSUME NEW u \in UserId, PushUser(u)
      PROVE  /\ current' \in [UserId -> Password \cup {Nil}]
             /\ ResetSticks' /\ ReadSticks' /\ CopySticks'
  <2>1. /\ UNCHANGED <<plan, req, current, exposed>> /\ copy' = Nil
        /\ copy # Nil /\ copy.users[u] # Nil
        /\ users' = [users EXCEPT ![u] = copy.users[u]]
    BY <1>4 DEF PushUser
  <2>2. u \notin exposed => copy.users[u].password = current[u]
    BY <2>1 DEF ResetInv, CopySticks
  <2>3. \A v \in UserId : users'[v] # Nil /\ v \notin exposed => users'[v].password = current[v]
    BY <1>b, <1>s, <2>1, <2>2 DEF BaseInv, Typed, Users
  <2> QED BY <1>b, <2>1, <2>3, PasswordsStay
<1> QED BY <1>1, <1>2, <1>3, <1>4 DEF Next

\* The password last set for a user, by a reset or with the user's creation, is the one in
\* the table, unless a row that was read before it was set has been saved or pushed since,
\* or still may be: the update of dispositivoId at the end of a provision leaves it alone.
THEOREM PasswordSticks == Spec => []ResetSticks
<1>1. Init => ResetInv
  <2> SUFFICES ASSUME Init PROVE ResetInv
    OBVIOUS
  <2>1. BaseInv
    BY InitBase
  <2>2. current = [u \in UserId |-> IF users[u] = Nil THEN Nil ELSE users[u].password]
    BY DEF Init
  <2>3. \A u \in UserId : users[u] # Nil => users[u].password \in Password
    BY <2>1, Rows DEF UserRow
  <2>4. current \in [UserId -> Password \cup {Nil}] /\ ResetSticks
    BY <2>2, <2>3 DEF ResetSticks
  <2>5. ReadSticks /\ CopySticks
    BY DEF Init, Idle, ReadSticks, CopySticks, Op
  <2> QED BY <2>1, <2>4, <2>5 DEF ResetInv
<1>2. ResetInv => ResetSticks
  BY DEF ResetInv
<1> QED BY <1>1, <1>2, NextReset, PTL DEF Spec

-----------------------------------------------------------------------------
(* Answered provisions *)

\* Only a push makes a user inactive.
LEMMA ActiveStays ==
    ASSUME BaseInv, NEW r \in Request,
           Provision(r) \/ Register(r) \/ ResetCode(r) \/ ResetPassword(r)
    PROVE  /\ \A u \in UserId : users[u] # Nil /\ users[u].active => users'[u].active
           /\ SaveUser(r) /\ req'[r].pc = "fresh" => users'[req[r].uid].active
<1>1. CASE SaveUser(r)
  <2> DEFINE u == req[r].uid
             x == Columns(req[r].user)
  <2>1. u \in UserId /\ req[r].user.active
    BY <1>1 DEF BaseInv, LocalOK, SaveUser, Op
  <2>2. x.active
    BY <2>1 DEF Columns
  <2>3. CASE NameTaken(u, req[r].user.name)
    <3>1. users' = users /\ Answer(r, "error")
      BY <1>1, <2>3 DEF SaveUser
    <3>2. req'[r].pc = "done"
      BY <3>1, AnswerFrame DEF BaseInv, Typed, Answered
    <3> QED BY <3>1, <3>2
  <2>4. CASE ~NameTaken(u, req[r].user.name)
    <3>1. users' = [users EXCEPT ![u] = x]
      BY <1>1, <2>4 DEF SaveUser
    <3> HIDE DEF x
    <3>2. users'[u] = x /\ \A v \in UserId \ {u} : users'[v] = users[v]
      BY <2>1, <3>1 DEF BaseInv, Typed, Users
    <3>3. \A v \in UserId : users[v] # Nil /\ users[v].active => users'[v].active
      BY <2>2, <3>2
    <3> QED BY <2>2, <3>2, <3>3
  <2> QED BY <2>3, <2>4
<1>2. CASE SetPassword(r)
  <2>1. \A u \in UserId : users[u] # Nil => users'[u].active = users[u].active
    BY <1>2, ResetUsers
  <2>2. ~SaveUser(r)
    BY <1>2 DEF SaveUser, SetPassword, Op
  <2> QED BY <2>1, <2>2
<1>3. CASE BindUser(r)
  <2> DEFINE u == req[r].uid
             e == IF req[r].user.device # Nil THEN req[r].user.device ELSE req[r].did
             x == [users[u] EXCEPT !.device = e]
  <2>1. u \in UserId /\ users' = [users EXCEPT ![u] = x] /\ x.active = users[u].active
    BY <1>3, BoundUser
  <2>2. ~SaveUser(r)
    BY <1>3 DEF SaveUser, BindUser, Op
  <2> HIDE DEF x, u
  <2>3. users'[u] = x /\ \A v \in UserId \ {u} : users'[v] = users[v]
    BY <2>1 DEF BaseInv, Typed, Users
  <2>4. \A v \in UserId : users[v] # Nil /\ users[v].active => users'[v].active
    BY <2>1, <2>3
  <2> QED BY <2>2, <2>4
<1>4. CASE ~(SaveUser(r) \/ SetPassword(r) \/ BindUser(r))
  <2>1. users' = users
    BY <1>4 DEF Provision, ValidateUser, ReadUser, FreshUser, ResolveSucursal, FindDevice,
               SaveDevice, Retry, Register, ResetCode, ReadForCode, VoidCodes, InsertCode, SendCode,
               ResetPassword, LookUpCode, SpendCode
  <2> QED BY <1>4, <2>1
<1> QED BY <1>1, <1>2, <1>3, <1>4

\* A provision that has saved its device keeps to it and to its user.
LEMMA PastStays ==
    ASSUME BaseInv, BaseInv', NEW r \in Request, RequestDone(r), NEW s \in Request, Past(s)
    PROVE  Past(s)' /\ req'[s].uid = req[s].uid /\ req'[s].did = req[s].did
<1>1. CASE s # r
  BY <1>1 DEF RequestDone, Past
<1>2. CASE s = r
  <2>1. req[r].pc \in {"bind", "done"}
    BY <1>2 DEF BaseInv, LocalOK, Past
  <2> QED BY <1>2, <2>1 DEF RequestDone, Past
<1> QED BY <1>1, <1>2

LEMMA AloneBefore ==
    ASSUME BaseInv, BaseInv', NEW r \in Request, RequestDone(r), NEW q \in Request, Past(q),
           Alone(q)'
    PROVE  Alone(q)
<1> SUFFICES ASSUME NEW s \in Request, Past(s), req[s].did = req[q].did
             PROVE  req[s].uid = req[q].uid /\ plan[s].mac.address = plan[q].mac.address
  BY DEF Alone
<1>1. Past(s)' /\ req'[s].uid = req[s].uid /\ req'[s].did = req[s].did
  BY PastStays
<1>2. req'[q].uid = req[q].uid /\ req'[q].did = req[q].did
  BY PastStays
<1>3. plan' = plan
  BY DEF RequestDone
<1> QED BY <1>1, <1>2, <1>3 DEF Alone

\* A device is left alone by a step: its provision goes on finding it as it was saved.
LEMMA DeviceKept ==
    ASSUME BaseInv, BaseInv', AsSaved, NEW r \in Request, RequestDone(r), NEW q \in Request,
           Past(q), req'[q].did \notin moved', Alone(q)',
           devices'[req'[q].did] = devices[req'[q].did]
    PROVE  /\ devices'[req'[q].did].authorised
           /\ devices'[req'[q].did].owner = req'[q].uid
           /\ devices'[req'[q].did].mac = NormalizeMac(plan'[q].mac)
<1>1. Alone(q)
  BY AloneBefore
<1>2. req'[q].uid = req[q].uid /\ req'[q].did = req[q].did
  BY PastStays
<1>3. req[q].did \notin moved /\ plan' = plan
  BY <1>2 DEF RequestDone
<1> QED BY <1>1, <1>2, <1>3 DEF AsSaved

\* Which provisions are past the save of their device after a step of r.
LEMMA PastBefore ==
    ASSUME BaseInv, BaseInv', NEW r \in Request, RequestDone(r), NEW q \in Request, Past(q)',
           ~(q = r /\ req[r].pc = "saveDevice" /\ req'[r].pc = "bind")
    PROVE  Past(q)
<1>1. CASE q # r
  BY <1>1 DEF RequestDone, Past
<1>2. CASE q = r
  <2>1. req'[r].pc \in {"bind", "done"} /\ plan[r].op = "provision"
    BY <1>2 DEF BaseInv, LocalOK, Past, RequestDone
  <2> QED BY <1>2, <2>1 DEF RequestDone, Past
<1> QED BY <1>1, <1>2

\* The letters of a MAC without their case are its address.
LEMMA SameAddress ==
    ASSUME NEW m \in MacAddress, NEW n \in MacAddress, m.address = n.address
    PROVE  NormalizeMac(m) = NormalizeMac(n)
BY DEF MacAddress, NormalizeMac

LEMMA RequestAnswers ==
    ASSUME BaseInv, BaseInv', ActiveUsers, AsSaved, NEW r \in Request,
           Provision(r) \/ Register(r) \/ ResetCode(r) \/ ResetPassword(r)
    PROVE  ActiveUsers' /\ AsSaved'
<1>d. RequestDone(r)
  BY RequestDoes
<1>p. plan' = plan /\ \A q \in Request \ {r} : req'[q] = req[q]
  BY <1>d DEF RequestDone
<1>a. /\ \A u \in UserId : users[u] # Nil /\ users[u].active => users'[u].active
      /\ SaveUser(r) /\ req'[r].pc = "fresh" => users'[req[r].uid].active
  BY ActiveStays
<1>1. ActiveUsers'
  <2> SUFFICES ASSUME NEW q \in Request, req'[q].pc \in HasUser \/ Past(q)'
               PROVE  users'[req'[q].uid].active
    BY DEF ActiveUsers, HasUser
  <2>k. ASSUME req[q].pc \in HasUser \/ Past(q), req'[q].uid = req[q].uid
        PROVE  users'[req'[q].uid].active
    <3>1. req[q].uid \in UserId /\ users[req[q].uid] # Nil
      BY <2>k DEF BaseInv, LocalOK
    <3> QED BY <1>a, <2>k, <3>1 DEF ActiveUsers
  <2>1. CASE q # r
    BY <1>p, <2>1, <2>k DEF Past
  <2>2. CASE q = r /\ ValidateUser(r) /\ req'[r].pc = "branch"
    <3>1. \E u \in Named(plan[r].name) :
            /\ users[u].active
            /\ Goto(r, "branch", [req[r] EXCEPT !.uid = u, !.user = users[u], !.owned = Owned(u)])
      <4>1. Answer(r, "denied") => req'[r].pc = "done"
        BY AnswerFrame DEF BaseInv, Typed, Answered
      <4> QED BY <2>2, <4>1 DEF ValidateUser
    <3>2. PICK u \in Named(plan[r].name) :
            /\ users[u].active
            /\ Goto(r, "branch", [req[r] EXCEPT !.uid = u, !.user = users[u], !.owned = Owned(u)])
      BY <3>1
    <3> DEFINE loc == [req[r] EXCEPT !.uid = u, !.user = users[u], !.owned = Owned(u)]
    <3>3. loc.uid = u /\ Goto(r, "branch", loc)
      BY <3>2, Rows DEF LocalType
    <3> HIDE DEF loc
    <3>4. req'[r].uid = u
      BY <3>3, GotoLabel DEF BaseInv, Typed
    <3>5. u \in UserId /\ users[u] # Nil
      BY DEF Named
    <3> QED BY <1>a, <2>2, <3>2, <3>4, <3>5
  <2>3. CASE q = r /\ SaveUser(r) /\ req'[r].pc = "fresh" /\ req'[r].uid = req[r].uid
    BY <1>a, <2>3
  <2>4. CASE q = r /\ ~(ValidateUser(r) /\ req'[r].pc = "branch") /\ ~(SaveUser(r) /\ req'[r].pc = "fresh")
    <3>1. (req[r].pc \in HasUser \/ Past(r)) /\ req'[r].uid = req[r].uid
      <4>1. Past(r)' => req'[r].pc \in {"bind", "done"}
        BY DEF BaseInv, LocalOK, Past
      <4> QED BY <1>d, <2>4, <4>1 DEF RequestDone, HasUser, Past
    <3> QED BY <2>4, <2>k, <3>1
  <2> QED BY <1>d, <2>1, <2>2, <2>3, <2>4 DEF RequestDone
<1>2. AsSaved'
  <2> SUFFICES ASSUME NEW q \in Request, Past(q)', req'[q].did \notin moved', Alone(q)'
               PROVE  /\ devices'[req'[q].did].authorised
                      /\ devices'[req'[q].did].owner = req'[q].uid
                      /\ devices'[req'[q].did].mac = NormalizeMac(plan'[q].mac)
    BY DEF AsSaved, NormalizeMac
  <2>1. CASE /\ req[r].pc = "saveDevice" /\ req'[r].pc = "bind"
             /\ devices' = [devices EXCEPT ![req[r].did] = req[r].device]
             /\ req'[r].uid = req[r].uid /\ req'[r].did = req[r].did /\ SaveDevice(r)
    <3> DEFINE d == req[r].did
               x == req[r].device
    <3>1. /\ d \in DeviceId /\ x.authorised /\ x.owner = req[r].uid
          /\ x.mac = NormalizeMac(plan[r].mac)
      BY <2>1 DEF BaseInv, LocalOK
    <3>2. devices'[d] = x /\ \A e \in DeviceId \ {d} : devices'[e] = devices[e]
      BY <2>1, <3>1 DEF BaseInv, Typed, Devices
    <3>3. CASE req'[q].did = d
      <4>1. Past(r)' /\ req'[r].did = req'[q].did
        BY <1>p, <2>1, <3>3 DEF Past, SaveDevice, Op
      <4>2. req[r].uid = req'[q].uid /\ plan[r].mac.address = plan[q].mac.address
        BY <1>p, <2>1, <4>1 DEF Alone
      <4>3. NormalizeMac(plan[r].mac) = NormalizeMac(plan[q].mac)
        BY <4>2, Rows, SameAddress DEF PlanType
      <4> QED BY <1>p, <3>1, <3>2, <3>3, <4>2, <4>3
    <3>4. CASE req'[q].did # d
      <4>1. q # r
        BY <2>1, <3>4
      <4>2. Past(q)
        BY <1>d, <4>1, PastBefore
      <4>3. req'[q].did \in DeviceId
        BY DEF BaseInv, LocalOK
      <4> QED BY <1>d, <3>2, <3>4, <4>2, <4>3, DeviceKept
    <3> QED BY <3>3, <3>4
  <2>2. CASE SaveUser(r) /\ req'[r].pc = "fresh"
    <3>1. Past(q)
      BY <1>d, <2>2, PastBefore
    <3>2. req'[q].did \in DeviceId
      BY DEF BaseInv, LocalOK
    <3>3. devices' = devices \/ moved' = moved \cup {d \in DeviceId : devices'[d] # devices[d]}
      BY <2>2 DEF SaveUser
    <3> QED BY <1>d, <3>1, <3>2, <3>3, DeviceKept
  <2>3. CASE UNCHANGED devices /\ ~(req[r].pc = "saveDevice" /\ req'[r].pc = "bind")
    <3>1. Past(q)
      BY <1>d, <2>3, PastBefore
    <3> QED BY <1>d, <2>3, <3>1, DeviceKept
  <2>4. ValidateUser(r) \/ ReadUser(r) \/ FindDevice(r) \/ BindUser(r) => UNCHANGED devices
    BY DEF ValidateUser, ReadUser, FindDevice, BindUser
  <2> QED BY <1>d, <2>1, <2>2, <2>3, <2>4 DEF RequestDone
<1> QED BY <1>1, <1>2

LEMMA NextAnswer == AnswerInv /\ [Next]_vars => AnswerInv'
<1> SUFFICES ASSUME AnswerInv, [Next]_vars, pushes' = 0
             PROVE  ActiveUsers' /\ AsSaved'
  BY NextBase DEF AnswerInv
<1>b. BaseInv /\ BaseInv' /\ pushes \in Nat
  BY NextBase DEF AnswerInv, BaseInv, Typed
<1>1. ASSUME NEW r \in Request,
             Provision(r) \/ Register(r) \/ ResetCode(r) \/ ResetPassword(r)
      PROVE  ActiveUsers' /\ AsSaved'
  <2>1. pushes = 0
    BY <1>1, <1>b, RequestDoes DEF RequestDone
  <2> QED BY <1>1, <1>b, <2>1, RequestAnswers DEF AnswerInv
<1>2. CASE UNCHANGED vars \/ Copy \/ \E c \in DOMAIN codes : Expire(c)
  <2>1. UNCHANGED <<plan, users, devices, req, pushes, moved>>
    BY <1>2 DEF vars, Copy, Expire
  <2> QED BY <2>1 DEF AnswerInv, ActiveUsers, AsSaved, Alone, Past, NormalizeMac
<1>3. ~ \E u \in UserId : PushUser(u)
  BY <1>b DEF PushUser
<1>4. ~ \E d \in DeviceId : PushDevice(d)
  BY <1>b DEF PushDevice
<1> QED BY <1>1, <1>2, <1>3, <1>4 DEF Next

\* Once a provision is answered, its user may synchronise from that MAC, whatever other
\* provisions and resets did in between, with the exceptions of AnsweredMaySync: the
\* device is authorised and the user's when it is saved, and no later step but those of
\* the exceptions takes it away.
THEOREM ProvisionedMaySync == Spec => []AnsweredMaySync
<1>1. Init => AnswerInv
  <2> SUFFICES ASSUME Init PROVE AnswerInv
    OBVIOUS
  <2>1. \A r \in Request : req[r].pc = "start" /\ req[r].reply = "none"
    BY DEF Init, Idle
  <2> QED BY <2>1, InitBase DEF AnswerInv, ActiveUsers, AsSaved, Past, HasUser
<1>2. AnswerInv => AnsweredMaySync
  <2> SUFFICES ASSUME AnswerInv, NEW r \in Request, plan[r].op = "provision",
                      req[r].reply = "ok", req[r].did \notin moved, pushes = 0, Alone(r)
               PROVE  MaySync(req[r].uid, plan[r].mac)
    BY DEF AnsweredMaySync, Alone
  <2> DEFINE u == req[r].uid
             d == req[r].did
  <2>1. Past(r)
    BY DEF Past
  <2>2. u \in UserId /\ users[u] # Nil /\ d \in DeviceId /\ devices[d] # Nil
    BY <2>1 DEF AnswerInv, BaseInv, LocalOK
  <2>3. /\ users[u].active /\ devices[d].authorised /\ devices[d].owner = u
        /\ devices[d].mac = NormalizeMac(plan[r].mac)
    BY <2>1 DEF AnswerInv, ActiveUsers, AsSaved
  <2>4. NormalizeMac(devices[d].mac) = NormalizeMac(plan[r].mac)
    <3>1. plan[r].mac \in MacAddress
      BY Rows DEF AnswerInv, PlanType
    <3> QED BY <2>3, <3>1 DEF MacAddress, NormalizeMac
  <2>5. <<d, devices[d].branch>> \in Owned(u) /\ <<d, devices[d].branch>>[1] = d
    BY <2>2, <2>3 DEF Owned
  <2> HIDE DEF u, d
  <2>6. MaySync(u, plan[r].mac)
    BY <2>2, <2>3, <2>4, <2>5 DEF MaySync
  <2> QED BY <2>6 DEF u
<1> QED BY <1>1, <1>2, NextAnswer, PTL DEF Spec
=============================================================================

---------------------------- MODULE MCAuthFlows ----------------------------
(***************************************************************************)
(* Model values, requests and databases for AuthFlows.                       *)
(***************************************************************************)
EXTENDS AuthFlows

CONSTANTS q1, q2, q3, u1, d1, b1

MCUserId == {u1} \cup Request
MCDeviceId == {d1} \cup Request

Mac(spelling) == [address |-> "m1", spelling |-> spelling]
OtherMac == [address |-> "m2", spelling |-> "lower"]

None == [op |-> "none", name |-> "ana", password |-> Nil, hash |-> "file", uid |-> Nil,
         did |-> Nil, mac |-> Mac("lower"), branchId |-> Nil, branch |-> Nil, retry |-> FALSE]

\* From a .valeska file, which carries a hash, and with a password.
File(name, mac) == [None EXCEPT !.op = "provision", !.name = name, !.mac = mac, !.retry = TRUE]
Login(name, mac) == [File(name, mac) EXCEPT !.password = "old"]
Code == [None EXCEPT !.op = "code"]
Reset == [None EXCEPT !.op = "reset", !.password = "new"]

\* The requests q1, q2 and q3 ask for a, b and c.
Asks(a, b, c) == [r \in Request |-> CASE r = q1 -> a [] r = q2 -> b [] r = q3 -> c]

MCPlans ==
    {\* one device in two spellings, one user or two
     Asks(File("ana", Mac("upper")), File("ana", Mac("lower")), None),
     Asks(Login("ana", Mac("upper")), File("eva", Mac("lower")), None),
     \* one user on two devices; ids that the file carries
     Asks(File("ana", Mac("lower")), [File("ana", OtherMac) EXCEPT !.did = d1], None),
     Asks([File("eva", OtherMac) EXCEPT !.uid = u1, !.branch = b1], Login("ana", Mac("lower")), None),
     \* sucursales that do not exist
     Asks([File("ana", OtherMac) EXCEPT !.branchId = b1, !.retry = FALSE], Login("ana", Mac("upper")),
          [None EXCEPT !.op = "register", !.name = "eva"]),
     \* resets
     Asks(Code, Code, Reset),
     Asks(Code, Reset, Reset),
     Asks(Code, Reset, File("ana", Mac("upper")))}

Empty == [users |-> [u \in UserId |-> Nil], devices |-> [d \in DeviceId |-> Nil], branches |-> {}]

User(device) == [name |-> "ana", password |-> "old", active |-> device = Nil, device |-> device]

\* Nothing but a sucursal; a user; a device from before, with and without its user.
MCWorlds ==
    {Empty,
     [Empty EXCEPT !.branches = {b1}, !.users[u1] = User(Nil)],
     [Empty EXCEPT !.branches = {b1}, !.users[u1] = User(Nil),
        !.devices[d1] = [mac |-> Mac("upper"), authorised |-> FALSE, branch |-> b1, owner |-> Nil]],
     [Empty EXCEPT !.branches = {b1}, !.users[u1] = User(d1),
        !.devices[d1] = [mac |-> Mac("lower"), authorised |-> FALSE, branch |-> b1, owner |-> u1]]}

=============================================================================

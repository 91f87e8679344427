------------------------ MODULE OptimisticSyncProofs ------------------------
(***************************************************************************)
(* What optimistic pushes and resolutions promise, for any number of        *)
(* clients, records, operators and attempts: a push replaces what its       *)
(* author has seen, a conflict is resolved while it is open, the unique     *)
(* index on open conflicts does not fire, and the change log is a chain.    *)
(***************************************************************************)
EXTENDS OptimisticSync, SequenceTheorems, TLAPS

(* The inductive invariant, in parts *)

\* A push that has used up its attempts is dead.
AttemptsLeft == \A c \in Client : cl[c].pc # "dead" => cl[c].attempts < MaxAttempts

\* The statements of a push that run under the row locks it has taken.
InPush(c) == cl[c].pc \in {"open", "load", "save"}

\* The statements of a resolution that run under the lock of its conflict.
InResolve(q) == rs[q].pc \in {"read", "update", "save"}

\* A push holds the rows it has found, and what it has read of them is current.
PushHolds ==
    \A c \in Client : \A r \in RecordsOf[c] :
        InPush(c) /\ cl[c].existing[r].version > 0
            => recLock[r] = c /\ cl[c].existing[r] = rec[r]

\* A resolution holds its conflict, which is open, and the record once it has updated it.
ResolveHolds ==
    \A q \in Resolver :
        /\ InResolve(q) => confLock[rs[q].conflict] = q /\ conf[rs[q].conflict].status = "open"
        /\ rs[q].pc = "save" /\ q \in Writes => recLock[rs[q].conflict[2]] = q

\* What refers to a conflict refers to one that was filed, for a record that exists.
ConflictsExist ==
    /\ \A k \in ConflictId : conf[k].status # "none" => rec[k[2]].version > 0
    /\ \A q \in Resolver :
        /\ rs[q].pc \notin {"look", "done"} \/ rs[q].reply = "resolved"
            => rs[q].conflict \in ConflictId /\ conf[rs[q].conflict].status # "none"
        /\ rs[q].reply # "none" => rs[q].pc = "done"
    /\ copy.pc = "held" =>
        /\ copy.conflict \in ConflictId /\ conf[copy.conflict].status # "none"
        /\ copy.row.status # "none"

\* A conflict that a push has found open is one of its record.
OpenIsOwn ==
    \A c \in Client : \A r \in Record : cl[c].open[r] # Nil =>
        cl[c].open[r] \in ConflictId /\ cl[c].open[r][2] = r

\* A record has one open conflict at most.
OneOpen ==
    \A k, j \in ConflictId :
        conf[k].status = "open" /\ conf[j].status = "open" /\ k[2] = j[2] => k = j

\* While a push that meets a conflict holds the record, no other conflict of it is
\* opened, but by the push of a conflict, which takes no lock of the record.
OpenIsFound ==
    copy.pc # "saved" =>
        \A c \in Client : cl[c].pc \in {"load", "save"} =>
            \A r \in Conflicted(c) : OpenConflicts(r) \subseteq {Row(c, r)}

\* Until a resolution stores data in a record its version grows with every write, so
\* that a version names one content.
SeenIsPast ==
    \A c \in Client : \A r \in RecordsOf[c] :
        cl[c].pc # "pull" /\ ~Rewritten(r) =>
            /\ cl[c].seen[r].version <= rec[r].version
            /\ cl[c].seen[r].version = rec[r].version => cl[c].seen[r].content = rec[r].content

\* A record that a client has seen exists; one that it has made does not exist before
\* its push has committed.
NewIsOwn ==
    \A c \in Client : \A r \in RecordsOf[c] :
        /\ cl[c].seen[r].version > 0 => rec[r].version > 0
        /\ cl[c].pc # "pull" /\ cl[c].seen[r].version = 0 => r \notin Stored /\ Author[r] = c
        /\ cl[c].pc \notin {"pull", "done"} /\ cl[c].seen[r].version = 0 => rec[r].version = 0
        /\ InPush(c) /\ cl[c].existing[r].version = 0 => cl[c].seen[r].version = 0

StoredExists == \A r \in Stored : rec[r].version > 0

LogInv == LogIsChain /\ \A r \in Record : rec[r].version = 0 => log[r] = << >>

LockInv == PushHolds /\ ResolveHolds
ConflictInv == ConflictsExist /\ OpenIsOwn /\ OneOpen /\ OpenIsFound
VersionInv == SeenIsPast /\ NewIsOwn /\ StoredExists

TypeInv == TypeOK /\ AttemptsLeft

PushInv == TypeInv /\ LockInv /\ ConflictInv /\ VersionInv /\ LogInv

-----------------------------------------------------------------------------
(* Types *)

USE DEF ConflictId, Content

LEMMA NilIsNone ==
    /\ Nil \notin Client /\ Nil \notin Resolver /\ Nil \notin ConflictId
    /\ Client \cap Resolver = {}
BY DistinctAssumption

LEMMA TypeInit == Init => TypeOK
<1> SUFFICES ASSUME Init PROVE TypeOK
  OBVIOUS
<1>1. Absent \in RowType /\ [version |-> 1, content |-> Seed, deleted |-> FALSE] \in RowType
  BY DEF Absent, RowType
<1> QED BY <1>1, AttemptsAssumption DEF Init, TypeOK, NoConflict, Rows, Conflicts, Statuses, Replies,
    ClientType, ResolverType, ConflictType, Status

LEMMA RecordsAreRecords == \A c \in Client : RecordsOf[c] \subseteq Record
BY ClientAssumption

(* What a statement of a push does to the state of its client.  The other clients *)
(* are as they were.                                                               *)

Others(c) == \A e \in Client \ {c} : cl'[e] = cl[e]

\* The client c is in a state of its type, and nothing but it has changed in cl.
LEMMA ClientChange ==
    ASSUME TypeInv, NEW c \in Client, NEW e, cl' = [cl EXCEPT ![c] = e],
           e \in ClientType, e.pc # "dead" => e.attempts < MaxAttempts
    PROVE  cl' \in [Client -> ClientType] /\ AttemptsLeft' /\ cl'[c] = e /\ Others(c)
BY DEF TypeInv, TypeOK, AttemptsLeft, Others

LEMMA ClientTyped ==
    ASSUME TypeInv, NEW c \in Client
    PROVE  /\ cl[c] \in ClientType
           /\ cl[c].pc # "dead" => cl[c].attempts < MaxAttempts
           /\ cl[c].seen \in Rows /\ cl[c].existing \in Rows /\ cl[c].open \in Conflicts
           /\ cl[c].db \in Statuses /\ cl[c].reply \in Replies
BY DEF TypeInv, TypeOK, AttemptsLeft, ClientType

LEMMA PullEffect ==
    ASSUME TypeInv, NEW c \in Client, Pull(c)
    PROVE  /\ TypeInv' /\ Others(c)
           /\ cl'[c].pc = "lock" /\ cl'[c].reply = cl[c].reply /\ cl'[c].open = cl[c].open
           /\ cl'[c].existing = cl[c].existing
           /\ \A r \in RecordsOf[c] : cl'[c].seen[r] = rec[r]
<1> DEFINE s == [r \in Record |-> IF r \in RecordsOf[c] THEN rec[r] ELSE Absent]
           e == [cl[c] EXCEPT !.pc = "lock", !.seen = s]
<1>1. s \in Rows /\ \A r \in RecordsOf[c] : s[r] = rec[r]
  BY RecordsAreRecords DEF Rows, RowType, Absent, TypeInv, TypeOK
<1>2. cl' = [cl EXCEPT ![c] = e]
  BY DEF Pull
<1> HIDE DEF s
<1>3. /\ e \in ClientType /\ (e.pc # "dead" => e.attempts < MaxAttempts)
      /\ e.pc = "lock" /\ e.reply = cl[c].reply /\ e.open = cl[c].open
      /\ e.existing = cl[c].existing /\ e.seen = s
  BY <1>1, ClientTyped DEF ClientType, Pull
<1> HIDE DEF e
<1>4. cl' \in [Client -> ClientType] /\ AttemptsLeft' /\ cl'[c] = e /\ Others(c)
  BY <1>2, <1>3, ClientChange
<1>5. TypeInv'
  BY <1>4 DEF Pull, TypeInv, TypeOK
<1> QED BY <1>1, <1>3, <1>4, <1>5

LEMMA LockEffect ==
    ASSUME TypeInv, NEW c \in Client, Lock(c)
    PROVE  /\ TypeInv' /\ Others(c)
           /\ cl'[c].pc = "open" /\ cl'[c].reply = cl[c].reply /\ cl'[c].open = cl[c].open
           /\ cl'[c].seen = cl[c].seen
           /\ \A r \in RecordsOf[c] :
                IF rec[r].version > 0
                THEN cl'[c].existing[r] = rec[r] /\ recLock'[r] = c /\ recLock[r] = Nil
                ELSE cl'[c].existing[r].version = 0
           /\ \A r \in Record : recLock'[r] \in {c, recLock[r]} /\ (recLock[r] # Nil => recLock'[r] = recLock[r])
<1> DEFINE rows == {r \in RecordsOf[c] : rec[r].version > 0}
           s == [r \in Record |-> IF r \in rows THEN rec[r] ELSE Absent]
           e == [cl[c] EXCEPT !.pc = "open", !.existing = s]
<1>1. s \in Rows /\ \A r \in RecordsOf[c] : IF rec[r].version > 0 THEN s[r] = rec[r]
                                                                  ELSE s[r].version = 0
  BY RecordsAreRecords DEF Rows, RowType, Absent, TypeInv, TypeOK
<1>2. /\ cl' = [cl EXCEPT ![c] = e]
      /\ \A r \in rows : recLock[r] = Nil
      /\ recLock' = [r \in Record |-> IF r \in rows THEN c ELSE recLock[r]]
  BY DEF Lock
<1>3. rows \subseteq Record
  BY RecordsAreRecords
<1>4. \A r \in RecordsOf[c] : r \in rows <=> rec[r].version > 0
  OBVIOUS
<1> HIDE DEF s, rows
<1>5. /\ e \in ClientType /\ (e.pc # "dead" => e.attempts < MaxAttempts)
      /\ e.pc = "open" /\ e.reply = cl[c].reply /\ e.open = cl[c].open
      /\ e.seen = cl[c].seen /\ e.existing = s
  BY <1>1, ClientTyped DEF ClientType, Lock
<1> HIDE DEF e
<1>6. cl' \in [Client -> ClientType] /\ AttemptsLeft' /\ cl'[c] = e /\ Others(c)
  BY <1>2, <1>5, ClientChange
<1>7. /\ recLock' \in [Record -> Client \cup Resolver \cup {Nil}]
      /\ \A r \in rows : recLock'[r] = c
      /\ \A r \in Record : recLock'[r] \in {c, recLock[r]} /\ (recLock[r] # Nil => recLock'[r] = recLock[r])
  BY <1>2, <1>3 DEF TypeInv, TypeOK
<1>8. TypeInv'
  BY <1>6, <1>7 DEF Lock, TypeInv, TypeOK
<1> QED BY <1>1, <1>2, <1>4, <1>5, <1>6, <1>7, <1>8

LEMMA ReadOpenEffect ==
    ASSUME TypeInv, NEW c \in Client, ReadOpen(c)
    PROVE  /\ TypeInv' /\ Others(c)
           /\ cl'[c].pc = "load" /\ cl'[c].reply = cl[c].reply
           /\ cl'[c].seen = cl[c].seen /\ cl'[c].existing = cl[c].existing
           /\ \A r \in Record :
                \/ cl'[c].open[r] = Nil /\ (r \in RecordsOf[c] => OpenConflicts(r) = {})
                \/ r \in RecordsOf[c] /\ cl'[c].open[r] \in OpenConflicts(r)
<1> DEFINE o == [r \in Record |->
                    IF r \in RecordsOf[c] /\ OpenConflicts(r) # {}
                    THEN CHOOSE k \in OpenConflicts(r) : TRUE ELSE Nil]
           e == [cl[c] EXCEPT !.pc = "load", !.open = o]
<1>1. \A r \in Record :
        \/ o[r] = Nil /\ (r \in RecordsOf[c] => OpenConflicts(r) = {})
        \/ r \in RecordsOf[c] /\ o[r] \in OpenConflicts(r)
  OBVIOUS
<1>2. o \in Conflicts
  <2>1. \A r \in Record : OpenConflicts(r) \subseteq ConflictId
    BY DEF OpenConflicts
  <2> QED BY <1>1, <2>1 DEF Conflicts
<1>3. cl' = [cl EXCEPT ![c] = e]
  BY DEF ReadOpen
<1> HIDE DEF o
<1>4. /\ e \in ClientType /\ (e.pc # "dead" => e.attempts < MaxAttempts)
      /\ e.pc = "load" /\ e.reply = cl[c].reply /\ e.seen = cl[c].seen
      /\ e.existing = cl[c].existing /\ e.open = o
  BY <1>2, ClientTyped DEF ClientType, ReadOpen
<1> HIDE DEF e
<1>5. cl' \in [Client -> ClientType] /\ AttemptsLeft' /\ cl'[c] = e /\ Others(c)
  BY <1>3, <1>4, ClientChange
<1>6. TypeInv'
  BY <1>5 DEF ReadOpen, TypeInv, TypeOK
<1> QED BY <1>1, <1>4, <1>5, <1>6

LEMMA RowTyped ==
    ASSUME TypeInv, NEW c \in Client, NEW r \in Record
    PROVE  Row(c, r) \in ConflictId /\ conf[Row(c, r)] \in ConflictType
                /\ conf[Row(c, r)].status \in Status
<1>1. cl[c].open[r] \in ConflictId \cup {Nil}
  BY ClientTyped DEF Conflicts
<1> QED BY <1>1 DEF Row, TypeInv, TypeOK, ConflictType

LEMMA LoadEffect ==
    ASSUME TypeInv, NEW c \in Client, LoadConflicts(c)
    PROVE  /\ TypeInv' /\ Others(c)
           /\ cl'[c].pc = "save" /\ cl'[c].reply = cl[c].reply /\ cl'[c].open = cl[c].open
           /\ cl'[c].seen = cl[c].seen /\ cl'[c].existing = cl[c].existing
<1> DEFINE d == [r \in Record |-> IF r \in Conflicted(c) THEN conf[Row(c, r)].status
                                                         ELSE "none"]
           e == [cl[c] EXCEPT !.pc = "save", !.db = d]
<1>1. d \in Statuses
  BY RowTyped DEF Statuses, Status
<1>2. cl' = [cl EXCEPT ![c] = e]
  BY DEF LoadConflicts
<1> HIDE DEF d
<1>3. /\ e \in ClientType /\ (e.pc # "dead" => e.attempts < MaxAttempts)
      /\ e.pc = "save" /\ e.reply = cl[c].reply /\ e.open = cl[c].open
      /\ e.seen = cl[c].seen /\ e.existing = cl[c].existing
  BY <1>1, ClientTyped DEF ClientType, LoadConflicts
<1> HIDE DEF e
<1>4. cl' \in [Client -> ClientType] /\ AttemptsLeft' /\ cl'[c] = e /\ Others(c)
  BY <1>2, <1>3, ClientChange
<1>5. TypeInv'
  BY <1>4 DEF LoadConflicts, TypeInv, TypeOK
<1> QED BY <1>3, <1>4, <1>5

\* A COMMIT or ROLLBACK releases the locks of its transaction, and no other.
LEMMA UnlockEffect ==
    ASSUME TypeInv, NEW a, Unlock(a)
    PROVE  /\ recLock' \in [Record -> Client \cup Resolver \cup {Nil}]
           /\ confLock' \in [ConflictId -> Resolver \cup {Nil}]
           /\ \A r \in Record : recLock'[r] = IF recLock[r] = a THEN Nil ELSE recLock[r]
           /\ \A k \in ConflictId : confLock'[k] = IF confLock[k] = a THEN Nil ELSE confLock[k]
BY DEF TypeInv, TypeOK, Unlock

LEMMA RollbackEffect ==
    ASSUME TypeInv, NEW c \in Client, Rollback(c), cl[c].pc \in {"lock", "open", "load", "save"}
    PROVE  /\ TypeInv' /\ Others(c)
           /\ cl'[c].pc \in {"lock", "dead"} /\ cl'[c].reply = cl[c].reply
           /\ cl'[c].open = cl[c].open
           /\ cl'[c].seen = cl[c].seen /\ cl'[c].existing = cl[c].existing
<1> DEFINE e == [cl[c] EXCEPT !.attempts = cl[c].attempts + 1,
                     !.pc = IF cl[c].attempts + 1 < MaxAttempts THEN "lock" ELSE "dead"]
<1>1. cl[c] \in ClientType /\ cl[c].attempts \in Nat /\ cl[c].attempts < MaxAttempts
  BY ClientTyped, AttemptsAssumption DEF ClientType
<1>2. cl' = [cl EXCEPT ![c] = e]
  BY DEF Rollback
<1>3. /\ e.pc \in {"lock", "dead"} /\ e.attempts \in 0 .. MaxAttempts
      /\ (e.pc # "dead" => e.attempts < MaxAttempts)
  BY <1>1, AttemptsAssumption DEF ClientType
<1>4. e \in ClientType /\ e.reply = cl[c].reply /\ e.open = cl[c].open
        /\ e.seen = cl[c].seen /\ e.existing = cl[c].existing
  BY <1>1, <1>3 DEF ClientType
<1> HIDE DEF e
<1>5. cl' \in [Client -> ClientType] /\ AttemptsLeft' /\ cl'[c] = e /\ Others(c)
  BY <1>2, <1>3, <1>4, ClientChange
<1>6. TypeInv'
  BY <1>5, UnlockEffect DEF Rollback, TypeInv, TypeOK
<1> QED BY <1>3, <1>4, <1>5, <1>6

Accepted(c) == RecordsOf[c] \ Conflicted(c)

LEMMA CommitEffect ==
    ASSUME TypeInv, NEW c \in Client, Commit(c)
    PROVE  /\ TypeInv' /\ Others(c)
           /\ cl'[c].pc = "done" /\ cl'[c].open = cl[c].open
           /\ cl'[c].seen = cl[c].seen /\ cl'[c].existing = cl[c].existing
           /\ \A r \in Record : (cl'[c].reply[r] = "accepted") = (r \in Accepted(c))
           /\ \A r \in Record :
                rec'[r] = IF r \in Accepted(c)
                          THEN [version |-> cl[c].existing[r].version + 1, content |-> c,
                                deleted |-> c \in Deletes]
                          ELSE rec[r]
           /\ \A r \in Record :
                log'[r] = IF r \in RecordsOf[c] THEN Append(log[r], PushEntry(c, r)) ELSE log[r]
           /\ \A k \in ConflictId :
                conf'[k] = IF k[2] \in Conflicted(c) /\ k = Row(c, k[2]) THEN Filed(c, k[2])
                           ELSE conf[k]
<1> DEFINE bad == Conflicted(c)
           good == Accepted(c)
           rep == [r \in Record |-> CASE r \in bad -> "conflict" [] r \in good -> "accepted"
                                      [] OTHER -> "none"]
           e == [cl[c] EXCEPT !.pc = "done", !.reply = rep]
           file(k) == IF k[2] \in bad /\ k = Row(c, k[2]) THEN Filed(c, k[2]) ELSE conf[k]
           row(r) == IF r \in good THEN [version |-> cl[c].existing[r].version + 1, content |-> c,
                                         deleted |-> c \in Deletes]
                     ELSE rec[r]
<1>1. /\ rep \in Replies
      /\ \A r \in Record : (rep[r] = "accepted") = (r \in good)
  BY DEF Replies, Accepted
<1>2. /\ cl' = [cl EXCEPT ![c] = e]
      /\ conf' = [k \in ConflictId |-> file(k)]
      /\ rec' = [r \in Record |-> row(r)]
      /\ Unlock(c) /\ UNCHANGED <<rs, copy>>
  BY DEF Commit, Accepted
<1>3. ASSUME NEW r \in Record
      PROVE  log'[r] = IF r \in RecordsOf[c] THEN Append(log[r], PushEntry(c, r)) ELSE log[r]
  BY DEF Commit
<1>t. log' = [r \in Record |-> log'[r]]
  BY DEF Commit
<1> HIDE DEF rep
<1>4. /\ e \in ClientType /\ (e.pc # "dead" => e.attempts < MaxAttempts)
      /\ e.pc = "done" /\ e.open = cl[c].open /\ e.seen = cl[c].seen
      /\ e.existing = cl[c].existing /\ e.reply = rep
  BY <1>1, ClientTyped DEF ClientType, Commit
<1> HIDE DEF e
<1>5. cl' \in [Client -> ClientType] /\ AttemptsLeft' /\ cl'[c] = e /\ Others(c)
  BY <1>2, <1>4, ClientChange
<1>6. \A k \in ConflictId : file(k) \in ConflictType
  <2>1. ASSUME NEW r \in Record PROVE Filed(c, r) \in ConflictType
    BY RowTyped DEF Filed, ConflictType, Status
  <2>2. \A k \in ConflictId : conf[k] \in ConflictType /\ k[2] \in Record
    BY DEF TypeInv, TypeOK
  <2> QED BY <2>1, <2>2
<1>7. \A r \in Record : cl[c].existing[r] \in RowType
  BY ClientTyped DEF Rows
<1>8. \A r \in Record : row(r) \in RowType
  BY <1>7 DEF RowType, TypeInv, TypeOK, Rows
<1>9. \A r \in Record : PushEntry(c, r) \in EntryType
  BY <1>7 DEF PushEntry, Entry, EntryType, RowType
<1>10. \A r \in Record : log'[r] \in Seq(EntryType)
  <2> TAKE r \in Record
  <2>1. log[r] \in Seq(EntryType) /\ PushEntry(c, r) \in EntryType
    BY <1>9 DEF TypeInv, TypeOK
  <2>2. Append(log[r], PushEntry(c, r)) \in Seq(EntryType)
    BY <2>1, AppendProperties
  <2>3. log'[r] = IF r \in RecordsOf[c] THEN Append(log[r], PushEntry(c, r)) ELSE log[r]
    BY <1>3
  <2> QED BY <2>1, <2>2, <2>3
<1>11. TypeInv'
  <2>1. rec' \in Rows
    BY <1>2, <1>8 DEF Rows
  <2>2. conf' \in [ConflictId -> ConflictType]
    BY <1>2, <1>6
  <2>3. log' \in [Record -> Seq(EntryType)]
    BY <1>t, <1>10
  <2> QED BY <2>1, <2>2, <2>3, <1>2, <1>5, UnlockEffect DEF TypeInv, TypeOK
<1> QED BY <1>1, <1>2, <1>3, <1>4, <1>5, <1>11

(* The same for the statements of a resolution *)

OtherRequests(q) == \A p \in Resolver \ {q} : rs'[p] = rs[p]

LEMMA ResolverTyped ==
    ASSUME TypeInv, NEW q \in Resolver
    PROVE  rs[q] \in ResolverType /\ rs[q].conflict \in ConflictId \cup {Nil} /\ rs[q].base \in Nat
BY DEF TypeInv, TypeOK, ResolverType

LEMMA ResolverChange ==
    ASSUME TypeInv, NEW q \in Resolver, NEW e, rs' = [rs EXCEPT ![q] = e], e \in ResolverType
    PROVE  rs' \in [Resolver -> ResolverType] /\ rs'[q] = e /\ OtherRequests(q)
BY DEF TypeInv, TypeOK, OtherRequests

LEMMA LookEffect ==
    ASSUME TypeInv, NEW q \in Resolver, Look(q)
    PROVE  /\ TypeInv' /\ OtherRequests(q)
           /\ rs'[q].pc = "lock" /\ rs'[q].reply = rs[q].reply
           /\ rs'[q].conflict \in ConflictId /\ conf[rs'[q].conflict].status = "open"
<1>1. PICK k \in ConflictId :
        /\ conf[k].status = "open"
        /\ rs' = [rs EXCEPT ![q] = [rs[q] EXCEPT !.pc = "lock", !.conflict = k,
                                        !.local = conf[k].local, !.base = rec[k[2]].version]]
  BY DEF Look
<1> DEFINE e == [rs[q] EXCEPT !.pc = "lock", !.conflict = k,
                              !.local = conf[k].local, !.base = rec[k[2]].version]
<1>2. conf[k].local \in Client \cup {Nil} /\ rec[k[2]].version \in Nat
  BY DEF TypeInv, TypeOK, ConflictType, Rows, RowType
<1>3. e \in ResolverType /\ e.pc = "lock" /\ e.reply = rs[q].reply /\ e.conflict = k
  BY <1>2, ResolverTyped DEF ResolverType
<1> HIDE DEF e
<1>4. rs' \in [Resolver -> ResolverType] /\ rs'[q] = e /\ OtherRequests(q)
  BY <1>1, <1>3, ResolverChange DEF e
<1>5. TypeInv'
  BY <1>4 DEF Look, TypeInv, TypeOK, AttemptsLeft
<1> QED BY <1>1, <1>3, <1>4, <1>5

LEMMA GotoEffect ==
    ASSUME TypeInv, NEW q \in Resolver, NEW l \in {"read", "update", "save"}, RGoto(q, l)
    PROVE  /\ rs' \in [Resolver -> ResolverType] /\ OtherRequests(q)
           /\ rs'[q].pc = l /\ rs'[q].reply = rs[q].reply /\ rs'[q].conflict = rs[q].conflict
<1> DEFINE e == [rs[q] EXCEPT !.pc = l]
<1>1. e \in ResolverType /\ e.pc = l /\ e.reply = rs[q].reply /\ e.conflict = rs[q].conflict
  BY ResolverTyped DEF ResolverType
<1>2. rs' = [rs EXCEPT ![q] = e]
  BY DEF RGoto
<1> HIDE DEF e
<1> QED BY <1>1, <1>2, ResolverChange

LEMMA AnswerEffect ==
    ASSUME TypeInv, NEW q \in Resolver, NEW l \in {"resolved", "already", "error"}, Answer(q, l)
    PROVE  /\ rs' \in [Resolver -> ResolverType] /\ OtherRequests(q)
           /\ rs'[q].pc = "done" /\ rs'[q].reply = l /\ rs'[q].conflict = rs[q].conflict
<1> DEFINE e == [rs[q] EXCEPT !.pc = "done", !.reply = l]
<1>1. e \in ResolverType /\ e.pc = "done" /\ e.reply = l /\ e.conflict = rs[q].conflict
  BY ResolverTyped DEF ResolverType
<1>2. rs' = [rs EXCEPT ![q] = e]
  BY DEF Answer
<1> HIDE DEF e
<1> QED BY <1>1, <1>2, ResolverChange

\* A resolution that works on a conflict has one; ConflictsExist says so of requests
\* that are not answered.
LEMMA RLockEffect ==
    ASSUME TypeInv, ConflictsExist, NEW q \in Resolver, RLock(q)
    PROVE  /\ TypeInv' /\ OtherRequests(q) /\ rs'[q].conflict = rs[q].conflict
           /\ rs[q].conflict \in ConflictId /\ conf[rs[q].conflict].status \in {"open", "resolved"}
           /\ \/ rs'[q].pc = "done" /\ rs'[q].reply = "already" /\ UNCHANGED confLock
              \/ /\ rs'[q].pc \in AfterLock(q) /\ rs'[q].reply = rs[q].reply
                 /\ conf[rs[q].conflict].status = "open" /\ confLock[rs[q].conflict] = Nil
                 /\ confLock'[rs[q].conflict] = q
                 /\ \A k \in ConflictId \ {rs[q].conflict} : confLock'[k] = confLock[k]
<1> DEFINE k == rs[q].conflict
<1>1. /\ rs[q].pc = "lock" /\ confLock[k] = Nil
      /\ \/ conf[k].status = "resolved" /\ Answer(q, "already") /\ UNCHANGED confLock
         \/ /\ conf[k].status # "resolved" /\ \E label \in AfterLock(q) : RGoto(q, label)
            /\ confLock' = [confLock EXCEPT ![k] = q]
  BY DEF RLock
<1>2. k \in ConflictId /\ conf[k].status # "none" /\ conf[k].status \in Status
  BY <1>1 DEF ConflictsExist, TypeInv, TypeOK, ConflictType
<1>3. AfterLock(q) \subseteq {"read", "update", "save"}
  BY DEF AfterLock
<1> HIDE DEF k
<1>4. /\ confLock' \in [ConflictId -> Resolver \cup {Nil}]
      /\ confLock' = [confLock EXCEPT ![k] = q] =>
            confLock'[k] = q /\ \A j \in ConflictId \ {k} : confLock'[j] = confLock[j]
  BY <1>1, <1>2 DEF TypeInv, TypeOK
<1>5. rs' \in [Resolver -> ResolverType]
  BY <1>1, <1>3, GotoEffect, AnswerEffect
<1>6. TypeInv'
  BY <1>4, <1>5 DEF RLock, TypeInv, TypeOK, AttemptsLeft
<1>7. CASE conf[k].status = "resolved"
  BY <1>1, <1>2, <1>6, <1>7, AnswerEffect DEF k
<1>8. CASE conf[k].status # "resolved"
  <2>1. PICK label \in AfterLock(q) : RGoto(q, label)
    BY <1>1, <1>8
  <2>2. label \in {"read", "update", "save"}
    BY <1>3, <2>1
  <2>3. OtherRequests(q) /\ rs'[q].conflict = rs[q].conflict
        /\ rs'[q].pc \in AfterLock(q) /\ rs'[q].reply = rs[q].reply
    BY <2>1, <2>2, GotoEffect
  <2> QED BY <1>1, <1>2, <1>4, <1>6, <1>8, <2>3 DEF k, Status
<1> QED BY <1>7, <1>8

LEMMA RUpdateEffect ==
    ASSUME TypeInv, ConflictsExist, NEW q \in Resolver, RUpdate(q)
    PROVE  /\ TypeInv' /\ OtherRequests(q) /\ rs'[q].conflict = rs[q].conflict
           /\ rs'[q].pc = "save" /\ rs'[q].reply = rs[q].reply
           /\ rs[q].conflict \in ConflictId
           /\ recLock[rs[q].conflict[2]] = Nil /\ recLock'[rs[q].conflict[2]] = q
           /\ \A r \in Record \ {rs[q].conflict[2]} : recLock'[r] = recLock[r]
<1>1. rs[q].conflict \in ConflictId
  BY DEF RUpdate, ConflictsExist
<1>2. /\ recLock' \in [Record -> Client \cup Resolver \cup {Nil}]
      /\ recLock[rs[q].conflict[2]] = Nil /\ recLock'[rs[q].conflict[2]] = q
      /\ \A r \in Record \ {rs[q].conflict[2]} : recLock'[r] = recLock[r]
  BY <1>1 DEF RUpdate, TypeInv, TypeOK
<1>3. /\ rs' \in [Resolver -> ResolverType] /\ OtherRequests(q)
      /\ rs'[q].pc = "save" /\ rs'[q].reply = rs[q].reply /\ rs'[q].conflict = rs[q].conflict
  BY GotoEffect DEF RUpdate
<1>4. TypeInv'
  BY <1>2, <1>3 DEF RUpdate, TypeInv, TypeOK, AttemptsLeft
<1> QED BY <1>1, <1>2, <1>3, <1>4

LEMMA RRollbackEffect ==
    ASSUME TypeInv, NEW q \in Resolver, RRollback(q)
    PROVE  /\ TypeInv' /\ OtherRequests(q) /\ rs'[q].conflict = rs[q].conflict
           /\ rs'[q].pc = "done" /\ rs'[q].reply = "error"
<1>1. /\ rs' \in [Resolver -> ResolverType] /\ OtherRequests(q)
      /\ rs'[q].pc = "done" /\ rs'[q].reply = "error" /\ rs'[q].conflict = rs[q].conflict
  BY AnswerEffect DEF RRollback
<1>2. TypeInv'
  BY <1>1, UnlockEffect DEF RRollback, TypeInv, TypeOK, AttemptsLeft
<1> QED BY <1>1, <1>2

LEMMA RCommitEffect ==
    ASSUME TypeInv, ConflictsExist, NEW q \in Resolver, RCommit(q)
    PROVE  LET k == rs[q].conflict
           IN  /\ TypeInv' /\ OtherRequests(q) /\ rs'[q].conflict = k
               /\ rs'[q].pc = "done" /\ rs'[q].reply = "resolved"
               /\ k \in ConflictId
               /\ conf'[k] = [conf[k] EXCEPT !.status = "resolved"]
               /\ \A j \in ConflictId \ {k} : conf'[j] = conf[j]
               /\ \A r \in Record :
                    IF q \in Writes /\ r = k[2]
                    THEN /\ rec'[r].version = rs[q].base + 1 /\ rec'[r].content = q
                         /\ log'[r] = Append(log[r], Entry("UPDATE", Nil, q))
                    ELSE rec'[r] = rec[r] /\ log'[r] = log[r]
<1> DEFINE k == rs[q].conflict
           r == k[2]
           row == [rec[r] EXCEPT !.version = rs[q].base + 1, !.content = q]
           entry == Entry("UPDATE", Nil, q)
           closed == [conf[k] EXCEPT !.status = "resolved"]
<1>1. k \in ConflictId /\ r \in Record /\ rs[q].base \in Nat
  BY ResolverTyped DEF RCommit, ConflictsExist
<1>2. /\ rs' \in [Resolver -> ResolverType] /\ OtherRequests(q)
      /\ rs'[q].pc = "done" /\ rs'[q].reply = "resolved" /\ rs'[q].conflict = k
  BY AnswerEffect DEF RCommit
<1>3. /\ conf' = [conf EXCEPT ![k] = closed] /\ conf \in [ConflictId -> ConflictType]
      /\ closed \in ConflictType
  <2>1. conf[k] \in ConflictType
    BY <1>1 DEF TypeInv, TypeOK
  <2>2. conf' = [conf EXCEPT ![k] = closed]
    BY <1>1 DEF RCommit
  <2> QED BY <2>1, <2>2 DEF ConflictType, Status, TypeInv, TypeOK
<1>4. rec[r] \in RowType
  BY <1>1 DEF TypeInv, TypeOK, Rows
<1>5. row \in RowType /\ row.version = rs[q].base + 1 /\ row.content = q
  <2>1. rs[q].base + 1 \in Nat
    BY <1>1
  <2> HIDE DEF r
  <2> DEFINE x == rec[r]
             v == rs[q].base + 1
  <2>2. x \in RowType /\ v \in Nat /\ row = [x EXCEPT !.version = v, !.content = q]
    BY <2>1, <1>4
  <2> HIDE DEF x, v
  <2>3. row \in RowType /\ row.version = v /\ row.content = q
    BY <2>2 DEF RowType
  <2> QED BY <2>3 DEF v
<1>6. entry \in EntryType
  BY DEF Entry, EntryType
<1>7. log[r] \in Seq(EntryType) /\ Append(log[r], entry) \in Seq(EntryType)
  BY <1>1, <1>6, AppendProperties DEF TypeInv, TypeOK
<1>8. q \in Writes => /\ rec' = [rec EXCEPT ![r] = row]
                      /\ log' = [log EXCEPT ![r] = Append(log[r], entry)]
  BY <1>1 DEF RCommit
<1>9. q \notin Writes => UNCHANGED <<rec, log>>
  BY DEF RCommit
<1> HIDE DEF row, entry, closed, r, k
<1>10. /\ conf' \in [ConflictId -> ConflictType]
       /\ conf'[k] = closed /\ \A j \in ConflictId \ {k} : conf'[j] = conf[j]
  BY <1>1, <1>3
<1>11. ASSUME q \in Writes
       PROVE  /\ rec' \in Rows /\ log' \in [Record -> Seq(EntryType)]
              /\ rec'[r] = row /\ log'[r] = Append(log[r], entry)
              /\ \A s \in Record \ {r} : rec'[s] = rec[s] /\ log'[s] = log[s]
  <2>1. rec \in [Record -> RowType] /\ log \in [Record -> Seq(EntryType)]
    BY DEF TypeInv, TypeOK, Rows
  <2> QED BY <2>1, <1>1, <1>5, <1>7, <1>8, <1>11 DEF Rows
<1>12. TypeInv'
  BY <1>2, <1>9, <1>10, <1>11, UnlockEffect DEF RCommit, TypeInv, TypeOK, AttemptsLeft
<1> QED BY <1>1, <1>2, <1>5, <1>9, <1>10, <1>11, <1>12 DEF closed, k, r, entry

-----------------------------------------------------------------------------
(* The steps, by who takes them *)

Rolls(c)  == cl[c].pc \in {"lock", "open", "load", "save"} /\ Rollback(c)
RRolls(q) == rs[q].pc \in {"lock", "read", "update", "save"} /\ RRollback(q)

LEMMA Steps ==
    ASSUME [Next]_vars
    PROVE  \/ \E c \in Client : Pull(c) \/ Lock(c) \/ ReadOpen(c) \/ LoadConflicts(c)
                                    \/ Commit(c) \/ Rolls(c)
           \/ \E q \in Resolver : Look(q) \/ RLock(q) \/ RUpdate(q)
                                    \/ RCommit(q) \/ RRolls(q)
           \/ CopyConflict \/ PushConflict \/ UNCHANGED vars
<1>1. CASE \E c \in Client : Pull(c) \/ PushNext(c) \/ PushFails(c)
  BY <1>1 DEF PushNext, PushFails, Rejected, Rolls
<1>2. CASE \E q \in Resolver : Look(q) \/ ResolveNext(q) \/ ResolveFails(q)
  BY <1>2 DEF ResolveNext, ResolveFails, RRead, RRolls
<1>3. CASE \E c \in Client, q \in Resolver : Abort(c, q)
  BY <1>3 DEF Abort, Deadlocked, Rolls, RRolls
<1> QED BY <1>1, <1>2, <1>3 DEF Next

\* What a push of a conflict does: the row becomes the copy, or nothing happens.
LEMMA PushConflictEffect ==
    ASSUME TypeInv, ConflictsExist, PushConflict
    PROVE  LET k == copy.conflict
           IN  /\ TypeInv' /\ k \in ConflictId /\ conf[k].status # "none"
               /\ copy.row.status # "none" /\ copy'.pc \in {"saved", "rejected"}
               /\ confLock[k] = Nil \/ conf[k] = copy.row
               /\ \/ conf' = conf
                  \/ /\ copy'.pc = "saved" /\ conf'[k] = copy.row
                     /\ copy.row.status = "open" => OpenConflicts(k[2]) \ {k} = {}
                     /\ \A j \in ConflictId \ {k} : conf'[j] = conf[j]
<1> DEFINE k == copy.conflict
           rejected == copy.row.status = "open" /\ OpenConflicts(k[2]) \ {k} # {}
<1>1. /\ copy.pc = "held" /\ (confLock[k] = Nil \/ conf[k] = copy.row)
      /\ copy' = [copy EXCEPT !.pc = IF rejected THEN "rejected" ELSE "saved"]
      /\ conf' = IF rejected THEN conf ELSE [conf EXCEPT ![k] = copy.row]
      /\ UNCHANGED <<rec, log, recLock, confLock, cl, rs>>
  BY DEF PushConflict
<1>2. k \in ConflictId /\ conf[k].status # "none" /\ copy.row.status # "none"
  BY <1>1 DEF ConflictsExist
<1>3. /\ copy.row \in ConflictType /\ conf \in [ConflictId -> ConflictType]
      /\ copy' \in [pc : {"none", "held", "saved", "rejected"}, conflict : ConflictId \cup {Nil},
                    row : ConflictType]
      /\ copy'.pc = IF rejected THEN "rejected" ELSE "saved"
  <2> HIDE DEF rejected
  <2> QED BY <1>1 DEF TypeInv, TypeOK
<1> HIDE DEF k
<1>4. ~rejected => /\ conf'[k] = copy.row
                   /\ \A j \in ConflictId \ {k} : conf'[j] = conf[j]
  BY <1>1, <1>2, <1>3
<1>5. conf' \in [ConflictId -> ConflictType]
  BY <1>1, <1>2, <1>3
<1>6. TypeInv'
  BY <1>1, <1>3, <1>5 DEF TypeInv, TypeOK, AttemptsLeft
<1> QED BY <1>1, <1>2, <1>3, <1>4, <1>6 DEF k

LEMMA TypeNext ==
    ASSUME TypeInv, ConflictsExist, [Next]_vars
    PROVE  TypeInv'
<1>1. CASE \E c \in Client : Pull(c) \/ Lock(c) \/ ReadOpen(c) \/ LoadConflicts(c)
                                \/ Commit(c) \/ Rolls(c)
  BY <1>1, PullEffect, LockEffect, ReadOpenEffect, LoadEffect, CommitEffect, RollbackEffect DEF Rolls
<1>2. CASE \E q \in Resolver : Look(q) \/ RLock(q) \/ RUpdate(q)
                                \/ RCommit(q) \/ RRolls(q)
  BY <1>2, LookEffect, RLockEffect, RUpdateEffect, RCommitEffect, RRollbackEffect
     DEF RRolls
<1>3. CASE CopyConflict
  <2>1. PICK k \in ConflictId : copy' = [pc |-> "held", conflict |-> k, row |-> conf[k]]
    BY <1>3 DEF CopyConflict
  <2>2. copy' \in [pc : {"none", "held", "saved", "rejected"}, conflict : ConflictId \cup {Nil},
                   row : ConflictType]
    BY <2>1 DEF TypeInv, TypeOK
  <2> QED BY <1>3, <2>2 DEF CopyConflict, TypeInv, TypeOK, AttemptsLeft
<1>4. CASE PushConflict
  BY <1>4, PushConflictEffect
<1>5. CASE UNCHANGED vars
  BY <1>5 DEF vars, TypeInv, TypeOK, AttemptsLeft
<1> QED BY <1>1, <1>2, <1>3, <1>4, <1>5, Steps

-----------------------------------------------------------------------------
(* Locks *)

LEMMA PushHoldsNext ==
    ASSUME PushInv, [Next]_vars
    PROVE  PushHolds'
<1>i. TypeInv /\ ConflictsExist /\ PushHolds /\ ResolveHolds
  BY DEF PushInv, LockInv, ConflictInv
<1> SUFFICES ASSUME NEW c \in Client, NEW r \in RecordsOf[c],
                    InPush(c)', cl'[c].existing[r].version > 0
             PROVE  recLock'[r] = c /\ cl'[c].existing[r] = rec'[r]
  BY DEF PushHolds
<1>r. r \in Record
  BY RecordsAreRecords
<1>u. ASSUME cl'[c] = cl[c]
      PROVE  recLock[r] = c /\ cl[c].existing[r] = rec[r]
  BY <1>i, <1>u DEF PushHolds, InPush
<1>1. ASSUME NEW e \in Client, Pull(e) PROVE recLock'[r] = c /\ cl'[c].existing[r] = rec'[r]
  <2>1. cl'[e].pc = "lock" /\ Others(e)
    BY <1>1, <1>i, PullEffect
  <2>2. e # c
    BY <2>1 DEF InPush
  <2>3. cl'[c] = cl[c]
    BY <2>1, <2>2 DEF Others
  <2>4. rec' = rec /\ recLock' = recLock
    BY <1>1 DEF Pull
  <2> QED BY <1>u, <2>3, <2>4
<1>2. ASSUME NEW e \in Client, Lock(e) PROVE recLock'[r] = c /\ cl'[c].existing[r] = rec'[r]
  <2>1. CASE e = c
    <3>1. IF rec[r].version > 0
          THEN cl'[c].existing[r] = rec[r] /\ recLock'[r] = c
          ELSE cl'[c].existing[r].version = 0
      BY <2>1, <1>2, <1>i, LockEffect
    <3>2. rec' = rec
      BY <1>2 DEF Lock
    <3> QED BY <3>1, <3>2
  <2>2. CASE e # c
    <3>1. cl'[c] = cl[c] /\ rec' = rec
      <4>1. Others(e)
        BY <1>2, <1>i, LockEffect
      <4>2. rec' = rec
        BY <1>2 DEF Lock
      <4> QED BY <4>1, <4>2, <2>2 DEF Others
    <3>2. recLock[r] # Nil => recLock'[r] = recLock[r]
      BY <1>2, <1>i, <1>r, LockEffect
    <3> QED BY <3>1, <3>2, <1>u, NilIsNone
  <2> QED BY <2>1, <2>2
<1>3. ASSUME NEW e \in Client, ReadOpen(e) PROVE recLock'[r] = c /\ cl'[c].existing[r] = rec'[r]
  <2>1. rec' = rec /\ recLock' = recLock
    BY <1>3 DEF ReadOpen
  <2>2. CASE e = c
    <3>1. cl'[c].existing = cl[c].existing /\ InPush(c)
      BY <2>2, <1>3, <1>i, ReadOpenEffect DEF ReadOpen, InPush
    <3> QED BY <3>1, <2>1, <1>i DEF PushHolds
  <2>3. CASE e # c
    BY <2>1, <2>3, <1>3, <1>i, <1>u, ReadOpenEffect DEF Others
  <2> QED BY <2>2, <2>3
<1>4. ASSUME NEW e \in Client, LoadConflicts(e)
      PROVE  recLock'[r] = c /\ cl'[c].existing[r] = rec'[r]
  <2>1. rec' = rec /\ recLock' = recLock
    BY <1>4 DEF LoadConflicts
  <2>2. CASE e = c
    <3>1. cl'[c].existing = cl[c].existing /\ InPush(c)
      BY <2>2, <1>4, <1>i, LoadEffect DEF LoadConflicts, InPush
    <3> QED BY <3>1, <2>1, <1>i DEF PushHolds
  <2>3. CASE e # c
    BY <2>1, <2>3, <1>4, <1>i, <1>u, LoadEffect DEF Others
  <2> QED BY <2>2, <2>3
<1>5. ASSUME NEW e \in Client, Commit(e) PROVE recLock'[r] = c /\ cl'[c].existing[r] = rec'[r]
  <2>1. e # c
    BY <1>5, <1>i, CommitEffect DEF InPush
  <2>2. recLock[r] = c /\ cl[c].existing[r] = rec[r] /\ cl'[c] = cl[c]
    BY <2>1, <1>5, <1>i, <1>u, CommitEffect DEF Others
  <2>3. r \notin Accepted(e)
    BY <2>1, <2>2, <1>5, NilIsNone DEF Commit, Accepted
  <2>4. recLock'[r] = recLock[r]
    BY <2>1, <2>2, <1>5, <1>i, <1>r, UnlockEffect DEF Commit
  <2>5. rec'[r] = rec[r]
    BY <2>3, <1>5, <1>i, <1>r, CommitEffect
  <2> QED BY <2>2, <2>4, <2>5
<1>6. ASSUME NEW e \in Client, Rolls(e) PROVE recLock'[r] = c /\ cl'[c].existing[r] = rec'[r]
  <2>1. e # c
    BY <1>6, <1>i, RollbackEffect DEF InPush, Rolls
  <2>2. recLock[r] = c /\ cl[c].existing[r] = rec[r] /\ cl'[c] = cl[c]
    BY <2>1, <1>6, <1>i, <1>u, RollbackEffect DEF Others, Rolls
  <2> QED BY <2>1, <2>2, <1>6, <1>i, <1>r, UnlockEffect DEF Rollback, Rolls
<1>7. ASSUME NEW q \in Resolver, Look(q) \/ RLock(q)
      PROVE  recLock'[r] = c /\ cl'[c].existing[r] = rec'[r]
  BY <1>7, <1>u DEF Look, RLock
<1>8. ASSUME NEW q \in Resolver, RUpdate(q) PROVE recLock'[r] = c /\ cl'[c].existing[r] = rec'[r]
  <2>1. recLock[r] = c /\ cl[c].existing[r] = rec[r] /\ cl'[c] = cl[c] /\ rec' = rec
    BY <1>8, <1>u DEF RUpdate
  <2> QED BY <2>1, <1>8, <1>i, <1>r, RUpdateEffect, NilIsNone
<1>9. ASSUME NEW q \in Resolver, RCommit(q) PROVE recLock'[r] = c /\ cl'[c].existing[r] = rec'[r]
  <2>1. recLock[r] = c /\ cl[c].existing[r] = rec[r] /\ cl'[c] = cl[c]
    BY <1>9, <1>u DEF RCommit
  <2>2. c # q
    BY NilIsNone
  <2>3. recLock'[r] = c
    BY <2>1, <2>2, <1>9, <1>i, <1>r, UnlockEffect DEF RCommit
  <2>4. ~ (q \in Writes /\ r = rs[q].conflict[2])
    BY <2>1, <2>2, <1>9, <1>i DEF RCommit, ResolveHolds
  <2> QED BY <2>1, <2>3, <2>4, <1>9, <1>i, <1>r, RCommitEffect
<1>10. ASSUME NEW q \in Resolver, RRolls(q) PROVE recLock'[r] = c /\ cl'[c].existing[r] = rec'[r]
  <2>1. recLock[r] = c /\ cl[c].existing[r] = rec[r] /\ cl'[c] = cl[c] /\ rec' = rec
    BY <1>10, <1>u DEF RRollback, RRolls
  <2> QED BY <2>1, <1>10, <1>i, <1>r, UnlockEffect, NilIsNone DEF RRollback, RRolls
<1>11. CASE CopyConflict \/ PushConflict \/ UNCHANGED vars
  BY <1>11, <1>u DEF CopyConflict, PushConflict, vars
<1> QED BY <1>1, <1>2, <1>3, <1>4, <1>5, <1>6, <1>7, <1>8, <1>9, <1>10, <1>11, Steps

LEMMA ResolveHoldsNext ==
    ASSUME PushInv, [Next]_vars
    PROVE  ResolveHolds'
<1>i. TypeInv /\ ConflictsExist /\ PushHolds /\ ResolveHolds
  BY DEF PushInv, LockInv, ConflictInv
<1> SUFFICES ASSUME NEW q \in Resolver
             PROVE  /\ InResolve(q)' => confLock'[rs'[q].conflict] = q
                                        /\ conf'[rs'[q].conflict].status = "open"
                    /\ rs'[q].pc = "save" /\ q \in Writes => recLock'[rs'[q].conflict[2]] = q
  BY DEF ResolveHolds
<1> DEFINE k == rs[q].conflict
           Goal == /\ InResolve(q)' => confLock'[rs'[q].conflict] = q
                                       /\ conf'[rs'[q].conflict].status = "open"
                   /\ rs'[q].pc = "save" /\ q \in Writes => recLock'[rs'[q].conflict[2]] = q
<1>k. InResolve(q) => k \in ConflictId /\ k[2] \in Record /\ q # Nil
  BY <1>i, NilIsNone DEF InResolve, ConflictsExist
<1>h. /\ InResolve(q) => confLock[k] = q /\ conf[k].status = "open"
      /\ rs[q].pc = "save" /\ q \in Writes => recLock[k[2]] = q
  BY <1>i DEF ResolveHolds
<1>s. rs[q].pc = "save" => InResolve(q)
  BY DEF InResolve
<1>1. ASSUME NEW e \in Client, Pull(e) \/ ReadOpen(e) \/ LoadConflicts(e) PROVE Goal
  BY <1>1, <1>h DEF Pull, ReadOpen, LoadConflicts, InResolve
<1>2. ASSUME NEW e \in Client, Lock(e) PROVE Goal
  BY <1>2, <1>i, <1>h, <1>k, <1>s, LockEffect DEF Lock, InResolve
<1>3. ASSUME NEW e \in Client, Commit(e) PROVE Goal
  <2>1. e # q /\ rs' = rs
    BY <1>3, NilIsNone DEF Commit
  <2>2. InResolve(q) => confLock'[k] = q /\ (recLock[k[2]] = q => recLock'[k[2]] = q)
    BY <2>1, <1>3, <1>i, <1>h, <1>k, UnlockEffect DEF Commit
  <2>3. InResolve(q) => conf'[k] = conf[k]
    <3> SUFFICES ASSUME InResolve(q) PROVE conf'[k] = conf[k]
      OBVIOUS
    <3>1. ~ (k[2] \in Conflicted(e) /\ k = Row(e, k[2]))
      BY <1>3, <1>h, <1>k DEF Commit
    <3> QED BY <3>1, <1>3, <1>i, <1>k, CommitEffect
  <2> QED BY <2>1, <2>2, <2>3, <1>h, <1>s DEF InResolve
<1>4. ASSUME NEW e \in Client, Rolls(e) PROVE Goal
  <2>1. e # q /\ rs' = rs /\ conf' = conf
    BY <1>4, NilIsNone DEF Rolls, Rollback
  <2>2. InResolve(q) => confLock'[k] = q /\ (recLock[k[2]] = q => recLock'[k[2]] = q)
    BY <2>1, <1>4, <1>i, <1>h, <1>k, UnlockEffect DEF Rolls, Rollback
  <2> QED BY <2>1, <2>2, <1>h, <1>s DEF InResolve
<1>5. ASSUME NEW p \in Resolver, Look(p) PROVE Goal
  BY <1>5, <1>i, <1>h, LookEffect DEF Look, OtherRequests, InResolve
<1>6. ASSUME NEW p \in Resolver, RLock(p) PROVE Goal
  <2>1. CASE p = q
    <3>1. rs'[q].pc = "save" => q \notin Writes \/ rs'[q].pc = "done"
      BY <2>1, <1>6, <1>i, RLockEffect DEF AfterLock
    <3> QED BY <3>1, <2>1, <1>6, <1>i, RLockEffect DEF InResolve, RLock
  <2>2. CASE p # q
    <3>1. rs'[q] = rs[q] /\ conf' = conf /\ recLock' = recLock
      BY <2>2, <1>6, <1>i, RLockEffect DEF OtherRequests, RLock
    <3>2. InResolve(q) => confLock'[k] = q
      BY <2>2, <1>6, <1>i, <1>h, <1>k, RLockEffect, NilIsNone
    <3> QED BY <3>1, <3>2, <1>h, <1>s DEF InResolve
  <2> QED BY <2>1, <2>2
<1>7. ASSUME NEW p \in Resolver, RUpdate(p) PROVE Goal
  <2>1. CASE p = q
    BY <2>1, <1>7, <1>i, <1>h, RUpdateEffect DEF RUpdate, InResolve
  <2>2. CASE p # q
    <3>1. rs'[q] = rs[q] /\ conf' = conf /\ confLock' = confLock
      <4>1. OtherRequests(p)
        BY <1>7, <1>i, RUpdateEffect
      <4>2. conf' = conf /\ confLock' = confLock
        BY <1>7 DEF RUpdate
      <4> QED BY <4>1, <4>2, <2>2 DEF OtherRequests
    <3>2. InResolve(q) /\ recLock[k[2]] = q => recLock'[k[2]] = q
      BY <1>7, <1>i, <1>k, RUpdateEffect
    <3> QED BY <3>1, <3>2, <1>h, <1>s DEF InResolve
  <2> QED BY <2>1, <2>2
<1>8. ASSUME NEW p \in Resolver, RCommit(p) PROVE Goal
  <2>1. CASE p = q
    BY <2>1, <1>8, <1>i, RCommitEffect DEF InResolve
  <2>2. CASE p # q
    <3>1. rs'[q] = rs[q]
      BY <2>2, <1>8, <1>i, RCommitEffect DEF OtherRequests
    <3>2. InResolve(q) => confLock'[k] = q /\ (recLock[k[2]] = q => recLock'[k[2]] = q)
      BY <2>2, <1>8, <1>i, <1>h, <1>k, UnlockEffect DEF RCommit
    <3>3. InResolve(p) /\ confLock[rs[p].conflict] = p
      BY <1>8, <1>i DEF RCommit, InResolve, ResolveHolds
    <3>4. InResolve(q) => conf'[k] = conf[k]
      BY <3>3, <2>2, <1>8, <1>i, <1>h, <1>k, RCommitEffect
    <3> QED BY <3>1, <3>2, <3>4, <1>h, <1>s DEF InResolve
  <2> QED BY <2>1, <2>2
<1>9. ASSUME NEW p \in Resolver, RRolls(p) PROVE Goal
  <2>1. CASE p = q
    BY <2>1, <1>9, <1>i, RRollbackEffect DEF InResolve, RRolls
  <2>2. CASE p # q
    <3>1. rs'[q] = rs[q] /\ conf' = conf
      BY <2>2, <1>9, <1>i, RRollbackEffect DEF OtherRequests, RRolls, RRollback
    <3>2. InResolve(q) => confLock'[k] = q /\ (recLock[k[2]] = q => recLock'[k[2]] = q)
      BY <2>2, <1>9, <1>i, <1>h, <1>k, UnlockEffect DEF RRolls, RRollback
    <3> QED BY <3>1, <3>2, <1>h, <1>s DEF InResolve
  <2> QED BY <2>1, <2>2
<1>10. CASE CopyConflict \/ UNCHANGED vars
  BY <1>10, <1>h DEF CopyConflict, vars, InResolve
<1>11. CASE PushConflict
  <2>1. UNCHANGED <<rs, recLock, confLock>>
    BY <1>11 DEF PushConflict
  <2>2. InResolve(q) => conf'[k] = conf[k]
    BY <1>11, <1>i, <1>h, <1>k, PushConflictEffect
  <2> QED BY <2>1, <2>2, <1>h DEF InResolve
<1> QED BY <1>1, <1>2, <1>3, <1>4, <1>5, <1>6, <1>7, <1>8, <1>9, <1>10, <1>11, Steps

-----------------------------------------------------------------------------
(* Conflicts *)

\* A status other than "none" and a version other than 0 are never lost.
LEMMA NothingVanishes ==
    ASSUME PushInv, [Next]_vars
    PROVE  /\ \A r \in Record : rec[r].version > 0 => rec'[r].version > 0
           /\ \A k \in ConflictId : conf[k].status # "none" => conf'[k].status # "none"
<1>i. TypeInv /\ ConflictsExist
  BY DEF PushInv, ConflictInv
<1>1. CASE \/ \E c \in Client : Pull(c) \/ Lock(c) \/ ReadOpen(c) \/ LoadConflicts(c) \/ Rolls(c)
           \/ \E q \in Resolver : Look(q) \/ RLock(q) \/ RUpdate(q) \/ RRolls(q)
           \/ CopyConflict \/ UNCHANGED vars
  <2>1. rec' = rec /\ conf' = conf
    BY <1>1 DEF Pull, Lock, ReadOpen, LoadConflicts, Rolls, Rollback, Look, RLock, RUpdate,
                RRolls, RRollback, CopyConflict, vars
  <2> QED BY <2>1
<1>2. ASSUME NEW c \in Client, Commit(c)
      PROVE  /\ \A r \in Record : rec[r].version > 0 => rec'[r].version > 0
             /\ \A k \in ConflictId : conf[k].status # "none" => conf'[k].status # "none"
  <2>1. \A r \in Record : cl[c].existing[r].version \in Nat
    BY <1>i, ClientTyped DEF Rows, RowType
  <2>2. \A r \in Record : rec[r].version > 0 => rec'[r].version > 0
    <3> TAKE r \in Record
    <3>1. rec'[r].version = cl[c].existing[r].version + 1 \/ rec'[r] = rec[r]
      <4>1. rec'[r] = IF r \in Accepted(c)
                      THEN [version |-> cl[c].existing[r].version + 1, content |-> c,
                            deleted |-> c \in Deletes]
                      ELSE rec[r]
        BY <1>2, <1>i, CommitEffect
      <4> QED BY <4>1
    <3> QED BY <3>1, <2>1
  <2>3. ASSUME NEW k \in ConflictId, conf[k].status # "none" PROVE conf'[k].status # "none"
    <3>1. k = Row(c, k[2]) => Filed(c, k[2]).status # "none"
      BY <2>3 DEF Filed
    <3> QED BY <3>1, <2>3, <1>2, <1>i, CommitEffect
  <2> QED BY <2>2, <2>3
<1>3. ASSUME NEW q \in Resolver, RCommit(q)
      PROVE  /\ \A r \in Record : rec[r].version > 0 => rec'[r].version > 0
             /\ \A k \in ConflictId : conf[k].status # "none" => conf'[k].status # "none"
  <2>1. rs[q].base + 1 > 0
    BY <1>i, ResolverTyped
  <2>2. \A r \in Record : rec[r].version > 0 => rec'[r].version > 0
    <3> TAKE r \in Record
    <3>1. rec'[r].version = rs[q].base + 1 \/ rec'[r] = rec[r]
      BY <1>3, <1>i, RCommitEffect
    <3> QED BY <3>1, <2>1
  <2>3. \A k \in ConflictId : conf[k] \in ConflictType
    BY <1>i DEF TypeInv, TypeOK
  <2>4. [conf[rs[q].conflict] EXCEPT !.status = "resolved"].status # "none"
    BY <2>3, <1>3, <1>i, RCommitEffect DEF ConflictType
  <2> QED BY <2>2, <2>4, <1>3, <1>i, RCommitEffect
<1>4. CASE PushConflict
  BY <1>4, <1>i, PushConflictEffect DEF PushConflict
<1> QED BY <1>1, <1>2, <1>3, <1>4, Steps

LEMMA ConflictsExistNext ==
    ASSUME PushInv, [Next]_vars
    PROVE  ConflictsExist'
<1>i. TypeInv /\ ConflictsExist /\ PushHolds
  BY DEF PushInv, ConflictInv, LockInv
<1>v. /\ \A r \in Record : rec[r].version > 0 => rec'[r].version > 0
      /\ \A k \in ConflictId : conf[k].status # "none" => conf'[k].status # "none"
  BY NothingVanishes
<1>1. ASSUME NEW k \in ConflictId, conf'[k].status # "none" PROVE rec'[k[2]].version > 0
  <2>0. CASE conf[k].status # "none"
    BY <2>0, <1>i, <1>v DEF ConflictsExist
  <2> SUFFICES ASSUME conf[k].status = "none" PROVE rec'[k[2]].version > 0
    BY <2>0
  <2>1. CASE \/ \E c \in Client : Pull(c) \/ Lock(c) \/ ReadOpen(c) \/ LoadConflicts(c) \/ Rolls(c)
             \/ \E q \in Resolver : Look(q) \/ RLock(q) \/ RUpdate(q) \/ RRolls(q)
             \/ CopyConflict \/ UNCHANGED vars
    <3>1. conf' = conf
      BY <2>1 DEF Pull, Lock, ReadOpen, LoadConflicts, Rolls, Rollback, Look, RLock, RUpdate,
                  RRolls, RRollback, CopyConflict, vars
    <3> QED BY <3>1, <1>1
  <2>2. ASSUME NEW c \in Client, Commit(c) PROVE rec'[k[2]].version > 0
    <3>1. k[2] \in Conflicted(c)
      BY <2>2, <1>1, <1>i, CommitEffect
    <3>2. rec[k[2]].version > 0
      BY <3>1, <2>2, <1>i DEF Conflicted, PushHolds, InPush, Commit
    <3> QED BY <3>2, <1>v
  <2>3. ASSUME NEW q \in Resolver, RCommit(q) PROVE rec'[k[2]].version > 0
    <3>1. k # rs[q].conflict
      BY <2>3, <1>i DEF RCommit, ConflictsExist
    <3> QED BY <3>1, <2>3, <1>1, <1>i, RCommitEffect
  <2>4. CASE PushConflict
    BY <2>4, <1>1, <1>i, PushConflictEffect
  <2> QED BY <2>1, <2>2, <2>3, <2>4, Steps
<1>2. ASSUME NEW q \in Resolver
      PROVE  /\ rs'[q].pc \notin {"look", "done"} \/ rs'[q].reply = "resolved"
                    => rs'[q].conflict \in ConflictId /\ conf'[rs'[q].conflict].status # "none"
             /\ rs'[q].reply # "none" => rs'[q].pc = "done"
  <2>0. /\ rs[q].pc \notin {"look", "done"} \/ rs[q].reply = "resolved"
                => rs[q].conflict \in ConflictId /\ conf[rs[q].conflict].status # "none"
        /\ rs[q].reply # "none" => rs[q].pc = "done"
    BY <1>i DEF ConflictsExist
  <2>1. CASE rs'[q] = rs[q]
    BY <2>0, <2>1, <1>v
  <2>2. ASSUME Look(q) PROVE /\ rs'[q].conflict \in ConflictId
                             /\ conf'[rs'[q].conflict].status # "none"
                             /\ rs'[q].reply # "none" => rs'[q].pc = "done"
    BY <2>0, <2>2, <1>i, LookEffect DEF Look
  <2>3. ASSUME RLock(q) PROVE /\ rs'[q].conflict \in ConflictId
                              /\ conf'[rs'[q].conflict].status # "none"
                              /\ rs'[q].reply # "none" => rs'[q].pc = "done"
    BY <2>0, <2>3, <1>i, <1>v, RLockEffect DEF RLock
  <2>4. ASSUME RUpdate(q) PROVE /\ rs'[q].conflict \in ConflictId
                                /\ conf'[rs'[q].conflict].status # "none"
                                /\ rs'[q].reply # "none" => rs'[q].pc = "done"
    BY <2>0, <2>4, <1>i, <1>v, RUpdateEffect DEF RUpdate
  <2>5. ASSUME RCommit(q) PROVE /\ rs'[q].conflict \in ConflictId
                                /\ conf'[rs'[q].conflict].status # "none"
                                /\ rs'[q].reply # "none" => rs'[q].pc = "done"
    BY <2>0, <2>5, <1>i, <1>v, RCommitEffect DEF RCommit
  <2>6. ASSUME RRolls(q) PROVE /\ rs'[q].conflict \in ConflictId
                               /\ conf'[rs'[q].conflict].status # "none"
                               /\ rs'[q].reply # "none" => rs'[q].pc = "done"
    BY <2>0, <2>6, <1>i, <1>v, RRollbackEffect DEF RRolls
  <2>7. rs'[q] = rs[q] \/ Look(q) \/ RLock(q) \/ RUpdate(q) \/ RCommit(q) \/ RRolls(q)
    <3>1. CASE \E c \in Client : Pull(c) \/ Lock(c) \/ ReadOpen(c) \/ LoadConflicts(c)
                                    \/ Commit(c) \/ Rolls(c)
      BY <3>1 DEF Pull, Lock, ReadOpen, LoadConflicts, Commit, Rolls, Rollback
    <3>2. CASE \E p \in Resolver : Look(p) \/ RLock(p) \/ RUpdate(p)
                                    \/ RCommit(p) \/ RRolls(p)
      <4>1. PICK p \in Resolver : Look(p) \/ RLock(p) \/ RUpdate(p)
                                    \/ RCommit(p) \/ RRolls(p)
        BY <3>2
      <4>2. OtherRequests(p)
        BY <4>1, <1>i, LookEffect, RLockEffect, RUpdateEffect, RCommitEffect,
           RRollbackEffect DEF RRolls
      <4> QED BY <4>1, <4>2 DEF OtherRequests
    <3>3. CASE CopyConflict \/ PushConflict \/ UNCHANGED vars
      BY <3>3 DEF CopyConflict, PushConflict, vars
    <3> QED BY <3>1, <3>2, <3>3, Steps
  <2> QED BY <2>1, <2>2, <2>3, <2>4, <2>5, <2>6, <2>7
<1>3. ASSUME copy'.pc = "held"
      PROVE  /\ copy'.conflict \in ConflictId /\ conf'[copy'.conflict].status # "none"
             /\ copy'.row.status # "none"
  <2>1. CASE copy' = copy
    BY <2>1, <1>3, <1>i, <1>v DEF ConflictsExist
  <2>2. CASE CopyConflict
    BY <2>2 DEF CopyConflict
  <2>3. CASE PushConflict
    BY <2>3, <1>3, <1>i, PushConflictEffect
  <2>4. copy' = copy \/ CopyConflict \/ PushConflict
    <3>1. CASE \E c \in Client : Pull(c) \/ Lock(c) \/ ReadOpen(c) \/ LoadConflicts(c)
                                    \/ Commit(c) \/ Rolls(c)
      BY <3>1 DEF Pull, Lock, ReadOpen, LoadConflicts, Commit, Rolls, Rollback
    <3>2. CASE \E p \in Resolver : Look(p) \/ RLock(p) \/ RUpdate(p)
                                    \/ RCommit(p) \/ RRolls(p)
      BY <3>2 DEF Look, RLock, RUpdate, RCommit, RRolls, RRollback
    <3> QED BY <3>1, <3>2, Steps DEF vars
  <2> QED BY <2>1, <2>2, <2>3, <2>4
<1> QED BY <1>1, <1>2, <1>3 DEF ConflictsExist

LEMMA OpenIsOwnNext ==
    ASSUME PushInv, [Next]_vars
    PROVE  OpenIsOwn'
<1>i. TypeInv /\ OpenIsOwn
  BY DEF PushInv, ConflictInv
<1> SUFFICES ASSUME NEW c \in Client, NEW r \in Record, cl'[c].open[r] # Nil
             PROVE  cl'[c].open[r] \in ConflictId /\ cl'[c].open[r][2] = r
  BY DEF OpenIsOwn
<1>0. CASE cl'[c].open = cl[c].open
  BY <1>0, <1>i DEF OpenIsOwn
<1>1. CASE ReadOpen(c)
  BY <1>1, <1>i, ReadOpenEffect DEF OpenConflicts
<1>2. cl'[c].open = cl[c].open \/ ReadOpen(c)
  <2>1. CASE \E e \in Client : Pull(e) \/ Lock(e) \/ ReadOpen(e) \/ LoadConflicts(e)
                                  \/ Commit(e) \/ Rolls(e)
    <3>1. PICK e \in Client : Pull(e) \/ Lock(e) \/ ReadOpen(e) \/ LoadConflicts(e)
                                  \/ Commit(e) \/ Rolls(e)
      BY <2>1
    <3>2. Others(e) /\ (cl'[e].open = cl[e].open \/ ReadOpen(e))
      BY <3>1, <1>i, PullEffect, LockEffect, LoadEffect, ReadOpenEffect, CommitEffect, RollbackEffect
         DEF Rolls
    <3> QED BY <3>2 DEF Others
  <2>2. CASE \E p \in Resolver : Look(p) \/ RLock(p) \/ RUpdate(p)
                                  \/ RCommit(p) \/ RRolls(p)
    BY <2>2 DEF Look, RLock, RUpdate, RCommit, RRolls, RRollback
  <2>3. CASE CopyConflict \/ PushConflict \/ UNCHANGED vars
    BY <2>3 DEF CopyConflict, PushConflict, vars
  <2> QED BY <2>1, <2>2, <2>3, Steps
<1> QED BY <1>0, <1>1, <1>2

\* The rows that a commit files are rows of its conflicting records.
LEMMA RowIsOwn ==
    ASSUME OpenIsOwn, TypeInv, NEW c \in Client, NEW r \in Record
    PROVE  Row(c, r) \in ConflictId /\ Row(c, r)[2] = r
BY RowTyped DEF OpenIsOwn, Row

\* A step opens a conflict only as a push that meets it, or as the push of a copy.
LEMMA OpenedBy ==
    ASSUME PushInv, [Next]_vars, NEW k \in ConflictId, conf'[k].status = "open"
    PROVE  \/ conf[k].status = "open"
           \/ \E c \in Client : Commit(c) /\ k[2] \in Conflicted(c) /\ k = Row(c, k[2])
                                /\ Filed(c, k[2]).status = "open"
           \/ PushConflict /\ copy'.pc = "saved" /\ OpenConflicts(k[2]) \subseteq {k}
                           /\ \A j \in ConflictId \ {k} : conf'[j] = conf[j]
<1>i. TypeInv /\ ConflictsExist
  BY DEF PushInv, ConflictInv
<1>1. CASE \/ \E c \in Client : Pull(c) \/ Lock(c) \/ ReadOpen(c) \/ LoadConflicts(c) \/ Rolls(c)
           \/ \E q \in Resolver : Look(q) \/ RLock(q) \/ RUpdate(q) \/ RRolls(q)
           \/ CopyConflict \/ UNCHANGED vars
  <2>1. conf' = conf
    BY <1>1 DEF Pull, Lock, ReadOpen, LoadConflicts, Rolls, Rollback, Look, RLock, RUpdate,
                RRolls, RRollback, CopyConflict, vars
  <2> QED BY <2>1
<1>2. CASE \E c \in Client : Commit(c)
  BY <1>2, <1>i, CommitEffect
<1>3. ASSUME NEW q \in Resolver, RCommit(q) PROVE conf[k].status = "open"
  <2>1. conf[rs[q].conflict] \in ConflictType
    BY <1>3, <1>i, RCommitEffect DEF TypeInv, TypeOK
  <2>2. k # rs[q].conflict
    BY <2>1, <1>3, <1>i, RCommitEffect DEF ConflictType
  <2> QED BY <2>2, <1>3, <1>i, RCommitEffect
<1>4. CASE PushConflict
  BY <1>4, <1>i, PushConflictEffect
<1> QED BY <1>1, <1>2, <1>3, <1>4, Steps

LEMMA OneOpenNext ==
    ASSUME PushInv, [Next]_vars
    PROVE  OneOpen'
<1>i. TypeInv /\ OpenIsOwn /\ OneOpen
  BY DEF PushInv, ConflictInv
<1> SUFFICES ASSUME NEW k \in ConflictId, NEW j \in ConflictId, conf'[k].status = "open",
                    conf'[j].status = "open", k[2] = j[2], k # j
             PROVE  FALSE
  BY DEF OneOpen
<1>1. ASSUME NEW a \in ConflictId, NEW b \in ConflictId, a # b, a[2] = b[2],
             conf'[a].status = "open", conf'[b].status = "open", conf[a].status # "open"
      PROVE  FALSE
  <2>1. CASE PushConflict
    <3>1. OpenConflicts(a[2]) \subseteq {a} /\ conf'[b] = conf[b]
      <4>1. ~ \E c \in Client : Commit(c)
        <5>1. cl' = cl
          BY <2>1 DEF PushConflict
        <5>2. \A c \in Client : Commit(c) => cl[c].pc = "save" /\ cl'[c].pc = "done"
          BY <1>i, CommitEffect DEF Commit
        <5> QED BY <5>1, <5>2
      <4> QED BY <4>1, <2>1, <1>1, OpenedBy
    <3> QED BY <3>1, <1>1 DEF OpenConflicts
  <2>2. ASSUME NEW c \in Client, Commit(c), a[2] \in Conflicted(c), a = Row(c, a[2]),
               Filed(c, a[2]).status = "open"
        PROVE  FALSE
    <3>1. OpenConflicts(a[2]) \ {a} = {}
      BY <2>2 DEF Commit, Clash
    <3>2. conf[b].status # "open"
      BY <3>1, <1>1 DEF OpenConflicts
    <3>3. b # Row(c, b[2])
      BY <2>2, <1>1
    <3> QED BY <3>2, <3>3, <2>2, <1>1, <1>i, CommitEffect
  <2> QED BY <2>1, <2>2, <1>1, OpenedBy
<1> QED BY <1>1, <1>i DEF OneOpen

LEMMA OpenIsFoundNext ==
    ASSUME PushInv, [Next]_vars
    PROVE  OpenIsFound'
<1>i. TypeInv /\ ConflictsExist /\ OpenIsOwn /\ OneOpen /\ OpenIsFound /\ PushHolds
  BY DEF PushInv, ConflictInv, LockInv
<1> SUFFICES ASSUME copy'.pc # "saved", NEW c \in Client, cl'[c].pc \in {"load", "save"},
                    NEW r \in Conflicted(c)', NEW k \in ConflictId, k[2] = r,
                    conf'[k].status = "open"
             PROVE  k = Row(c, r)'
  BY DEF OpenIsFound, OpenConflicts
<1>r. r \in RecordsOf[c] /\ r \in Record
  BY RecordsAreRecords DEF Conflicted
<1>c. copy.pc # "saved"
  <2>1. CASE copy' = copy
    BY <2>1
  <2>2. CASE CopyConflict \/ PushConflict
    BY <2>2 DEF CopyConflict, PushConflict
  <2>3. copy' = copy \/ CopyConflict \/ PushConflict
    <3>1. CASE \E e \in Client : Pull(e) \/ Lock(e) \/ ReadOpen(e) \/ LoadConflicts(e)
                                    \/ Commit(e) \/ Rolls(e)
      BY <3>1 DEF Pull, Lock, ReadOpen, LoadConflicts, Commit, Rolls, Rollback
    <3>2. CASE \E p \in Resolver : Look(p) \/ RLock(p) \/ RUpdate(p)
                                    \/ RCommit(p) \/ RRolls(p)
      BY <3>2 DEF Look, RLock, RUpdate, RCommit, RRolls, RRollback
    <3> QED BY <3>1, <3>2, Steps DEF vars
  <2> QED BY <2>1, <2>2, <2>3
\* The push was at one of these statements before, or has just read the open conflicts.
<1>1. \/ cl[c].pc \in {"load", "save"} /\ cl'[c].open = cl[c].open
            /\ cl'[c].seen = cl[c].seen /\ cl'[c].existing = cl[c].existing
      \/ ReadOpen(c)
  <2>1. CASE \E e \in Client : Pull(e) \/ Lock(e) \/ ReadOpen(e) \/ LoadConflicts(e)
                                  \/ Commit(e) \/ Rolls(e)
    <3>1. PICK e \in Client : Pull(e) \/ Lock(e) \/ ReadOpen(e) \/ LoadConflicts(e)
                                  \/ Commit(e) \/ Rolls(e)
      BY <2>1
    <3>2. CASE e = c
      BY <3>1, <3>2, <1>i, PullEffect, LockEffect, LoadEffect, ReadOpenEffect, CommitEffect,
         RollbackEffect DEF Rolls, LoadConflicts
    <3>3. Others(e)
      BY <3>1, <1>i, PullEffect, LockEffect, LoadEffect, ReadOpenEffect, CommitEffect, RollbackEffect
         DEF Rolls
    <3> QED BY <3>2, <3>3 DEF Others
  <2>2. CASE \E p \in Resolver : Look(p) \/ RLock(p) \/ RUpdate(p)
                                  \/ RCommit(p) \/ RRolls(p)
    BY <2>2 DEF Look, RLock, RUpdate, RCommit, RRolls, RRollback
  <2>3. CASE CopyConflict \/ PushConflict \/ UNCHANGED vars
    BY <2>3 DEF CopyConflict, PushConflict, vars
  <2> QED BY <2>1, <2>2, <2>3, Steps
<1>2. CASE ReadOpen(c)
  <2>1. conf' = conf
    BY <1>2 DEF ReadOpen
  <2>2. k \in OpenConflicts(r)
    BY <2>1 DEF OpenConflicts
  <2>3. cl'[c].open[r] \in OpenConflicts(r) /\ cl'[c].open[r] # Nil
    BY <2>2, <1>2, <1>i, <1>r, ReadOpenEffect, NilIsNone DEF OpenConflicts
  <2>4. cl'[c].open[r] = k
    BY <2>2, <2>3, <1>i DEF OneOpen, OpenConflicts
  <2> QED BY <2>3, <2>4 DEF Row
<1>3. CASE /\ cl[c].pc \in {"load", "save"} /\ cl'[c].open = cl[c].open
           /\ cl'[c].seen = cl[c].seen /\ cl'[c].existing = cl[c].existing
  <2>1. r \in Conflicted(c) /\ Row(c, r)' = Row(c, r)
    BY <1>3 DEF Conflicted, Row
  <2>2. CASE conf[k].status = "open"
    BY <2>1, <2>2, <1>3, <1>c, <1>i DEF OpenIsFound, OpenConflicts
  <2>3. ASSUME NEW e \in Client, Commit(e), r \in Conflicted(e) PROVE FALSE
    <3>1. recLock[r] = c /\ recLock[r] = e
      BY <2>1, <2>3, <1>3, <1>i DEF PushHolds, InPush, Conflicted, Commit
    <3> QED BY <3>1, <2>3, <1>3, <1>i, CommitEffect
  <2> QED BY <2>1, <2>2, <2>3, OpenedBy
<1> QED BY <1>1, <1>2, <1>3

-----------------------------------------------------------------------------
(* Versions *)

\* A step changes the state of a client as one of its statements does, or not at all.
LEMMA ClientStep ==
    ASSUME PushInv, [Next]_vars, NEW c \in Client
    PROVE  cl'[c] = cl[c] \/ Pull(c) \/ Lock(c) \/ ReadOpen(c) \/ LoadConflicts(c)
              \/ Commit(c) \/ Rolls(c)
<1>i. TypeInv
  BY DEF PushInv
<1>1. CASE \E e \in Client : Pull(e) \/ Lock(e) \/ ReadOpen(e) \/ LoadConflicts(e)
                                \/ Commit(e) \/ Rolls(e)
  <2>1. PICK e \in Client : Pull(e) \/ Lock(e) \/ ReadOpen(e) \/ LoadConflicts(e)
                                \/ Commit(e) \/ Rolls(e)
    BY <1>1
  <2>2. Others(e)
    BY <2>1, <1>i, PullEffect, LockEffect, LoadEffect, ReadOpenEffect, CommitEffect, RollbackEffect
       DEF Rolls
  <2> QED BY <2>1, <2>2 DEF Others
<1>2. CASE \E p \in Resolver : Look(p) \/ RLock(p) \/ RUpdate(p)
                                \/ RCommit(p) \/ RRolls(p)
  BY <1>2 DEF Look, RLock, RUpdate, RCommit, RRolls, RRollback
<1>3. CASE CopyConflict \/ PushConflict \/ UNCHANGED vars
  BY <1>3 DEF CopyConflict, PushConflict, vars
<1> QED BY <1>1, <1>2, <1>3, Steps

\* A step changes a record as the commit of a push or of a resolution with data does.
LEMMA RecordStep ==
    ASSUME PushInv, [Next]_vars, NEW r \in Record
    PROVE  \/ rec'[r] = rec[r] /\ log'[r] = log[r]
           \/ \E c \in Client : Commit(c) /\ r \in RecordsOf[c]
           \/ \E q \in Writes : RCommit(q) /\ r = rs[q].conflict[2]
<1>i. TypeInv /\ ConflictsExist
  BY DEF PushInv, ConflictInv
<1>1. CASE \E c \in Client : Pull(c) \/ Lock(c) \/ ReadOpen(c) \/ LoadConflicts(c)
                                \/ Commit(c) \/ Rolls(c)
  BY <1>1, <1>i, CommitEffect DEF Pull, Lock, ReadOpen, LoadConflicts, Rolls, Rollback, Accepted
<1>2. CASE \E q \in Resolver : Look(q) \/ RLock(q) \/ RUpdate(q)
                                \/ RCommit(q) \/ RRolls(q)
  <2>1. ASSUME NEW q \in Resolver, RCommit(q)
        PROVE  (rec'[r] = rec[r] /\ log'[r] = log[r]) \/ (q \in Writes /\ r = rs[q].conflict[2])
    BY <2>1, <1>i, RCommitEffect
  <2>2. CASE \E q \in Resolver : Look(q) \/ RLock(q) \/ RUpdate(q) \/ RRolls(q)
    BY <2>2 DEF Look, RLock, RUpdate, RRolls, RRollback
  <2> QED BY <2>1, <2>2, <1>2
<1>3. CASE CopyConflict \/ PushConflict \/ UNCHANGED vars
  BY <1>3 DEF CopyConflict, PushConflict, vars
<1> QED BY <1>1, <1>2, <1>3, Steps

LEMMA CopiesTyped ==
    ASSUME TypeInv, NEW c \in Client, NEW r \in RecordsOf[c]
    PROVE  /\ r \in Record /\ rec[r] \in RowType /\ rec[r].version \in Nat
           /\ cl[c].seen[r] \in RowType /\ cl[c].seen[r].version \in Nat
           /\ cl[c].existing[r] \in RowType /\ cl[c].existing[r].version \in Nat
BY RecordsAreRecords, ClientTyped DEF TypeInv, TypeOK, Rows, RowType

\* A push that accepts a record finds it as it is, or makes it: its version grows by one.
LEMMA AcceptedIsNext ==
    ASSUME PushInv, NEW c \in Client, Commit(c), NEW r \in Accepted(c)
    PROVE  /\ r \in RecordsOf[c] /\ cl[c].existing[r].version = rec[r].version
           /\ cl[c].seen[r].version = rec[r].version
           /\ rec[r].version > 0 => cl[c].existing[r] = rec[r]
           /\ rec'[r].version = rec[r].version + 1
<1>i. TypeInv /\ PushHolds /\ NewIsOwn
  BY DEF PushInv, LockInv, VersionInv
<1>1. r \in RecordsOf[c] /\ InPush(c)
  BY DEF Accepted, Commit, InPush
<1>t. r \in Record /\ rec[r].version \in Nat /\ cl[c].seen[r].version \in Nat
        /\ cl[c].existing[r].version \in Nat
  BY <1>1, <1>i, CopiesTyped
<1>2. ASSUME cl[c].existing[r].version > 0
      PROVE  cl[c].existing[r] = rec[r] /\ cl[c].seen[r].version = rec[r].version
  <2>1. cl[c].existing[r] = rec[r]
    BY <1>1, <1>2, <1>i DEF PushHolds
  <2>2. cl[c].existing[r].version = cl[c].seen[r].version
    BY <1>1, <1>2 DEF Accepted, Conflicted
  <2> QED BY <2>1, <2>2
<1>3. ASSUME cl[c].existing[r].version = 0
      PROVE  rec[r].version = 0 /\ cl[c].seen[r].version = 0
  <2>1. cl[c].pc = "save"
    BY DEF Commit
  <2> QED BY <2>1, <1>1, <1>3, <1>i DEF NewIsOwn
<1>4. rec'[r].version = cl[c].existing[r].version + 1
  <2>1. rec'[r] = [version |-> cl[c].existing[r].version + 1, content |-> c,
                   deleted |-> c \in Deletes]
    BY <1>t, <1>i, CommitEffect
  <2> QED BY <2>1
<1> QED BY <1>1, <1>2, <1>3, <1>4, <1>t

LEMMA NewIsOwnNext ==
    ASSUME PushInv, [Next]_vars
    PROVE  NewIsOwn'
<1>i. TypeInv /\ TypeInv' /\ NewIsOwn /\ ConflictsExist
  BY TypeNext DEF PushInv, VersionInv, ConflictInv
<1> SUFFICES ASSUME NEW c \in Client, NEW r \in RecordsOf[c]
             PROVE  /\ cl'[c].seen[r].version > 0 => rec'[r].version > 0
                    /\ cl'[c].pc # "pull" /\ cl'[c].seen[r].version = 0
                            => r \notin Stored /\ Author[r] = c
                    /\ cl'[c].pc \notin {"pull", "done"} /\ cl'[c].seen[r].version = 0
                            => rec'[r].version = 0
                    /\ InPush(c)' /\ cl'[c].existing[r].version = 0
                            => cl'[c].seen[r].version = 0
  BY DEF NewIsOwn
<1>t. r \in Record /\ rec[r].version \in Nat /\ cl[c].seen[r].version \in Nat
        /\ cl[c].existing[r].version \in Nat
  BY <1>i, CopiesTyped
<1>h. /\ cl[c].seen[r].version > 0 => rec[r].version > 0
      /\ cl[c].pc # "pull" /\ cl[c].seen[r].version = 0 => r \notin Stored /\ Author[r] = c
      /\ cl[c].pc \notin {"pull", "done"} /\ cl[c].seen[r].version = 0 => rec[r].version = 0
      /\ InPush(c) /\ cl[c].existing[r].version = 0 => cl[c].seen[r].version = 0
  BY <1>i DEF NewIsOwn
<1>v. rec[r].version > 0 => rec'[r].version > 0
  BY <1>t, NothingVanishes
\* A record that c has made and not stored yet is stored by no other.
<1>n. cl[c].pc \notin {"pull", "done"} /\ cl[c].seen[r].version = 0 /\ ~Commit(c)
        => rec'[r].version = 0
  <2> SUFFICES ASSUME cl[c].pc \notin {"pull", "done"}, cl[c].seen[r].version = 0, ~Commit(c)
               PROVE  rec'[r].version = 0
    OBVIOUS
  <2>1. rec[r].version = 0 /\ Author[r] = c
    BY <1>h
  <2>2. ASSUME NEW e \in Client, Commit(e), r \in RecordsOf[e] PROVE rec'[r] = rec[r]
    <3>1. CASE r \in Accepted(e)
      <4>1. cl[e].seen[r].version = 0 /\ cl[e].pc = "save"
        BY <3>1, <2>1, <2>2, AcceptedIsNext DEF Commit
      <4>2. Author[r] = e
        BY <4>1, <2>2, <1>i DEF NewIsOwn
      <4> QED BY <4>2, <2>1, <2>2
    <3>2. CASE r \notin Accepted(e)
      BY <3>2, <2>2, <1>i, <1>t, CommitEffect
    <3> QED BY <3>1, <3>2
  <2>3. ASSUME NEW q \in Writes, RCommit(q), r = rs[q].conflict[2] PROVE FALSE
    <3>1. q \in Resolver /\ rec[rs[q].conflict[2]].version > 0
      BY <2>3, <1>i, ResolverAssumption DEF RCommit, ConflictsExist
    <3> QED BY <3>1, <2>1, <2>3
  <2> QED BY <2>1, <2>2, <2>3, <1>t, RecordStep
<1>0. CASE cl'[c] = cl[c]
  <2>1. ~Commit(c)
    BY <1>0, <1>i, CommitEffect DEF Commit
  <2> QED BY <2>1, <1>0, <1>h, <1>v, <1>n DEF InPush
<1>1. CASE Pull(c)
  <2>1. cl'[c].seen[r] = rec[r] /\ cl'[c].pc = "lock" /\ rec' = rec
    BY <1>1, <1>i, PullEffect DEF Pull
  <2>2. rec[r].version = 0 => Author[r] = c
    BY <1>1 DEF Pull
  <2>3. rec[r].version = 0 => r \notin Stored
    BY DEF PushInv, VersionInv, StoredExists
  <2> QED BY <2>1, <2>2, <2>3 DEF InPush
<1>2. CASE Lock(c)
  <2>1. cl'[c].seen = cl[c].seen /\ rec' = rec /\ cl[c].pc = "lock"
    BY <1>2, <1>i, LockEffect DEF Lock
  <2>2. IF rec[r].version > 0 THEN cl'[c].existing[r] = rec[r] ELSE cl'[c].existing[r].version = 0
    BY <1>2, <1>i, LockEffect
  <2> QED BY <2>1, <2>2, <1>h, <1>t
<1>3. CASE ReadOpen(c) \/ LoadConflicts(c)
  <2>1. /\ cl'[c].seen = cl[c].seen /\ cl'[c].existing = cl[c].existing /\ rec' = rec
        /\ InPush(c)
    BY <1>3, <1>i, ReadOpenEffect, LoadEffect DEF ReadOpen, LoadConflicts, InPush
  <2> QED BY <2>1, <1>h DEF InPush
<1>4. CASE Commit(c)
  <2>1. cl'[c].seen = cl[c].seen /\ cl'[c].pc = "done" /\ cl[c].pc = "save"
    BY <1>4, <1>i, CommitEffect DEF Commit
  <2> QED BY <2>1, <1>h, <1>v DEF InPush
<1>5. CASE Rolls(c)
  <2>1. /\ cl'[c].seen = cl[c].seen /\ rec' = rec /\ cl'[c].pc \in {"lock", "dead"}
        /\ cl[c].pc \in {"lock", "open", "load", "save"}
    BY <1>5, <1>i, RollbackEffect DEF Rolls, Rollback
  <2> QED BY <2>1, <1>h DEF InPush
<1> QED BY <1>0, <1>1, <1>2, <1>3, <1>4, <1>5, ClientStep

LEMMA StoredExistsNext ==
    ASSUME PushInv, [Next]_vars
    PROVE  StoredExists'
BY NothingVanishes, RecordAssumption DEF StoredExists, PushInv, VersionInv

\* A record in which a resolution has stored data stays one.
LEMMA RewrittenStays ==
    ASSUME PushInv, [Next]_vars, NEW r \in Record
    PROVE  /\ Rewritten(r) => Rewritten(r)'
           /\ \A q \in Writes : RCommit(q) /\ r = rs[q].conflict[2] => Rewritten(r)'
<1>i. TypeInv /\ ConflictsExist
  BY DEF PushInv, ConflictInv
<1>1. ASSUME NEW q \in Resolver, rs[q].reply = "resolved" PROVE rs'[q] = rs[q]
  <2>1. rs[q].pc = "done"
    BY <1>1, <1>i DEF ConflictsExist
  <2>2. CASE \E c \in Client : Pull(c) \/ Lock(c) \/ ReadOpen(c) \/ LoadConflicts(c)
                                  \/ Commit(c) \/ Rolls(c)
    BY <2>2 DEF Pull, Lock, ReadOpen, LoadConflicts, Commit, Rolls, Rollback
  <2>3. CASE \E p \in Resolver : Look(p) \/ RLock(p) \/ RUpdate(p)
                                  \/ RCommit(p) \/ RRolls(p)
    <3>1. PICK p \in Resolver : Look(p) \/ RLock(p) \/ RUpdate(p)
                                  \/ RCommit(p) \/ RRolls(p)
      BY <2>3
    <3>2. OtherRequests(p)
      BY <3>1, <1>i, LookEffect, RLockEffect, RUpdateEffect, RCommitEffect,
         RRollbackEffect DEF RRolls
    <3>3. p # q
      BY <3>1, <2>1 DEF Look, RLock, RUpdate, RCommit, RRolls
    <3> QED BY <3>2, <3>3 DEF OtherRequests
  <2>4. CASE CopyConflict \/ PushConflict \/ UNCHANGED vars
    BY <2>4 DEF CopyConflict, PushConflict, vars
  <2> QED BY <2>2, <2>3, <2>4, Steps
<1>2. Rewritten(r) => Rewritten(r)'
  BY <1>1, ResolverAssumption DEF Rewritten
<1>3. ASSUME NEW q \in Writes, RCommit(q), r = rs[q].conflict[2] PROVE Rewritten(r)'
  <2>1. rs'[q].reply = "resolved" /\ rs'[q].conflict = rs[q].conflict
    BY <1>3, <1>i, RCommitEffect, ResolverAssumption
  <2> QED BY <2>1, <1>3 DEF Rewritten
<1> QED BY <1>2, <1>3

LEMMA SeenIsPastNext ==
    ASSUME PushInv, [Next]_vars
    PROVE  SeenIsPast'
<1>i. TypeInv /\ TypeInv' /\ SeenIsPast
  BY TypeNext DEF PushInv, VersionInv, ConflictInv
<1> SUFFICES ASSUME NEW c \in Client, NEW r \in RecordsOf[c], cl'[c].pc # "pull", ~Rewritten(r)'
             PROVE  /\ cl'[c].seen[r].version <= rec'[r].version
                    /\ cl'[c].seen[r].version = rec'[r].version
                            => cl'[c].seen[r].content = rec'[r].content
  BY DEF SeenIsPast
<1>t. /\ r \in Record /\ rec[r].version \in Nat /\ cl[c].seen[r].version \in Nat
      /\ rec'[r].version \in Nat
  <2>1. r \in Record
    BY RecordsAreRecords
  <2> QED BY <2>1, <1>i, CopiesTyped DEF TypeInv, TypeOK, Rows, RowType
<1>w. ~Rewritten(r)
  BY <1>t, RewrittenStays
<1>1. rec'[r] = rec[r] \/ rec'[r].version > rec[r].version
  <2>1. ASSUME NEW e \in Client, Commit(e)
        PROVE  rec'[r] = rec[r] \/ rec'[r].version > rec[r].version
    <3>1. CASE r \in Accepted(e)
      BY <3>1, <2>1, <1>t, AcceptedIsNext
    <3>2. CASE r \notin Accepted(e)
      BY <3>2, <2>1, <1>i, <1>t, CommitEffect
    <3> QED BY <3>1, <3>2
  <2>2. ~ \E q \in Writes : RCommit(q) /\ r = rs[q].conflict[2]
    BY <1>t, RewrittenStays
  <2> QED BY <2>1, <2>2, <1>t, RecordStep
<1>2. CASE Pull(c)
  <2>1. cl'[c].seen[r] = rec[r] /\ rec' = rec
    BY <1>2, <1>i, PullEffect DEF Pull
  <2> QED BY <2>1, <1>t
<1>3. CASE cl'[c].seen = cl[c].seen /\ cl[c].pc # "pull"
  <2>1. /\ cl[c].seen[r].version <= rec[r].version
        /\ cl[c].seen[r].version = rec[r].version => cl[c].seen[r].content = rec[r].content
    BY <1>3, <1>w, <1>i DEF SeenIsPast
  <2> QED BY <2>1, <1>1, <1>3, <1>t
<1>4. Pull(c) \/ (cl'[c].seen = cl[c].seen /\ cl[c].pc # "pull")
  <2>1. CASE cl'[c] = cl[c]
    BY <2>1
  <2>2. CASE Lock(c) \/ ReadOpen(c) \/ LoadConflicts(c) \/ Commit(c) \/ Rolls(c)
    <3>1. cl'[c].seen = cl[c].seen
      BY <2>2, <1>i, LockEffect, ReadOpenEffect, LoadEffect, CommitEffect, RollbackEffect DEF Rolls
    <3>2. cl[c].pc # "pull"
      BY <2>2 DEF Lock, ReadOpen, LoadConflicts, Commit, Rolls
    <3> QED BY <3>1, <3>2
  <2> QED BY <2>1, <2>2, ClientStep
<1> QED BY <1>2, <1>3, <1>4

-----------------------------------------------------------------------------
(* The change log *)

Chained(r) ==
    \A i \in DOMAIN log[r] :
        /\ \A j \in i + 1 .. Len(log[r]) :
              LastWrite(r, i, j) /\ log[r][j].after \in Client
                  => log[r][j].before = log[r][i].after
        /\ LastWrite(r, i, Len(log[r]) + 1) => rec[r].content = log[r][i].after

\* An entry that continues a chain makes a chain: one of a push tells what the record
\* held, a write says what it holds now, another entry leaves it as it was.
LEMMA ChainGrows ==
    ASSUME TypeInv, NEW r \in Record, Chained(r), NEW e \in EntryType,
           log'[r] = Append(log[r], e),
           e.after \in Client /\ log[r] # << >> => e.before = rec[r].content,
           IF e.op = "CONFLICT" THEN rec'[r] = rec[r] ELSE rec'[r].content = e.after
    PROVE  Chained(r)'
<1> DEFINE s == log[r]
           n == Len(s)
           t == log'[r]
           last(i, j) == t[i].op # "CONFLICT" /\ \A k \in i + 1 .. j - 1 : t[k].op = "CONFLICT"
<1>1. s \in Seq(EntryType) /\ n \in Nat
  BY DEF TypeInv, TypeOK
<1>2. /\ DOMAIN s = 1 .. n /\ Len(t) = n + 1 /\ DOMAIN t = 1 .. n + 1
      /\ t[n + 1] = e /\ \A i \in 1 .. n : t[i] = s[i]
  BY <1>1, AppendProperties
<1>g. SUFFICES ASSUME NEW i \in 1 .. n + 1
             PROVE  /\ \A j \in i + 1 .. n + 1 :
                         last(i, j) /\ t[j].after \in Client => t[j].before = t[i].after
                    /\ last(i, n + 2) => rec'[r].content = t[i].after
  <2>1. Len(t) + 1 = n + 2
    BY <1>1, <1>2
  <2>2. Chained(r)' <=> \A i \in DOMAIN t :
          /\ \A j \in i + 1 .. Len(t) :
               last(i, j) /\ t[j].after \in Client => t[j].before = t[i].after
          /\ last(i, Len(t) + 1) => rec'[r].content = t[i].after
    BY DEF Chained, LastWrite, Wrote
  <2> HIDE DEF last, t
  <2> QED BY <2>1, <2>2, <1>2
<1>3. ASSUME NEW j \in i + 1 .. n + 1, i \in 1 .. n, last(i, j) PROVE LastWrite(r, i, j)
  <2>1. j - 1 \in 0 .. n /\ \A k \in i + 1 .. j - 1 : k \in 1 .. n
    BY <1>1, <1>3
  <2> QED BY <2>1, <1>2, <1>3 DEF LastWrite, Wrote
<1>4. ASSUME NEW j \in i + 1 .. n + 1, last(i, j), t[j].after \in Client
      PROVE  t[j].before = t[i].after
  <2>1. i \in 1 .. n
    BY <1>1, <1>4
  <2>2. LastWrite(r, i, j)
    BY <2>1, <1>3, <1>4
  <2>3. CASE j \in 1 .. n
    <3>1. s[j].before = s[i].after
      BY <2>1, <2>2, <2>3, <1>2, <1>4 DEF Chained
    <3> QED BY <3>1, <2>1, <2>3, <1>2
  <2>4. CASE j = n + 1
    <3>1. rec[r].content = s[i].after
      BY <2>1, <2>2, <2>4, <1>2 DEF Chained
    <3>2. s # << >>
      BY <2>1, <1>1, <1>2
    <3> QED BY <3>1, <3>2, <2>1, <2>4, <1>2, <1>4
  <2> QED BY <2>3, <2>4, <1>1, <1>4
<1>5. ASSUME last(i, n + 2) PROVE rec'[r].content = t[i].after
  <2>1. CASE i = n + 1
    <3>1. e.op # "CONFLICT"
      BY <2>1, <1>2, <1>5
    <3> QED BY <3>1, <2>1, <1>2
  <2>2. CASE i \in 1 .. n
    <3>1. n + 1 \in i + 1 .. (n + 2) - 1
      BY <2>2, <1>1
    <3>2. e.op = "CONFLICT"
      BY <3>1, <1>2, <1>5
    <3>3. \A k \in i + 1 .. n : k \in i + 1 .. (n + 2) - 1 /\ k \in 1 .. n
      BY <2>2, <1>1
    <3>4. LastWrite(r, i, n + 1)
      BY <3>3, <2>2, <1>1, <1>2, <1>5 DEF LastWrite, Wrote
    <3>5. rec[r].content = s[i].after
      BY <3>4, <2>2, <1>2 DEF Chained
    <3> QED BY <3>2, <3>5, <2>2, <1>2
  <2> QED BY <2>1, <2>2, <1>1
<1> QED BY <1>4, <1>5

\* What a push that commits has found of a record that exists is what it holds.
LEMMA FoundIsCurrent ==
    ASSUME PushInv, NEW c \in Client, NEW r \in RecordsOf[c], Commit(c), rec[r].version > 0
    PROVE  cl[c].existing[r] = rec[r]
<1>i. TypeInv /\ NewIsOwn /\ PushHolds
  BY DEF PushInv, VersionInv, LockInv
<1>t. cl[c].existing[r].version \in Nat /\ cl[c].seen[r].version \in Nat
  BY <1>i, CopiesTyped
<1>p. cl[c].pc = "save" /\ InPush(c)
  BY DEF Commit, InPush
<1>1. cl[c].existing[r].version > 0
  BY <1>p, <1>t, <1>i DEF NewIsOwn
<1> QED BY <1>1, <1>p, <1>i DEF PushHolds

LEMMA PushEntryChains ==
    ASSUME PushInv, NEW c \in Client, NEW r \in RecordsOf[c], Commit(c), Chained(r)
    PROVE  Chained(r)' /\ rec'[r].version > 0
<1> DEFINE e == PushEntry(c, r)
<1>i. TypeInv /\ \A x \in Record : rec[x].version = 0 => log[x] = << >>
  BY DEF PushInv, LogInv
<1>t. /\ r \in Record /\ rec[r].version \in Nat /\ cl[c].existing[r] \in RowType
      /\ cl[c].existing[r].version \in Nat
  BY <1>i, CopiesTyped
<1>1. log'[r] = Append(log[r], e)
  BY <1>t, <1>i, CommitEffect
<1>2. /\ e.op = IF r \in Conflicted(c) THEN "CONFLICT"
               ELSE IF cl[c].existing[r].version > 0 THEN "UPDATE" ELSE "INSERT"
      /\ e.before = cl[c].existing[r].content /\ e.after = c
  BY DEF PushEntry, Entry
<1>3. e \in EntryType
  BY <1>t DEF PushEntry, Entry, EntryType, RowType
<1>4. log[r] # << >> => e.before = rec[r].content
  <2>1. log[r] # << >> => rec[r].version > 0
    BY <1>t, <1>i
  <2> QED BY <2>1, <1>2, FoundIsCurrent
<1>5. CASE r \in Conflicted(c)
  <2>1. rec'[r] = rec[r]
    BY <1>5, <1>t, <1>i, CommitEffect DEF Accepted
  <2>2. rec[r].version > 0
    <3>1. cl[c].existing[r].version > 0 /\ InPush(c)
      BY <1>5 DEF Conflicted, Commit, InPush
    <3> QED BY <3>1 DEF PushInv, LockInv, PushHolds
  <2>3. e.op = "CONFLICT"
    BY <1>2, <1>5
  <2> HIDE DEF e
  <2>4. Chained(r)'
    BY <2>1, <2>3, <1>1, <1>3, <1>4, <1>i, <1>t, ChainGrows
  <2> QED BY <2>1, <2>2, <2>4
<1>6. CASE r \notin Conflicted(c)
  <2>1. rec'[r] = [version |-> cl[c].existing[r].version + 1, content |-> c,
                   deleted |-> c \in Deletes]
    BY <1>6, <1>t, <1>i, CommitEffect DEF Accepted
  <2>2. rec'[r].content = c /\ rec'[r].version > 0
    BY <2>1, <1>t
  <2>3. e.op # "CONFLICT"
    BY <1>2, <1>6
  <2> HIDE DEF e
  <2>4. Chained(r)'
    BY <2>2, <2>3, <1>1, <1>2, <1>3, <1>4, <1>i, <1>t, ChainGrows
  <2> QED BY <2>2, <2>4
<1> QED BY <1>5, <1>6

LEMMA ResolutionChains ==
    ASSUME PushInv, NEW q \in Writes, RCommit(q), NEW r \in Record, r = rs[q].conflict[2], Chained(r)
    PROVE  Chained(r)' /\ rec'[r].version > 0
<1> DEFINE e == Entry("UPDATE", Nil, q)
<1>i. TypeInv /\ ConflictsExist /\ q \in Resolver
  BY ResolverAssumption DEF PushInv, ConflictInv
<1>1. /\ rec'[r].version = rs[q].base + 1 /\ rec'[r].content = q
      /\ log'[r] = Append(log[r], e)
  BY <1>i, RCommitEffect
<1>2. rs[q].base \in Nat
  BY <1>i, ResolverTyped
<1>3. e \in EntryType /\ e.op = "UPDATE" /\ e.after = q /\ q \notin Client
  BY <1>i, NilIsNone DEF Entry, EntryType
<1> HIDE DEF e
<1>4. Chained(r)'
  BY <1>1, <1>3, <1>i, ChainGrows
<1> QED BY <1>1, <1>2, <1>4

LEMMA LogInvNext ==
    ASSUME PushInv, [Next]_vars
    PROVE  LogInv'
<1>i. /\ TypeInv /\ \A r \in Record : Chained(r)
      /\ \A r \in Record : rec[r].version = 0 => log[r] = << >>
  BY DEF PushInv, LogInv, LogIsChain, Chained
<1>1. ASSUME NEW r \in Record
      PROVE  Chained(r)' /\ (rec'[r].version = 0 => log'[r] = << >>)
  <2>1. CASE rec'[r] = rec[r] /\ log'[r] = log[r]
    BY <2>1, <1>i DEF Chained, LastWrite, Wrote
  <2>2. CASE \E c \in Client : Commit(c) /\ r \in RecordsOf[c]
    BY <2>2, <1>i, PushEntryChains
  <2>3. CASE \E q \in Writes : RCommit(q) /\ r = rs[q].conflict[2]
    BY <2>3, <1>i, ResolutionChains
  <2> QED BY <2>1, <2>2, <2>3, RecordStep
<1>2. LogIsChain' <=> \A r \in Record : Chained(r)'
  BY DEF LogIsChain, Chained
<1> QED BY <1>1, <1>2 DEF LogInv

LEMMA ResolvedByCommit ==
    ASSUME PushInv, [Next]_vars, NEW q \in Resolver,
           rs[q].reply # "resolved", rs'[q].reply = "resolved"
    PROVE  RCommit(q)
<1>i. TypeInv /\ ConflictsExist
  BY DEF PushInv, ConflictInv
<1>1. CASE \E c \in Client : Pull(c) \/ Lock(c) \/ ReadOpen(c) \/ LoadConflicts(c)
                                \/ Commit(c) \/ Rolls(c)
  BY <1>1 DEF Pull, Lock, ReadOpen, LoadConflicts, Commit, Rolls, Rollback
<1>2. CASE \E p \in Resolver : Look(p) \/ RLock(p) \/ RUpdate(p)
                                \/ RCommit(p) \/ RRolls(p)
  <2>1. PICK p \in Resolver : Look(p) \/ RLock(p) \/ RUpdate(p)
                                \/ RCommit(p) \/ RRolls(p)
    BY <1>2
  <2>2. OtherRequests(p)
    BY <2>1, <1>i, LookEffect, RLockEffect, RUpdateEffect, RCommitEffect,
       RRollbackEffect DEF RRolls
  <2>3. p = q
    BY <2>2 DEF OtherRequests
  <2>4. ~Look(q) /\ ~RLock(q) /\ ~RUpdate(q) /\ ~RRolls(q)
    BY <1>i, LookEffect, RLockEffect, RUpdateEffect, RRollbackEffect DEF RRolls
  <2> QED BY <2>1, <2>3, <2>4
<1>3. CASE CopyConflict \/ PushConflict \/ UNCHANGED vars
  BY <1>3 DEF CopyConflict, PushConflict, vars
<1> QED BY <1>1, <1>2, <1>3, Steps

-----------------------------------------------------------------------------
(* The invariant, and what it is for *)

LEMMA PushInvInit == Init => PushInv
<1> SUFFICES ASSUME Init PROVE PushInv
  OBVIOUS
<1>1. TypeOK
  BY TypeInit
<1>2. /\ \A c \in Client : cl[c].pc = "pull" /\ cl[c].attempts = 0
      /\ \A c \in Client : \A r \in Record :
            /\ cl[c].open[r] = Nil /\ cl[c].seen[r].version = 0
      /\ \A q \in Resolver : rs[q].pc = "look" /\ rs[q].reply = "none"
      /\ \A k \in ConflictId : conf[k].status = "none"
      /\ copy.pc = "none"
  BY DEF Init, Absent, NoConflict
<1>3. AttemptsLeft /\ LockInv
  BY <1>2, AttemptsAssumption DEF AttemptsLeft, LockInv, PushHolds, ResolveHolds, InPush, InResolve
<1>4. ConflictInv
  BY <1>2 DEF ConflictInv, ConflictsExist, OpenIsOwn, OneOpen, OpenIsFound
<1>5. SeenIsPast /\ NewIsOwn
  BY <1>2, RecordsAreRecords DEF SeenIsPast, NewIsOwn, InPush
<1>6. StoredExists
  BY RecordAssumption DEF StoredExists, Init
<1>7. LogInv
  <2>1. \A r \in Record : log[r] = << >> /\ DOMAIN log[r] = {}
    BY DEF Init
  <2> QED BY <2>1 DEF LogInv, LogIsChain
<1> QED BY <1>1, <1>3, <1>4, <1>5, <1>6, <1>7 DEF PushInv, TypeInv, VersionInv

LEMMA PushInvNext == PushInv /\ [Next]_vars => PushInv'
<1> SUFFICES ASSUME PushInv, [Next]_vars PROVE PushInv'
  OBVIOUS
<1>1. TypeInv'
  BY TypeNext DEF PushInv, ConflictInv
<1>2. LockInv'
  BY PushHoldsNext, ResolveHoldsNext DEF LockInv
<1>3. ConflictInv'
  BY ConflictsExistNext, OpenIsOwnNext, OneOpenNext, OpenIsFoundNext DEF ConflictInv
<1>4. VersionInv'
  BY SeenIsPastNext, NewIsOwnNext, StoredExistsNext DEF VersionInv
<1> QED BY <1>1, <1>2, <1>3, <1>4, LogInvNext DEF PushInv

THEOREM PushInvHolds == Spec => []PushInv
BY PushInvInit, PushInvNext, PTL DEF Spec

\* Every variable has its type; a push has no more attempts than its job.
THEOREM Typed == Spec => []TypeOK
<1>1. PushInv => TypeOK
  BY DEF PushInv, TypeInv
<1> QED BY <1>1, PushInvHolds, PTL

\* As long as no push of a conflict has opened one, the index of open conflicts never
\* rejects a push: the open conflict that it has read is the only one of its record
\* until it commits, though nothing locks the table of conflicts.
THEOREM IndexNeverRejects == Spec => []IndexNeverFires
<1>1. PushInv => IndexNeverFires
  <2> SUFFICES ASSUME PushInv, NEW c \in Client, cl[c].pc = "save", copy.pc # "saved"
               PROVE  ~Clash(c)
    BY DEF IndexNeverFires
  <2>1. \A r \in Conflicted(c) : OpenConflicts(r) \subseteq {Row(c, r)}
    BY DEF PushInv, ConflictInv, OpenIsFound
  <2> QED BY <2>1 DEF Clash
<1> QED BY <1>1, PushInvHolds, PTL

\* The change log of a record is a chain: what a push says it replaced, or met, is what
\* the last write before it stored, and the last write is what the record holds, also
\* with resolutions that store data and with rows pushed by several devices.
THEOREM ChangeLogIsChain == Spec => []LogIsChain
<1>1. PushInv => LogIsChain
  BY DEF PushInv, LogInv
<1> QED BY <1>1, PushInvHolds, PTL

\* No lost update: a push that is accepted replaces what its author had pulled, unless a
\* resolution has stored data in the record.
THEOREM NoLostUpdate == Spec => AcceptedSawCurrent
<1> DEFINE Saw == \A c \in Client : \A r \in RecordsOf[c] :
                    (cl[c].reply[r] # "accepted" /\ cl'[c].reply[r] = "accepted"
                        /\ rec[r].version > 0 /\ ~Rewritten(r))
                        => rec[r].content = cl[c].seen[r].content
<1>1. PushInv /\ [Next]_vars => Saw
  <2> SUFFICES ASSUME PushInv, [Next]_vars, NEW c \in Client, NEW r \in RecordsOf[c],
                      cl[c].reply[r] # "accepted", cl'[c].reply[r] = "accepted",
                      rec[r].version > 0, ~Rewritten(r)
               PROVE  rec[r].content = cl[c].seen[r].content
    OBVIOUS
  <2>i. TypeInv /\ r \in Record
    BY RecordsAreRecords DEF PushInv
  <2>1. Commit(c)
    <3>1. ~Pull(c) /\ ~Lock(c) /\ ~ReadOpen(c) /\ ~LoadConflicts(c) /\ ~Rolls(c)
      BY <2>i, PullEffect, LockEffect, ReadOpenEffect, LoadEffect, RollbackEffect DEF Rolls
    <3> QED BY <3>1, ClientStep
  <2>2. r \in Accepted(c)
    BY <2>1, <2>i, CommitEffect
  <2>3. cl[c].seen[r].version = rec[r].version
    BY <2>1, <2>2, AcceptedIsNext
  <2>4. cl[c].pc # "pull"
    BY <2>1 DEF Commit
  <2> QED BY <2>3, <2>4 DEF PushInv, VersionInv, SeenIsPast
<1>2. Spec => [][Saw]_vars
  BY <1>1, PushInvHolds, PTL DEF Spec
<1> QED BY <1>2 DEF AcceptedSawCurrent

\* Of two requests for one conflict one resolves it: a conflict is open when a resolution
\* commits, because the request has held its lock since it found it open.
THEOREM ResolvedWhileOpen == Spec => ResolvesWhatIsOpen
<1> DEFINE Open == \A q \in Resolver :
                    (rs[q].reply # "resolved" /\ rs'[q].reply = "resolved")
                        => conf[rs[q].conflict].status = "open"
<1>1. PushInv /\ [Next]_vars => Open
  <2> SUFFICES ASSUME PushInv, [Next]_vars, NEW q \in Resolver,
                      rs[q].reply # "resolved", rs'[q].reply = "resolved"
               PROVE  conf[rs[q].conflict].status = "open"
    OBVIOUS
  <2>i. TypeInv /\ ConflictsExist /\ ResolveHolds
    BY DEF PushInv, ConflictInv, LockInv
  <2>1. RCommit(q)
    BY ResolvedByCommit
  <2> QED BY <2>1, <2>i DEF ResolveHolds, InResolve, RCommit
<1>2. Spec => [][Open]_vars
  BY <1>1, PushInvHolds, PTL DEF Spec
<1> QED BY <1>2 DEF ResolvesWhatIsOpen

=============================================================================

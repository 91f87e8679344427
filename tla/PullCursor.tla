----------------------------- MODULE PullCursor -----------------------------
(***************************************************************************)
(* Incremental pull of one entity (SyncService.processPullSync and the       *)
(* cursor queries of the adapters): a client keeps the cursor of the last     *)
(* record it received and asks for the next page, while transactions write    *)
(* rows of the table.                                                         *)
(*                                                                            *)
(* Time is counted in the resolution of a PostgreSQL timestamp; a JavaScript  *)
(* Date, and so a cursor, is a multiple of Millisecond.  A timestamp is       *)
(* chosen when a row is written and becomes visible at the COMMIT, in         *)
(* whatever order the transactions get there.                                 *)
(***************************************************************************)
EXTENDS Naturals, FiniteSets

CONSTANTS
    Row,          \* ids of the table's rows, ordered as PostgreSQL orders them
    Limit,        \* page size of the client
    Millisecond,  \* ticks of the clock per millisecond
    Kinds,        \* who writes: "split", "given", "default", "resolve"
    MaxTime,      \* bound on the clock
    MaxWrites     \* bound on the writes to each row

ASSUME RowAssumption   == Row \subseteq Nat \ {0} /\ IsFiniteSet(Row)
ASSUME PageAssumption  == Limit \in Nat \ {0} /\ Millisecond \in Nat \ {0}
ASSUME KindAssumption  == Kinds \subseteq {"split", "given", "default", "resolve"}
ASSUME BoundAssumption == MaxTime \in Nat /\ MaxWrites \in Nat

VARIABLES
    now,      \* the clock
    db,       \* committed rows: timestamp (0 for an absent row) and content
    tx,       \* the write a transaction is about to commit, by row; stamp 0: none
    cursor,   \* what the client has stored: timestamp and lastId, 0 for none
    has,      \* content of each row in the client's copy, 0 for none
    late      \* history: rows committed at or below the cursor, and not pulled since

vars == <<now, db, tx, cursor, has, late>>

NoWrite == [stamp |-> 0, content |-> 0]

Init ==
    /\ now = 1
    /\ db = [r \in Row |-> NoWrite]
    /\ tx = [r \in Row |-> NoWrite]
    /\ cursor = [stamp |-> 0, id |-> 0]
    /\ has = [r \in Row |-> 0]
    /\ late = {}

\* Mutant of ToDate: a local time is taken for UTC.
ToDateLocal(t) == t - Millisecond

\* The Date that JavaScript makes of timestamp t.
ToDate(t) == t - (t % Millisecond)

-----------------------------------------------------------------------------
(* Writers *)

Tick ==
    /\ now < MaxTime
    /\ now' = now + 1
    /\ UNCHANGED <<db, tx, cursor, has, late>>

\* The timestamps a write of this kind can carry: new Date() of the optimistic
\* split, the updatedAt of the client's record in an unconditional upsert, by the
\* clock of the device, or DEFAULT now() when that record has none.
Stamps(kind) ==
    CASE kind = "split"   -> {ToDate(now)}
      [] kind = "given"   -> {ToDate(t) : t \in 1 .. MaxTime}
      [] kind = "default" -> {now}
      [] OTHER            -> {}

\* A transaction writes row r, and holds its row lock until it commits.
Write(r) ==
    /\ tx[r].stamp = 0
    /\ db[r].content < MaxWrites
    /\ \E kind \in Kinds : \E t \in Stamps(kind) \ {0} :
        tx' = [tx EXCEPT ![r] = [stamp |-> t, content |-> db[r].content + 1]]
    /\ UNCHANGED <<now, db, cursor, has, late>>

\* A conflict is marked resolved: the row changes, fechaConflicto stays.
Resolve(r) ==
    /\ "resolve" \in Kinds
    /\ tx[r].stamp = 0
    /\ db[r].stamp > 0
    /\ db[r].content < MaxWrites
    /\ tx' = [tx EXCEPT ![r] = [stamp |-> db[r].stamp, content |-> db[r].content + 1]]
    /\ UNCHANGED <<now, db, cursor, has, late>>

\* Position t of row r lies behind the cursor.
Behind(t, r) == t > cursor.stamp \/ (t = cursor.stamp /\ cursor.id # 0 /\ r > cursor.id)

Commit(r) ==
    /\ tx[r].stamp > 0
    /\ db' = [db EXCEPT ![r] = tx[r]]
    /\ tx' = [tx EXCEPT ![r] = NoWrite]
    /\ late' = IF Behind(tx[r].stamp, r) THEN late \ {r} ELSE late \cup {r}
    /\ UNCHANGED <<now, cursor, has>>

Rollback(r) ==
    /\ tx[r].stamp > 0
    /\ tx' = [tx EXCEPT ![r] = NoWrite]
    /\ UNCHANGED <<now, db, cursor, has, late>>

-----------------------------------------------------------------------------
(* GET /sync/pull *)

\* Mutant of Wanted: the condition on lastId is dropped.
WantedNewer(r) == db[r].stamp > cursor.stamp

\* WHERE updated_at > :cursorDate OR (updated_at = :cursorDate AND id > :lastId)
Wanted(r) == db[r].stamp > 0 /\ Behind(db[r].stamp, r)

\* ORDER BY updated_at, id
Before(r, s) == db[r].stamp < db[s].stamp \/ (db[r].stamp = db[s].stamp /\ r < s)

\* Mutant of Page: the newest rows come first.
PageNewest ==
    {r \in Row : Wanted(r) /\ Cardinality({s \in Row : Wanted(s) /\ Before(r, s)}) < Limit}

\* The first Limit rows.
Page == {r \in Row : Wanted(r) /\ Cardinality({s \in Row : Wanted(s) /\ Before(s, r)}) < Limit}

\* The client applies the page and stores nextCursor; after an empty page it keeps
\* the cursor it has.
Pull ==
    /\ Page # {}
    /\ \E last \in Page :
        /\ \A r \in Page \ {last} : Before(r, last)
        /\ cursor' = [stamp |-> ToDate(db[last].stamp), id |-> last]
    /\ has' = [r \in Row |-> IF r \in Page THEN db[r].content ELSE has[r]]
    /\ late' = late \ Page
    /\ UNCHANGED <<now, db, tx>>

-----------------------------------------------------------------------------
(* GET /sync/state *)

\* Mutant of State: the order is not DESC.
StateOldest ==
    LET first == {r \in Row : db[r].stamp > 0
                    /\ \A s \in Row \ {r} : db[s].stamp > 0 => Before(r, s)}
    IN  {[stamp |-> ToDate(db[r].stamp), id |-> r] : r \in first}

\* The timestamp and the id of the last row, as a set: it is empty for an empty table.
State ==
    LET last == {r \in Row : db[r].stamp > 0 /\ \A s \in Row \ {r} : Before(s, r)}
    IN  {[stamp |-> ToDate(db[r].stamp), id |-> r] : r \in last}

-----------------------------------------------------------------------------

Next ==
    \/ Tick
    \/ \E r \in Row : Write(r) \/ Resolve(r) \/ Commit(r) \/ Rollback(r)
    \/ Pull

Spec == Init /\ [][Next]_vars

\* The client repeats its pull; a transaction ends.
FairSpec == Spec /\ WF_vars(Pull) /\ \A r \in Row : WF_vars(Commit(r) \/ Rollback(r))

-----------------------------------------------------------------------------
(* Properties *)

Stamp == [stamp : Nat, content : Nat]

TypeOK ==
    /\ now \in Nat
    /\ db \in [Row -> Stamp]
    /\ tx \in [Row -> Stamp]
    /\ cursor \in [stamp : Nat, id : Row \cup {0}]
    /\ has \in [Row -> Nat]
    /\ late \subseteq Row

Current(r) == has[r] = db[r].content

\* Paging skips nothing: what lies at or before the cursor is in the client's copy
\* as it is in the table, unless it was committed there too late.
SeenUpToCursor ==
    \A r \in Row : (db[r].stamp > 0 /\ ~Behind(db[r].stamp, r)) => Current(r) \/ r \in late

\* hasMore = false ends the client's loop: after a page shorter than Limit the copy
\* is complete, but for rows committed late.
ShortPageIsComplete ==
    [][((cursor' # cursor \/ has' # has) /\ Cardinality(Page) < Limit)
        => \A r \in Row : has'[r] = db[r].content \/ r \in late']_vars

\* A page or more of rows has timestamps between t and the next Date: a cursor
\* made from one of them lies below all of them.
Crowded(t) ==
    Cardinality({s \in Row : db[s].stamp > t /\ db[s].stamp < t + Millisecond}) >= Limit

\* A client that goes on pulling gets every row that was not committed late, unless
\* a page of rows is crowded within one millisecond at or before it.
CatchesUp ==
    \A r \in Row : (db[r].stamp > 0) ~>
        \/ Current(r)
        \/ r \in late
        \/ \E t \in {ToDate(db[s].stamp) : s \in Row} : t <= db[r].stamp /\ Crowded(t)

\* A client that compares the state with its cursor and finds them equal has every row,
\* but for those committed late and for rows of the cursor's own millisecond.
StateAgrees ==
    cursor \in State => \A r \in Row :
        db[r].stamp > 0 /\ ~Current(r) => r \in late \/ ToDate(db[r].stamp) = cursor.stamp

(* What the documentation says and the code does not do *)

\* A client that keeps the cursor of each entity and goes on pulling gets every
\* committed change.
GetsEverything == \A r \in Row : (db[r].stamp > 0) ~> Current(r)
=============================================================================

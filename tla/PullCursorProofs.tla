-------------------------- MODULE PullCursorProofs --------------------------
(***************************************************************************)
(* Proofs about PullCursor: paging by (updated_at, id) skips no row and a    *)
(* short page ends it, for every table, page size, resolution of the clock   *)
(* and kind of writer.                                                       *)
(***************************************************************************)
EXTENDS PullCursor, FiniteSetTheorems, WellFoundedInduction, TLAPS

-----------------------------------------------------------------------------
(* Type correctness *)

\* A Date is a timestamp that is not later than the one it was made of.
LEMMA DateIsNotLater ==
    ASSUME NEW t \in Nat
    PROVE  ToDate(t) \in Nat /\ ToDate(t) <= t
<1>1. Millisecond \in Nat \ {0}
  BY PageAssumption
<1>2. QED
  BY <1>1, Z3 DEF ToDate

\* A write carries a natural number as its timestamp.
LEMMA StampsAreNat ==
    ASSUME NEW kind, now \in Nat
    PROVE  Stamps(kind) \subseteq Nat
<1>1. ToDate(now) \in Nat
  BY DateIsNotLater
<1>2. \A t \in 1 .. MaxTime : ToDate(t) \in Nat
  <2>1. 1 .. MaxTime \subseteq Nat
    BY BoundAssumption
  <2>2. QED
    BY <2>1, DateIsNotLater
<1>3. QED
  BY <1>1, <1>2 DEF Stamps

\* Every reachable state is well typed.
THEOREM TypeCorrect == Spec => []TypeOK
<1>1. Init => TypeOK
  BY DEF Init, TypeOK, Stamp, NoWrite
<1>2. TypeOK /\ [Next]_vars => TypeOK'
  <2> SUFFICES ASSUME TypeOK, [Next]_vars
               PROVE  TypeOK'
    OBVIOUS
  <2> USE DEF TypeOK, Stamp
  <2>1. CASE Tick
    BY <2>1 DEF Tick
  <2>2. ASSUME NEW r \in Row, Write(r)
        PROVE  TypeOK'
    <3>1. PICK kind \in Kinds : \E t \in Stamps(kind) \ {0} :
            tx' = [tx EXCEPT ![r] = [stamp |-> t, content |-> db[r].content + 1]]
      BY <2>2 DEF Write
    <3>2. PICK t \in Nat :
            tx' = [tx EXCEPT ![r] = [stamp |-> t, content |-> db[r].content + 1]]
      BY <3>1, StampsAreNat
    <3>3. QED
      BY <2>2, <3>2 DEF Write
  <2>3. ASSUME NEW r \in Row, Resolve(r)
        PROVE  TypeOK'
    BY <2>3 DEF Resolve
  <2>4. ASSUME NEW r \in Row, Commit(r)
        PROVE  TypeOK'
    BY <2>4 DEF Commit, NoWrite
  <2>5. ASSUME NEW r \in Row, Rollback(r)
        PROVE  TypeOK'
    BY <2>5 DEF Rollback, NoWrite
  <2>6. CASE Pull
    <3>1. Page \subseteq Row
      BY DEF Page
    <3>2. PICK last \in Page : cursor' = [stamp |-> ToDate(db[last].stamp), id |-> last]
      BY <2>6 DEF Pull
    <3>3. ToDate(db[last].stamp) \in Nat
      BY <3>1, <3>2, DateIsNotLater
    <3>4. cursor' \in [stamp : Nat, id : Row \cup {0}]
      BY <3>1, <3>2, <3>3
    <3>5. has' \in [Row -> Nat]
      BY <2>6 DEF Pull
    <3>6. QED
      BY <2>6, <3>4, <3>5 DEF Pull
  <2>7. CASE UNCHANGED vars
    BY <2>7 DEF vars
  <2>8. QED
    BY <2>1, <2>2, <2>3, <2>4, <2>5, <2>6, <2>7 DEF Next
<1>3. QED
  BY <1>1, <1>2, PTL DEF Spec

-----------------------------------------------------------------------------
(* Pages *)

\* The wanted rows that are sent before row r.
Earlier(r) == {s \in Row : Wanted(s) /\ Before(s, r)}

LEMMA EarlierIsFinite ==
    ASSUME NEW r
    PROVE  IsFiniteSet(Earlier(r)) /\ Cardinality(Earlier(r)) \in Nat
<1>1. Earlier(r) \in SUBSET Row
  BY DEF Earlier
<1>2. QED
  BY <1>1, RowAssumption, FS_Subset, FS_CardinalityType

\* The order of a page is transitive.
LEMMA BeforeIsTransitive ==
    ASSUME TypeOK, NEW r \in Row, NEW s \in Row, NEW t \in Row, Before(r, s), Before(s, t)
    PROVE  Before(r, t)
<1>1. db[r].stamp \in Nat /\ db[s].stamp \in Nat /\ db[t].stamp \in Nat
  BY DEF TypeOK, Stamp
<1>2. r \in Nat /\ s \in Nat /\ t \in Nat
  BY RowAssumption
<1>3. QED
  BY <1>1, <1>2 DEF Before

\* A page is a prefix: with a row it has every wanted row before it.
LEMMA PageIsPrefix ==
    ASSUME TypeOK, NEW last \in Page, NEW r \in Row, Wanted(r), Before(r, last)
    PROVE  r \in Page
<1>1. last \in Row /\ Cardinality(Earlier(last)) < Limit
  BY DEF Page, Earlier
<1>2. Earlier(r) \in SUBSET Earlier(last)
  BY <1>1, BeforeIsTransitive DEF Earlier
<1>3. Cardinality(Earlier(r)) <= Cardinality(Earlier(last))
  BY <1>2, EarlierIsFinite, FS_Subset
<1>4. Cardinality(Earlier(r)) \in Nat /\ Cardinality(Earlier(last)) \in Nat /\ Limit \in Nat
  BY EarlierIsFinite, PageAssumption
<1>5. Cardinality(Earlier(r)) < Limit
  BY <1>1, <1>3, <1>4
<1>6. QED
  BY <1>5 DEF Page, Earlier

-----------------------------------------------------------------------------
(* Paging skips nothing *)

SkipInv == TypeOK /\ SeenUpToCursor

\* A pull moves the cursor over rows of the page only.
LEMMA PullStep ==
    ASSUME SkipInv, Pull
    PROVE  SeenUpToCursor'
<1> USE DEF SkipInv
<1>1. PICK last \in Page :
        /\ \A r \in Page \ {last} : Before(r, last)
        /\ cursor' = [stamp |-> ToDate(db[last].stamp), id |-> last]
  BY DEF Pull
<1>2. UNCHANGED db /\ late' = late \ Page
  BY DEF Pull
<1>3. Page \subseteq Row
  BY DEF Page
<1>4. db[last].stamp \in Nat /\ ToDate(db[last].stamp) \in Nat
      /\ ToDate(db[last].stamp) <= db[last].stamp
  BY <1>1, <1>3, DateIsNotLater DEF TypeOK, Stamp
<1>5. SUFFICES ASSUME NEW r \in Row, db[r].stamp > 0,
                      ~(db[r].stamp > cursor'.stamp
                          \/ (db[r].stamp = cursor'.stamp /\ cursor'.id # 0 /\ r > cursor'.id))
               PROVE  has'[r] = db[r].content \/ r \in late'
  BY <1>2 DEF SeenUpToCursor, Behind, Current
<1>6. CASE r \in Page
  <2>1. has'[r] = db[r].content
    BY <1>6 DEF Pull
  <2>2. QED
    BY <2>1
<1>7. CASE r \notin Page
  <2>1. ~Wanted(r)
    <3>1. SUFFICES ASSUME Wanted(r)
                   PROVE  FALSE
      OBVIOUS
    <3>2. cursor'.stamp = ToDate(db[last].stamp) /\ cursor'.id = last
      BY <1>1
    <3>3. last \in Nat \ {0} /\ r \in Nat /\ db[r].stamp \in Nat
      BY <1>1, <1>3, RowAssumption DEF TypeOK, Stamp
    <3>4. r # last
      BY <1>1, <1>7
    <3>5. Before(r, last)
      BY <1>4, <1>5, <3>2, <3>3, <3>4 DEF Before
    <3>6. QED
      BY <1>1, <1>7, <3>1, <3>5, PageIsPrefix
  <2>2. ~Behind(db[r].stamp, r)
    BY <2>1, <1>5 DEF Wanted
  <2>3. has[r] = db[r].content \/ r \in late
    BY <2>2, <1>5 DEF SeenUpToCursor, Current
  <2>4. has'[r] = has[r]
    BY <1>7 DEF Pull
  <2>5. QED
    BY <2>3, <2>4, <1>2, <1>7
<1>8. QED
  BY <1>6, <1>7

\* A commit leaves the other rows alone, and is late exactly when it lands at or
\* below the cursor.
LEMMA CommitStep ==
    ASSUME SkipInv, NEW r \in Row, Commit(r)
    PROVE  SeenUpToCursor'
<1> USE DEF SkipInv
<1>1. db' = [db EXCEPT ![r] = tx[r]] /\ UNCHANGED <<cursor, has>>
  BY DEF Commit
<1>2. SUFFICES ASSUME NEW s \in Row, db'[s].stamp > 0, ~Behind(db'[s].stamp, s)
               PROVE  has[s] = db'[s].content \/ s \in late'
  BY <1>1 DEF SeenUpToCursor, Behind, Current
<1>3. CASE s = r
  <2>1. db'[s] = tx[r]
    BY <1>1, <1>3 DEF TypeOK
  <2>2. ~Behind(tx[r].stamp, r)
    BY <1>2, <1>3, <2>1
  <2>3. QED
    BY <2>2, <1>3 DEF Commit
<1>4. CASE s # r
  <2>1. db'[s] = db[s]
    BY <1>1, <1>4 DEF TypeOK
  <2>2. has[s] = db[s].content \/ s \in late
    BY <1>2, <2>1 DEF SeenUpToCursor, Current
  <2>3. QED
    BY <2>1, <2>2, <1>4 DEF Commit
<1>5. QED
  BY <1>3, <1>4

\* What lies at or before the cursor was pulled, but for late commits.
THEOREM PagingSkipsNothing == Spec => []SeenUpToCursor
<1>1. Init => SkipInv
  <2>1. Init => TypeOK
    BY DEF Init, TypeOK, Stamp, NoWrite
  <2>2. Init => SeenUpToCursor
    BY DEF Init, SeenUpToCursor, NoWrite
  <2>3. QED
    BY <2>1, <2>2 DEF SkipInv
<1>2. SkipInv /\ [Next]_vars => SeenUpToCursor'
  <2> SUFFICES ASSUME SkipInv, [Next]_vars
               PROVE  SeenUpToCursor'
    OBVIOUS
  <2>1. CASE UNCHANGED <<db, cursor, has, late>>
    BY <2>1 DEF SkipInv, SeenUpToCursor, Behind, Current
  <2>2. ASSUME NEW r \in Row, Commit(r)
        PROVE  SeenUpToCursor'
    BY <2>2, CommitStep
  <2>3. CASE Pull
    BY <2>3, PullStep
  <2>4. QED
    BY <2>1, <2>2, <2>3 DEF Next, Tick, Write, Resolve, Rollback, vars
<1>3. QED
  BY <1>1, <1>2, TypeCorrect, PTL DEF Spec, SkipInv

-----------------------------------------------------------------------------
(* A short page is the last one *)

\* Rows that are left out come after at least Limit others: when there are some,
\* the first of them shows that the page is full.
LEMMA ShortPageIsAll ==
    ASSUME TypeOK, IsFiniteSet(Page), Cardinality(Page) < Limit, NEW r \in Row, Wanted(r)
    PROVE  r \in Page
<1> DEFINE left == {s \in Row : Wanted(s) /\ s \notin Page}
           stamps == {db[s].stamp : s \in left}
<1>1. SUFFICES ASSUME r \notin Page
               PROVE  FALSE
  OBVIOUS
<1>2. \A s \in Row : db[s].stamp \in Nat /\ s \in Nat
  BY RowAssumption DEF TypeOK, Stamp
<1>3. stamps \subseteq Nat /\ stamps # {}
  BY <1>1, <1>2
<1>4. PICK t \in stamps : \A u \in stamps : ~(u < t)
  <2>1. PICK t \in stamps : \A u \in stamps : ~(<<u, t>> \in OpToRel(<, Nat))
    BY <1>3, NatLessThanWellFounded, WFMin
  <2>2. QED
    BY <2>1, <1>3 DEF OpToRel
<1> DEFINE first == {s \in left : db[s].stamp = t}
<1>5. first \subseteq Nat /\ first # {}
  BY <1>2, <1>4
<1>6. PICK m \in first : \A u \in first : ~(u < m)
  <2>1. PICK m \in first : \A u \in first : ~(<<u, m>> \in OpToRel(<, Nat))
    BY <1>5, NatLessThanWellFounded, WFMin
  <2>2. QED
    BY <2>1, <1>5 DEF OpToRel
<1>7. m \in Row /\ Wanted(m) /\ m \notin Page /\ db[m].stamp = t
  BY <1>6
<1>8. Earlier(m) \in SUBSET Page
  <2>1. SUFFICES ASSUME NEW s \in Row, Wanted(s), Before(s, m), s \notin Page
                 PROVE  FALSE
    BY DEF Earlier
  <2>2. s \in left /\ db[s].stamp \in stamps
    BY <2>1
  <2>3. ~(db[s].stamp < t)
    BY <2>2, <1>4
  <2>4. db[s].stamp = t /\ s < m
    BY <2>1, <2>3, <1>7 DEF Before
  <2>5. s \in first
    BY <2>2, <2>4
  <2>6. QED
    BY <2>4, <2>5, <1>6
<1>9. Cardinality(Earlier(m)) <= Cardinality(Page)
  BY <1>8, FS_Subset
<1>10. ~(Cardinality(Earlier(m)) < Limit)
  BY <1>7 DEF Page, Earlier
<1>11. Cardinality(Page) \in Nat /\ Cardinality(Earlier(m)) \in Nat /\ Limit \in Nat
  BY FS_CardinalityType, EarlierIsFinite, PageAssumption
<1>12. QED
  BY <1>9, <1>10, <1>11

\* A row that was never committed is not in the client's copy.
AbsentIsUnseen == \A r \in Row : db[r].stamp = 0 => db[r].content = 0 /\ has[r] = 0

LEMMA AbsentStep ==
    ASSUME TypeOK, AbsentIsUnseen, [Next]_vars
    PROVE  AbsentIsUnseen'
<1>1. CASE UNCHANGED <<db, has>>
  BY <1>1 DEF AbsentIsUnseen
<1>2. ASSUME NEW r \in Row, Commit(r)
      PROVE  AbsentIsUnseen'
  BY <1>2 DEF AbsentIsUnseen, Commit, TypeOK, Stamp
<1>3. CASE Pull
  BY <1>3 DEF AbsentIsUnseen, Pull, Page, Wanted, TypeOK, Stamp
<1>4. QED
  BY <1>1, <1>2, <1>3 DEF Next, Tick, Write, Resolve, Rollback, vars

\* When a page is shorter than Limit the client has every row afterwards, but for
\* late commits.
THEOREM ShortPageEndsPaging == Spec => ShortPageIsComplete
<1>1. SkipInv /\ AbsentIsUnseen /\ [Next]_vars =>
        (((cursor' # cursor \/ has' # has) /\ Cardinality(Page) < Limit)
            => \A r \in Row : has'[r] = db[r].content \/ r \in late')
  <2> SUFFICES ASSUME SkipInv, AbsentIsUnseen, [Next]_vars, cursor' # cursor \/ has' # has,
                      Cardinality(Page) < Limit, NEW r \in Row
               PROVE  has'[r] = db[r].content \/ r \in late'
    OBVIOUS
  <2> USE DEF SkipInv
  <2>1. Pull
    BY DEF Next, Tick, Write, Resolve, Commit, Rollback, vars
  <2>2. IsFiniteSet(Page)
    <3>1. Page \in SUBSET Row
      BY DEF Page
    <3>2. QED
      BY <3>1, RowAssumption, FS_Subset
  <2>3. CASE r \in Page
    BY <2>1, <2>3 DEF Pull
  <2>4. CASE r \notin Page /\ db[r].stamp > 0
    <3>1. ~Wanted(r)
      BY <2>2, <2>4, ShortPageIsAll
    <3>2. has[r] = db[r].content \/ r \in late
      BY <3>1, <2>4 DEF Wanted, SeenUpToCursor, Current
    <3>3. QED
      BY <3>2, <2>1, <2>4 DEF Pull
  <2>5. CASE r \notin Page /\ ~(db[r].stamp > 0)
    <3>1. db[r].content = 0 /\ has[r] = 0
      BY <2>5 DEF AbsentIsUnseen, TypeOK, Stamp
    <3>2. QED
      BY <3>1, <2>1, <2>5 DEF Pull
  <2>6. QED
    BY <2>3, <2>4, <2>5
<1>2. Init => AbsentIsUnseen
  BY DEF Init, AbsentIsUnseen, NoWrite
<1>3. TypeOK /\ AbsentIsUnseen /\ [Next]_vars => AbsentIsUnseen'
  BY AbsentStep
<1>4. Spec => []AbsentIsUnseen
  BY <1>2, <1>3, TypeCorrect, PTL DEF Spec
<1>5. QED
  BY <1>1, <1>4, TypeCorrect, PagingSkipsNothing, PTL DEF Spec, SkipInv, ShortPageIsComplete

-----------------------------------------------------------------------------
(* A state that equals the cursor *)

\* Two timestamps make the same Date when one lies between the Date of the other
\* and the other.
LEMMA DateOfBetween ==
    ASSUME NEW t \in Nat, NEW u \in Nat, ToDate(t) <= u, u <= t
    PROVE  ToDate(u) = ToDate(t)
<1>1. Millisecond \in Nat \ {0}
  BY PageAssumption
<1>2. t - (t % Millisecond) <= u
  BY DEF ToDate
<1>3. u % Millisecond = (t % Millisecond) - (t - u)
  BY <1>1, <1>2, SMTT(30)
<1>4. t % Millisecond \in Nat
  BY <1>1
<1>5. QED
  BY <1>3, <1>4 DEF ToDate

\* When the cursor is the timestamp and id that getSyncState reports, the client has
\* every row but late ones and those of the cursor's own millisecond.
THEOREM StateIsComplete == Spec => []StateAgrees
<1>1. SkipInv => StateAgrees
  <2> SUFFICES ASSUME SkipInv, cursor \in State, NEW r \in Row,
                      db[r].stamp > 0, ~Current(r), r \notin late
               PROVE  ToDate(db[r].stamp) = cursor.stamp
    BY DEF StateAgrees
  <2> USE DEF SkipInv
  <2>1. PICK last \in Row :
          /\ \A s \in Row \ {last} : Before(s, last)
          /\ cursor = [stamp |-> ToDate(db[last].stamp), id |-> last]
    BY DEF State
  <2>2. db[r].stamp \in Nat /\ db[last].stamp \in Nat
    BY DEF TypeOK, Stamp
  <2>3. ToDate(db[last].stamp) \in Nat /\ ToDate(db[last].stamp) <= db[last].stamp
    BY <2>2, DateIsNotLater
  <2>4. Behind(db[r].stamp, r)
    BY DEF SeenUpToCursor
  <2>5. ToDate(db[last].stamp) <= db[r].stamp
    BY <2>1, <2>2, <2>3, <2>4 DEF Behind
  <2>6. db[r].stamp <= db[last].stamp
    BY <2>1, <2>2 DEF Before
  <2>7. QED
    BY <2>1, <2>2, <2>5, <2>6, DateOfBetween
<1>2. QED
  BY <1>1, TypeCorrect, PagingSkipsNothing, PTL DEF SkipInv
=============================================================================

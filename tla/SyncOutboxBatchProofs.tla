------------------------ MODULE SyncOutboxBatchProofs ------------------------
(***************************************************************************)
(* Theorems of SyncOutboxBatch: what the single push promises holds beside  *)
(* the batch push as well, for any number of batches, sessions and workers. *)
(***************************************************************************)
EXTENDS SyncOutboxBatch, SyncOutboxProofs

USE DEF Completed, Statuses, NoStatus, queueVars, dataVars, vars, batchVars, allVars

-----------------------------------------------------------------------------
(* Frames: what a batch step does to its own request, job or slot *)

LEMMA ElementOfList == ASSUME NEW S, NEW s \in Seq(S), NEW n \in 1 .. Len(s) PROVE s[n] \in S
OBVIOUS

\* The chunk a request is at.
LEMMA ItemIsChunk ==
    ASSUME BatchTypeOK, NEW b \in BatchRequest, breq[b].i <= Len(BatchOf[b])
    PROVE  Item(b).chunk \in Chunk /\ Item(b).payload \in Payload
<1> DEFINE n == breq[b].i
           chunks == BatchOf[b]
<1>1. n \in Nat \ {0} /\ n <= Len(chunks)
  BY DEF BatchTypeOK, BatchReqType
<1>2. chunks \in Seq([chunk : Chunk, payload : Payload])
  BY BatchAssumption
<1>3. Item(b) = chunks[n]
  BY DEF Item
<1> HIDE DEF n, chunks
<1>4. n \in 1 .. Len(chunks)
  BY <1>1, <1>2
<1>5. chunks[n] \in [chunk : Chunk, payload : Payload]
  BY <1>2, <1>4, ElementOfList
<1> QED BY <1>3, <1>5

\* Request b changes, the others stay.
BatchReqMoved(b) ==
    /\ breq' \in [BatchRequest -> BatchReqType]
    /\ \A a \in BatchRequest \ {b} : breq'[a] = breq[a]

LEMMA BGotoFrame ==
    ASSUME BatchTypeOK, NEW b \in BatchRequest, NEW l \in {"create", "reread"}, BGoto(b, l)
    PROVE  /\ BatchReqMoved(b) /\ breq'[b].pc = l
           /\ breq'[b].i = breq[b].i /\ breq'[b].pending = breq[b].pending
<1> DEFINE q == [breq[b] EXCEPT !.pc = l]
<1>1. breq \in [BatchRequest -> BatchReqType]
  BY DEF BatchTypeOK
<1>2. q \in BatchReqType /\ q.pc = l /\ q.i = breq[b].i /\ q.pending = breq[b].pending
  BY <1>1 DEF BatchReqType
<1>3. breq' = [breq EXCEPT ![b] = q]
  BY DEF BGoto
<1> HIDE DEF q
<1> QED BY <1>1, <1>2, <1>3 DEF BatchReqMoved

LEMMA BAnswerFrame ==
    ASSUME BatchTypeOK, NEW b \in BatchRequest, NEW e \in {"accepted", "conflict", "error"},
           BAnswer(b, e)
    PROVE  BatchReqMoved(b) /\ breq'[b].pc = "done" /\ breq'[b].pending = breq[b].pending
<1> DEFINE q == [breq[b] EXCEPT !.pc = "done", !.reply = e]
<1>1. breq \in [BatchRequest -> BatchReqType]
  BY DEF BatchTypeOK
<1>2. q \in BatchReqType /\ q.pc = "done" /\ q.pending = breq[b].pending
  BY <1>1 DEF BatchReqType
<1>3. breq' = [breq EXCEPT ![b] = q]
  BY DEF BAnswer
<1> HIDE DEF q
<1> QED BY <1>1, <1>2, <1>3 DEF BatchReqMoved

\* Every chunk of a list has a row after the step.
RegisteredNext(chunks) == \A k \in 1 .. Len(chunks) : row'[chunks[k]].payload # Nil

LEMMA AppendRegistered ==
    ASSUME NEW chunks \in Seq(Chunk), NEW c \in Chunk, RegisteredNext(chunks),
           row'[c].payload # Nil
    PROVE  /\ Append(chunks, c) \in Seq(Chunk) /\ Append(chunks, c) # <<>>
           /\ RegisteredNext(Append(chunks, c))
<1> DEFINE more == Append(chunks, c)
<1>1. /\ more \in Seq(Chunk) /\ Len(more) = Len(chunks) + 1 /\ Len(chunks) \in Nat
      /\ more[Len(chunks) + 1] = c
      /\ \A k \in 1 .. Len(chunks) : more[k] = chunks[k]
  OBVIOUS
<1>2. more # <<>>
  BY <1>1
<1> HIDE DEF more
<1>3. \A k \in 1 .. Len(more) : k = Len(chunks) + 1 \/ k \in 1 .. Len(chunks)
  BY <1>1
<1>4. RegisteredNext(more)
  BY <1>1, <1>3 DEF RegisteredNext
<1> QED BY <1>1, <1>2, <1>4 DEF more

\* A chunk whose row exists is listed, and the loop goes on or ends.
LEMMA CollectFrame ==
    ASSUME BatchTypeOK, NEW b \in BatchRequest, NEW s, Collect(b, s),
           breq[b].i <= Len(BatchOf[b]), row'[Item(b).chunk].payload # Nil,
           RegisteredNext(breq[b].pending)
    PROVE  BatchReqMoved(b) /\ BatchRequestInLoop(b)'
<1> DEFINE c == Item(b).chunk
           pending == IF s \in Completed THEN breq[b].pending ELSE Append(breq[b].pending, c)
           n == breq[b].i
           m == n + 1
           q == IF ~(n = Len(BatchOf[b]))
                THEN [breq[b] EXCEPT !.pc = "find", !.i = m, !.pending = pending]
                ELSE IF pending # <<>> THEN [breq[b] EXCEPT !.pc = "add", !.pending = pending]
                ELSE [breq[b] EXCEPT !.pc = "done", !.reply = "accepted"]
<1>1. breq \in [BatchRequest -> BatchReqType] /\ n \in Nat \ {0} /\ n <= Len(BatchOf[b])
  BY DEF BatchTypeOK, BatchReqType
<1>2. breq' = [breq EXCEPT ![b] = q]
  BY DEF Collect
<1>3. breq[b].pending \in Seq(Chunk) /\ c \in Chunk
  BY ItemIsChunk DEF BatchTypeOK, BatchReqType
<1>4. pending \in Seq(Chunk) /\ RegisteredNext(pending)
  BY <1>3, AppendRegistered
<1>5. Len(BatchOf[b]) \in Nat
  BY BatchAssumption
<1>m. m \in Nat \ {0} /\ (n <= Len(BatchOf[b]) /\ n # Len(BatchOf[b]) => m <= Len(BatchOf[b]))
  BY <1>1, <1>5
<1> HIDE DEF pending, n, c, m
<1>6. /\ q \in BatchReqType
      /\ q.pc \in {"find", "add", "done"}
      /\ q.pc = "find" => q.i = m /\ n # Len(BatchOf[b])
      /\ q.pc = "add" => q.pending # <<>>
      /\ q.pending \in {pending, breq[b].pending}
  <2>1. [breq[b] EXCEPT !.pc = "find", !.i = m, !.pending = pending] \in BatchReqType
    BY <1>1, <1>4, <1>m DEF BatchReqType
  <2>2. [breq[b] EXCEPT !.pc = "add", !.pending = pending] \in BatchReqType
    BY <1>1, <1>4 DEF BatchReqType
  <2>3. [breq[b] EXCEPT !.pc = "done", !.reply = "accepted"] \in BatchReqType
    BY <1>1 DEF BatchReqType
  <2> QED BY <1>1, <2>1, <2>2, <2>3 DEF BatchReqType
<1> HIDE DEF q
<1>7. breq'[b] = q /\ BatchReqMoved(b)
  BY <1>1, <1>2, <1>6 DEF BatchReqMoved
<1>8. RegisteredNext(q.pending)
  BY <1>4, <1>6
<1>9. q.pc = "find" => q.i <= Len(BatchOf[b])
  BY <1>1, <1>m, <1>6
<1> QED BY <1>6, <1>7, <1>8, <1>9 DEF BatchRequestInLoop, Registered, RegisteredNext

\* A known job q becomes n.
MovesOn(q, n) == n \in BatchJobType /\ n.state # "none" /\ n.chunks = q.chunks

LEMMA BatchJobFields ==
    ASSUME NEW q \in BatchJobType
    PROVE  /\ \A w \in Worker : MovesOn(q, [q EXCEPT !.state = "active", !.owner = w])
           /\ MovesOn(q, Unlocked(q, "completed")) /\ MovesOn(q, Unlocked(q, "failed"))
           /\ MovesOn(q, Spent(q)) /\ MovesOn(q, Redelivered(q))
<1>1. \A w \in Worker : MovesOn(q, [q EXCEPT !.state = "active", !.owner = w])
  BY DEF BatchJobType, MovesOn
<1>2. \A st \in {"waiting", "completed", "failed"} : MovesOn(q, Unlocked(q, st))
  BY DEF BatchJobType, Unlocked, MovesOn
<1>3. \A r \in BatchJobType : r.state # "none" /\ r.chunks = q.chunks =>
        /\ MovesOn(q, [r EXCEPT !.attemptsMade = @ + 1])
        /\ MovesOn(q, [r EXCEPT !.stalled = @ + 1])
  BY DEF BatchJobType, MovesOn
<1>4. \A st \in {"waiting", "completed", "failed"} :
        /\ Unlocked(q, st) \in BatchJobType /\ Unlocked(q, st).state # "none"
        /\ Unlocked(q, st).chunks = q.chunks
  BY <1>2 DEF MovesOn
<1>5. MovesOn(q, Redelivered(q))
  BY <1>3, <1>4 DEF Redelivered
<1>6. MovesOn(q, Spent(q))
  BY <1>3, <1>4 DEF Spent
<1> QED BY <1>1, <1>2, <1>5, <1>6

\* Slot w changes, the others stay.
SlotMoved(w) ==
    /\ bwk' \in [Worker -> BatchWorkerType]
    /\ \A v \in Worker \ {w} : bwk'[v] = bwk[v]

\* Slot w goes to label l at chunk n of the same list, with the same writes.
SlotStepped(w, l, n) ==
    /\ SlotMoved(w)
    /\ bwk'[w].pc = l /\ bwk'[w].i = n
    /\ bwk'[w].job = bwk[w].job /\ bwk'[w].attemptsMade = bwk[w].attemptsMade
    /\ bwk'[w].chunks = bwk[w].chunks /\ bwk'[w].pending = bwk[w].pending
    /\ bwk'[w].own = bwk[w].own /\ bwk'[w].acc = bwk[w].acc /\ bwk'[w].con = bwk[w].con

LEMMA BStepFrame ==
    ASSUME BatchTypeOK, NEW w \in Worker, NEW n \in Nat \ {0},
           NEW l \in {"load", "start", "split", "mark", "commit", "catch", "finish", "throw"},
           BStep(w, l, n)
    PROVE  SlotStepped(w, l, n)
<1> DEFINE q == [bwk[w] EXCEPT !.pc = l, !.i = n]
<1>1. bwk \in [Worker -> BatchWorkerType]
  BY DEF BatchTypeOK
<1>2. /\ q \in BatchWorkerType /\ q.pc = l /\ q.i = n /\ q.job = bwk[w].job
      /\ q.attemptsMade = bwk[w].attemptsMade /\ q.chunks = bwk[w].chunks
      /\ q.pending = bwk[w].pending /\ q.own = bwk[w].own /\ q.acc = bwk[w].acc /\ q.con = bwk[w].con
  BY <1>1 DEF BatchWorkerType
<1>3. bwk' = [bwk EXCEPT ![w] = q]
  BY DEF BStep
<1> HIDE DEF q
<1> QED BY <1>1, <1>2, <1>3 DEF SlotStepped, SlotMoved

\* The slot of a worker that has just taken the job of session s.
Taken(s) == [IdleBatch EXCEPT !.pc = "load", !.job = s, !.attemptsMade = bjob[s].attemptsMade,
                              !.chunks = bjob[s].chunks]

LEMMA IdleSlot ==
    /\ IdleBatch \in BatchWorkerType /\ IdleBatch.pc = "idle" /\ IdleBatch.i = 1
    /\ IdleBatch.pending = <<>> /\ IdleBatch.chunks = <<>>
    /\ IdleBatch.own = NoVersions /\ IdleBatch.acc = [c \in Chunk |-> {}]
<1>1. NoVersions \in [Record -> Nat]
  BY DEF NoVersions
<1>2. [c \in Chunk |-> {}] \in [Chunk -> SUBSET Record]
  OBVIOUS
<1>3. <<>> \in Seq(Chunk)
  OBVIOUS
<1> QED BY <1>1, <1>2, <1>3 DEF IdleBatch, BatchWorkerType

LEMMA TakenSlot ==
    ASSUME BatchTypeOK, NEW s \in Session
    PROVE  /\ Taken(s) \in BatchWorkerType /\ Taken(s).pc = "load" /\ Taken(s).job = s
           /\ Taken(s).i = 1 /\ Taken(s).chunks = bjob[s].chunks
           /\ Taken(s).pending = <<>> /\ Taken(s).own = NoVersions
           /\ Taken(s).acc = [c \in Chunk |-> {}]
<1> DEFINE z == IdleBatch
           n == bjob[s].attemptsMade
           chunks == bjob[s].chunks
<1>1. /\ z \in BatchWorkerType /\ z.pending = <<>>
      /\ z.i = 1 /\ z.own = NoVersions /\ z.acc = [c \in Chunk |-> {}]
  BY IdleSlot
<1>2. n \in Nat /\ chunks \in Seq(Chunk)
  BY DEF BatchTypeOK, BatchJobType
<1>3. Taken(s) = [z EXCEPT !.pc = "load", !.job = s, !.attemptsMade = n, !.chunks = chunks]
  BY DEF Taken
<1>4. chunks = bjob[s].chunks
  OBVIOUS
<1> HIDE DEF z, n, chunks
<1>5. LET q == [z EXCEPT !.pc = "load", !.job = s, !.attemptsMade = n, !.chunks = chunks]
      IN  /\ q \in BatchWorkerType /\ q.pc = "load" /\ q.job = s /\ q.i = 1
          /\ q.chunks = chunks /\ q.pending = <<>> /\ q.own = NoVersions
          /\ q.acc = [c \in Chunk |-> {}]
  BY <1>1, <1>2 DEF BatchWorkerType
<1> QED BY <1>3, <1>4, <1>5

LEMMA BRetireFrame ==
    ASSUME BatchTypeOK, NEW w \in Worker, BRetire(w)
    PROVE  /\ SlotMoved(w) /\ bwk'[w].pc = "idle"
           /\ bwk'[w].pending = <<>> /\ bwk'[w].chunks = <<>>
BY IdleSlot DEF BatchTypeOK, BRetire, SlotMoved

-----------------------------------------------------------------------------
(* Shape: types, and the loops stay within lists of chunks that have rows *)

BatchShape == Shape /\ BatchTypeOK /\ BatchInLoops /\ OneJobPerSlot

\* A row that exists keeps its payload.
RowsKept == \A c \in Chunk : row[c].payload # Nil => row'[c].payload = row[c].payload

LEMMA RegisteredKept ==
    ASSUME NEW chunks \in Seq(Chunk), Registered(chunks), RowsKept
    PROVE  RegisteredNext(chunks)
<1> SUFFICES ASSUME NEW k \in 1 .. Len(chunks) PROVE row'[chunks[k]].payload # Nil
  BY DEF RegisteredNext
<1>1. chunks[k] \in Chunk
  BY ElementOfList
<1>2. row[chunks[k]].payload # Nil
  BY DEF Registered
<1> QED BY <1>1, <1>2 DEF RowsKept

\* Who does not move in a step stays within its loop.
LEMMA InLoopsFrame ==
    ASSUME BatchTypeOK, BatchInLoops, RowsKept
    PROVE  /\ \A b \in BatchRequest : breq'[b] = breq[b] => BatchRequestInLoop(b)'
           /\ \A s \in Session : bjob'[s] = bjob[s] => BatchJobHasRows(s)'
           /\ \A w \in Worker : bwk'[w] = bwk[w] => BatchWorkerInLoop(w)'
<1>1. ASSUME NEW b \in BatchRequest, breq'[b] = breq[b] PROVE BatchRequestInLoop(b)'
  <2>1. BatchRequestInLoop(b) /\ breq[b].pending \in Seq(Chunk)
    BY DEF BatchInLoops, BatchTypeOK, BatchReqType
  <2>2. RegisteredNext(breq[b].pending)
    BY <2>1, RegisteredKept DEF BatchRequestInLoop
  <2>3. Item(b)' = Item(b)
    BY <1>1 DEF Item
  <2>4. breq[b].pc = "reread" => row'[Item(b).chunk].payload # Nil
    BY <2>1, ItemIsChunk DEF BatchRequestInLoop, RowsKept
  <2> QED BY <1>1, <2>1, <2>2, <2>3, <2>4 DEF BatchRequestInLoop, Registered, RegisteredNext
<1>2. ASSUME NEW s \in Session, bjob'[s] = bjob[s] PROVE BatchJobHasRows(s)'
  <2>1. BatchJobHasRows(s) /\ bjob[s].chunks \in Seq(Chunk)
    BY DEF BatchInLoops, BatchTypeOK, BatchJobType
  <2>2. RegisteredNext(bjob[s].chunks)
    BY <2>1, RegisteredKept DEF BatchJobHasRows
  <2> QED BY <1>2, <2>1, <2>2 DEF BatchJobHasRows, Registered, RegisteredNext
<1>3. ASSUME NEW w \in Worker, bwk'[w] = bwk[w] PROVE BatchWorkerInLoop(w)'
  <2>1. /\ BatchWorkerInLoop(w)
        /\ bwk[w].pending \in Seq(Chunk) /\ bwk[w].chunks \in Seq(Chunk)
    BY DEF BatchInLoops, BatchTypeOK, BatchWorkerType
  <2>2. RegisteredNext(bwk[w].pending) /\ RegisteredNext(bwk[w].chunks)
    BY <2>1, RegisteredKept DEF BatchWorkerInLoop
  <2> QED BY <1>3, <2>1, <2>2 DEF BatchWorkerInLoop, Registered, RegisteredNext
<1> QED BY <1>1, <1>2, <1>3

\* What a step that leaves the single push where it is must show of the rows and
\* of the data.
LEMMA ShapeFrame ==
    ASSUME Shape, RowsKept, UNCHANGED <<job, kept, req, wk, told>>, faults' \in Nat,
           row' \in [Chunk -> RowType], PayloadIffRow',
           version' \in [Record -> Nat], rowLock' \in [Record -> Worker \cup {Nil}],
           accepts' \in [Chunk -> [Record -> Nat]], conflictLog' \in [Chunk -> SUBSET Record],
           \A c \in Chunk : row'[c].payload = Nil => \A r \in Record : accepts'[c][r] = 0
    PROVE  Shape'
<1>1. TypeOK'
  BY DEF Shape, TypeOK
<1>2. \A c \in Chunk : row'[c].payload = Nil => row[c].payload = Nil
  BY DEF RowsKept
<1>3. \A c \in Chunk : JobHasRow(c)'
  BY <1>2 DEF Shape, RowsExist, JobHasRow
<1>4. \A p \in Request : RequestHasRow(p)'
  BY <1>2 DEF Shape, RowsExist, RequestHasRow
<1>5. \A w \in Worker : WorkerHasRow(w)'
  BY <1>2 DEF Shape, RowsExist, WorkerHasRow
<1> QED BY <1>1, <1>3, <1>4, <1>5 DEF Shape, RowsExist

LEMMA ShapeSameData ==
    ASSUME Shape, RowsKept, UNCHANGED <<job, kept, req, wk, told>>, faults' \in Nat,
           row' \in [Chunk -> RowType], PayloadIffRow', UNCHANGED dataVars
    PROVE  Shape'
<1>1. /\ version' \in [Record -> Nat] /\ rowLock' \in [Record -> Worker \cup {Nil}]
      /\ accepts' \in [Chunk -> [Record -> Nat]] /\ conflictLog' \in [Chunk -> SUBSET Record]
  BY DEF Shape, TypeOK
<1>2. ASSUME NEW c \in Chunk, row'[c].payload = Nil PROVE \A r \in Record : accepts'[c][r] = 0
  BY <1>2 DEF RowsKept, Shape, RowsExist, JobHasRow
<1> QED BY <1>1, <1>2, ShapeFrame

LEMMA RowsSame ==
    ASSUME Shape, UNCHANGED row
    PROVE  RowsKept /\ row' \in [Chunk -> RowType] /\ PayloadIffRow'
BY DEF Shape, TypeOK, RowsExist, PayloadIffRow, RowsKept

LEMMA RowsMovedOn ==
    ASSUME Shape, NEW c \in Chunk, NEW s \in Statuses, RowMoved(c, s), row[c].payload # Nil
    PROVE  RowsKept /\ row' \in [Chunk -> RowType] /\ PayloadIffRow'
<1>1. SameRows
  BY SameRowsMoved
<1> QED BY <1>1 DEF Shape, RowsExist, PayloadIffRow, SameRows, RowsKept

\* The steps of a batch request (enqueueBatch).
LEMMA BatchRequestShape ==
    ASSUME BatchShape, NEW b \in BatchRequest, BatchRequestNext(b) \/ BRequestFails(b)
    PROVE  BatchShape' /\ RowsKept
<1> USE DEF BatchShape
<1>t. /\ breq \in [BatchRequest -> BatchReqType] /\ row \in [Chunk -> RowType]
      /\ bjob \in [Session -> BatchJobType] /\ faults \in Nat
      /\ breq[b].pending \in Seq(Chunk) /\ breq[b].i \in Nat \ {0}
  BY DEF BatchTypeOK, BatchReqType, Shape, TypeOK
<1>w. UNCHANGED <<bwk, wk, job, kept, req, told>>
  BY DEF BatchRequestNext, BRequestFails, BFind, BCreate, BReread, BAdd, BMarkQueued
<1>b. BatchRequestInLoop(b)
  BY DEF BatchInLoops
\* It remains to look at the request, the jobs and the rows.
<1>s. ASSUME Shape', BatchReqMoved(b), BatchRequestInLoop(b)', RowsKept,
             bjob' \in [Session -> BatchJobType],
             \A s \in Session : bjob'[s] # bjob[s] => BatchJobHasRows(s)'
      PROVE  BatchShape'
  <2>1. BatchTypeOK'
    BY <1>s, <1>w DEF BatchTypeOK, BatchReqMoved
  <2>2. BatchInLoops'
    BY <1>s, <1>w, InLoopsFrame DEF BatchInLoops, BatchReqMoved
  <2>3. OneJobPerSlot'
    BY <1>w DEF OneJobPerSlot
  <2> QED BY <1>s, <2>1, <2>2, <2>3
<1>p. RowsKept => RegisteredNext(breq[b].pending)
  BY <1>t, <1>b, RegisteredKept DEF BatchRequestInLoop
<1>j. UNCHANGED bjob => bjob' \in [Session -> BatchJobType]
  BY <1>t
<1>1. CASE BFind(b)
  <2> DEFINE c == Item(b).chunk
  <2>1. UNCHANGED <<row, version, rowLock, accepts, conflictLog, faults, bjob>>
    BY <1>1 DEF BFind
  <2>2. RowsKept /\ Shape'
    BY <2>1, <1>t, <1>w, RowsSame, ShapeSameData
  <2>3. breq[b].i <= Len(BatchOf[b])
    BY <1>1, <1>b DEF BFind, BatchRequestInLoop
  <2>4. c \in Chunk
    BY <2>3, ItemIsChunk
  <2>5. BatchReqMoved(b) /\ BatchRequestInLoop(b)'
    <3>1. CASE BGoto(b, "create")
      <4>1. /\ BatchReqMoved(b) /\ breq'[b].pc = "create" /\ breq'[b].i = breq[b].i
            /\ breq'[b].pending = breq[b].pending
        BY <3>1, BGotoFrame
      <4> QED BY <4>1, <2>2, <2>3, <1>p DEF BatchRequestInLoop, Registered, RegisteredNext
    <3>2. CASE BAnswer(b, "conflict")
      <4>1. BatchReqMoved(b) /\ breq'[b].pc = "done" /\ breq'[b].pending = breq[b].pending
        BY <3>2, BAnswerFrame
      <4> QED BY <4>1, <2>2, <1>p DEF BatchRequestInLoop, Registered, RegisteredNext
    <3>3. CASE row[c].status # NoStatus /\ Collect(b, row[c].status)
      <4>1. row'[c].payload # Nil
        BY <3>3, <2>1, <2>4 DEF Shape, RowsExist, PayloadIffRow
      <4> QED BY <4>1, <3>3, <2>2, <2>3, <1>p, CollectFrame
    <3> QED BY <1>1, <3>1, <3>2, <3>3 DEF BFind
  <2> QED BY <2>1, <2>2, <2>5, <1>j, <1>s
<1>2. CASE BCreate(b)
  <2> DEFINE c == Item(b).chunk
             h == Item(b).payload
             new == [NoRow EXCEPT !.status = "PENDING", !.payload = h]
  <2>1. UNCHANGED <<version, rowLock, accepts, conflictLog, faults, bjob>>
    BY <1>2 DEF BCreate
  <2>2. breq[b].i <= Len(BatchOf[b])
    BY <1>2, <1>b DEF BCreate, BatchRequestInLoop
  <2>3. c \in Chunk /\ h \in Payload /\ h # Nil
    BY <2>2, ItemIsChunk, NilAssumption
  <2>4. new \in RowType /\ new.payload = h /\ new.status # NoStatus
    BY <2>3 DEF NoRow, RowType
  <2> HIDE DEF new
  <2>5. CASE row[c].status = NoStatus /\ row' = [row EXCEPT ![c] = new] /\ Collect(b, "PENDING")
    <3>1. row[c].payload = Nil
      BY <2>5, <2>3 DEF Shape, RowsExist, PayloadIffRow
    <3>2. row'[c] = new /\ \A d \in Chunk \ {c} : row'[d] = row[d]
      BY <2>5, <2>3, <1>t
    <3>3. row' \in [Chunk -> RowType]
      BY <2>4, <2>5, <1>t
    <3>4. RowsKept
      BY <3>1, <3>2 DEF RowsKept
    <3>5. PayloadIffRow'
      BY <3>2, <2>3, <2>4 DEF Shape, RowsExist, PayloadIffRow
    <3>6. Shape'
      BY <3>3, <3>4, <3>5, <2>1, <1>t, <1>w, ShapeSameData
    <3>7. row'[c].payload # Nil
      BY <3>2, <2>3, <2>4
    <3>8. BatchReqMoved(b) /\ BatchRequestInLoop(b)'
      BY <3>4, <3>7, <2>2, <2>5, <1>p, CollectFrame
    <3> QED BY <3>4, <3>6, <3>8, <2>1, <1>j, <1>s
  <2>6. CASE row[c].status # NoStatus /\ BGoto(b, "reread") /\ UNCHANGED row
    <3>1. RowsKept /\ Shape'
      BY <2>1, <2>6, <1>t, <1>w, RowsSame, ShapeSameData
    <3>2. /\ BatchReqMoved(b) /\ breq'[b].pc = "reread" /\ breq'[b].i = breq[b].i
          /\ breq'[b].pending = breq[b].pending
      BY <2>6, BGotoFrame
    <3>3. row'[c].payload # Nil
      BY <2>3, <2>6 DEF Shape, RowsExist, PayloadIffRow
    <3>4. Item(b)' = Item(b)
      BY <3>2 DEF Item
    <3>5. BatchRequestInLoop(b)'
      BY <3>1, <3>2, <3>3, <3>4, <2>2, <1>p DEF BatchRequestInLoop, Registered, RegisteredNext
    <3> QED BY <3>1, <3>2, <3>5, <2>1, <1>j, <1>s
  <2> QED BY <1>2, <2>5, <2>6 DEF BCreate, new
<1>3. CASE BReread(b)
  <2> DEFINE c == Item(b).chunk
  <2>1. /\ UNCHANGED <<row, version, rowLock, accepts, conflictLog, faults, bjob>>
        /\ Collect(b, row[c].status) /\ breq[b].pc = "reread"
    BY <1>3 DEF BReread
  <2>2. RowsKept /\ Shape'
    BY <2>1, <1>t, <1>w, RowsSame, ShapeSameData
  <2>3. breq[b].i <= Len(BatchOf[b]) /\ row'[c].payload # Nil
    BY <2>1, <1>b DEF BatchRequestInLoop
  <2>4. BatchReqMoved(b) /\ BatchRequestInLoop(b)'
    BY <2>1, <2>2, <2>3, <1>p, CollectFrame
  <2> QED BY <2>1, <2>2, <2>4, <1>j, <1>s
<1>4. CASE BAdd(b)
  <2> DEFINE s == SessionOf[breq[b].pending[1]]
             pending == breq[b].pending
             new == [NoBatch EXCEPT !.state = "waiting", !.chunks = pending]
             q == [breq[b] EXCEPT !.pc = "mark", !.i = 1]
  <2>1. UNCHANGED <<row, version, rowLock, accepts, conflictLog, faults>> /\ breq[b].pc = "add"
    BY <1>4 DEF BAdd
  <2>2. RowsKept /\ Shape'
    BY <2>1, <1>t, <1>w, RowsSame, ShapeSameData
  <2>3. pending # <<>> /\ pending \in Seq(Chunk) /\ RegisteredNext(pending)
    BY <2>1, <2>2, <1>t, <1>b, <1>p DEF BatchRequestInLoop
  <2>4. new \in BatchJobType /\ new.state = "waiting" /\ new.chunks = pending
    BY <2>3 DEF NoBatch, BatchJobType
  <2>5. q \in BatchReqType /\ q.pc = "mark" /\ q.i = 1 /\ q.pending = pending
    <3>1. \A z \in BatchReqType, n \in Nat \ {0} :
            LET y == [z EXCEPT !.pc = "mark", !.i = n]
            IN  y \in BatchReqType /\ y.pc = "mark" /\ y.i = n /\ y.pending = z.pending
      BY DEF BatchReqType
    <3>2. 1 \in Nat \ {0} /\ breq[b] \in BatchReqType
      BY <1>t
    <3> QED BY <3>1, <3>2
  <2>6. breq' = [breq EXCEPT ![b] = q]
    BY <1>4 DEF BAdd
  <2>7. \/ bjob[s].state = "none" /\ bjob' = [bjob EXCEPT ![s] = new]
        \/ UNCHANGED bjob
    BY <1>4 DEF BAdd
  <2>8. Len(pending) \in Nat /\ 1 <= Len(pending)
    BY <2>3
  <2> HIDE DEF new, q, pending
  <2>9. BatchReqMoved(b) /\ breq'[b] = q
    BY <1>t, <2>5, <2>6 DEF BatchReqMoved
  <2>10. BatchRequestInLoop(b)'
    BY <2>3, <2>5, <2>8, <2>9 DEF BatchRequestInLoop, Registered, RegisteredNext
  <2>11. bjob' \in [Session -> BatchJobType]
    BY <1>t, <2>4, <2>7
  <2>12. \A u \in Session : bjob'[u] # bjob[u] => bjob'[u] = new
    BY <1>t, <2>7
  <2>13. \A u \in Session : bjob'[u] # bjob[u] => BatchJobHasRows(u)'
    BY <2>3, <2>4, <2>12 DEF BatchJobHasRows, Registered, RegisteredNext
  <2> QED BY <2>2, <2>9, <2>10, <2>11, <2>13, <1>s
<1>5. CASE BMarkQueued(b)
  <2> DEFINE pending == breq[b].pending
             n == breq[b].i
             c == pending[n]
             q == [breq[b] EXCEPT !.i = n + 1]
  <2>1. UNCHANGED <<version, rowLock, accepts, conflictLog, faults, bjob>> /\ breq[b].pc = "mark"
    BY <1>5 DEF BMarkQueued
  <2>2. n \in 1 .. Len(pending)
    <3>1. Len(pending) \in Nat /\ n <= Len(pending) /\ n \in Nat \ {0}
      BY <2>1, <1>t, <1>b DEF BatchRequestInLoop
    <3> QED BY <3>1
  <2>3. c \in Chunk /\ row[c].payload # Nil
    BY <2>2, <1>t, <1>b, ElementOfList DEF BatchRequestInLoop, Registered
  <2>4. row' = [row EXCEPT ![c].status = "QUEUED"]
    BY <1>5 DEF BMarkQueued
  <2>5. RowMoved(c, "QUEUED")
    BY <2>3, <2>4, <1>t, StatusFrame
  <2>6. RowsKept /\ row' \in [Chunk -> RowType] /\ PayloadIffRow'
    BY <2>3, <2>5, RowsMovedOn
  <2>7. Shape'
    BY <2>1, <2>6, <1>t, <1>w, ShapeSameData
  <2>8. RegisteredNext(pending)
    BY <2>6, <1>p
  <2>9. CASE n < Len(pending) /\ breq' = [breq EXCEPT ![b].i = n + 1]
    <3>1. breq' = [breq EXCEPT ![b] = q]
      BY <2>9
    <3>2. /\ q \in BatchReqType /\ q.i = n + 1 /\ q.pc = "mark" /\ q.pending = pending
          /\ q.i <= Len(pending) /\ pending # <<>>
      <4>1. n + 1 \in Nat \ {0} /\ Len(pending) \in Nat /\ n + 1 <= Len(pending)
        BY <2>9, <1>t
      <4>2. pending # <<>>
        BY <4>1, <1>t
      <4> QED BY <4>1, <4>2, <2>1, <1>t DEF BatchReqType
    <3> HIDE DEF q, pending, n
    <3>3. BatchReqMoved(b) /\ breq'[b] = q
      BY <3>1, <3>2, <1>t DEF BatchReqMoved
    <3>4. BatchRequestInLoop(b)'
      BY <3>2, <3>3, <2>8 DEF BatchRequestInLoop, Registered, RegisteredNext
    <3> QED BY <3>3, <3>4, <2>1, <2>6, <2>7, <1>j, <1>s
  <2>10. CASE BAnswer(b, "accepted")
    <3>1. BatchReqMoved(b) /\ breq'[b].pc = "done" /\ breq'[b].pending = pending
      BY <2>10, BAnswerFrame
    <3>2. BatchRequestInLoop(b)'
      BY <3>1, <2>8 DEF BatchRequestInLoop, Registered, RegisteredNext
    <3> QED BY <3>1, <3>2, <2>1, <2>6, <2>7, <1>j, <1>s
  <2> QED BY <1>5, <2>6, <2>9, <2>10 DEF BMarkQueued
<1>6. CASE BRequestFails(b)
  <2>1. /\ UNCHANGED <<row, version, rowLock, accepts, conflictLog, bjob>>
        /\ BAnswer(b, "error") /\ faults' \in Nat
    BY <1>6, <1>t DEF BRequestFails, Fault
  <2>2. RowsKept /\ Shape'
    BY <2>1, <1>t, <1>w, RowsSame, ShapeSameData
  <2>3. BatchReqMoved(b) /\ breq'[b].pc = "done" /\ breq'[b].pending = breq[b].pending
    BY <2>1, BAnswerFrame
  <2>4. BatchRequestInLoop(b)'
    BY <2>2, <2>3, <1>p DEF BatchRequestInLoop, Registered, RegisteredNext
  <2> QED BY <2>1, <2>2, <2>3, <2>4, <1>j, <1>s
<1> QED BY <1>1, <1>2, <1>3, <1>4, <1>5, <1>6 DEF BatchRequestNext

\* A job that moves on keeps its chunks, and nothing else changes of the jobs.
LEMMA JobMovesOn ==
    ASSUME BatchShape, RowsKept, NEW s \in Session, NEW q, MovesOn(bjob[s], q),
           bjob[s].state # "none", bjob' = [bjob EXCEPT ![s] = q]
    PROVE  /\ bjob' \in [Session -> BatchJobType]
           /\ \A u \in Session : BatchJobHasRows(u)'
<1>1. bjob \in [Session -> BatchJobType]
  BY DEF BatchShape, BatchTypeOK
<1>2. /\ bjob' \in [Session -> BatchJobType] /\ bjob'[s] = q
      /\ q.state # "none" /\ q.chunks = bjob[s].chunks
      /\ \A u \in Session \ {s} : bjob'[u] = bjob[u]
  BY <1>1 DEF MovesOn
<1>3. \A u \in Session \ {s} : BatchJobHasRows(u)'
  BY <1>2, InLoopsFrame DEF BatchShape
<1>4. BatchJobHasRows(s)'
  <2>1. bjob[s].chunks \in Seq(Chunk) /\ BatchJobHasRows(s)
    BY <1>1 DEF BatchJobType, BatchShape, BatchInLoops
  <2>2. RegisteredNext(bjob[s].chunks)
    BY <2>1, RegisteredKept DEF BatchJobHasRows
  <2> QED BY <1>2, <2>1, <2>2 DEF BatchJobHasRows, Registered, RegisteredNext
<1> QED BY <1>2, <1>3, <1>4

\* A completed job that is forgotten has no chunks left.
LEMMA JobForgotten ==
    ASSUME BatchShape, RowsKept, NEW s \in Session, bjob' = [bjob EXCEPT ![s] = NoBatch]
    PROVE  /\ bjob' \in [Session -> BatchJobType]
           /\ \A u \in Session : BatchJobHasRows(u)'
<1>1. bjob \in [Session -> BatchJobType]
  BY DEF BatchShape, BatchTypeOK
<1>2. /\ NoBatch \in BatchJobType /\ NoBatch.state = "none"
      /\ NoBatch.chunks = <<>>
  BY DEF NoBatch, BatchJobType
<1>3. /\ bjob' \in [Session -> BatchJobType] /\ bjob'[s] = NoBatch
      /\ \A u \in Session \ {s} : bjob'[u] = bjob[u]
  BY <1>1, <1>2
<1>4. \A u \in Session \ {s} : BatchJobHasRows(u)'
  BY <1>3, InLoopsFrame DEF BatchShape
<1>5. BatchJobHasRows(s)'
  BY <1>2, <1>3 DEF BatchJobHasRows, Registered
<1> QED BY <1>3, <1>4, <1>5

LEMMA JobsSame ==
    ASSUME BatchShape, RowsKept, UNCHANGED bjob
    PROVE  /\ bjob' \in [Session -> BatchJobType]
           /\ \A u \in Session : BatchJobHasRows(u)'
<1>1. bjob' \in [Session -> BatchJobType]
  BY DEF BatchShape, BatchTypeOK
<1> QED BY <1>1, InLoopsFrame DEF BatchShape

\* What a step that leaves the batch requests where they are must show of the
\* jobs and of the slot it moves.
LEMMA BatchShapeFrame ==
    ASSUME BatchShape, Shape', RowsKept, UNCHANGED <<breq, wk>>,
           bjob' \in [Session -> BatchJobType],
           \A u \in Session : BatchJobHasRows(u)',
           bwk' \in [Worker -> BatchWorkerType],
           \A w \in Worker : bwk'[w] # bwk[w] =>
                /\ BatchWorkerInLoop(w)'
                /\ bwk'[w].pc # "idle" => wk[w].pc = "idle"
    PROVE  BatchShape'
<1>1. BatchTypeOK'
  BY DEF BatchShape, BatchTypeOK
<1>2. BatchInLoops'
  BY InLoopsFrame DEF BatchShape, BatchInLoops
<1>3. OneJobPerSlot'
  BY DEF BatchShape, OneJobPerSlot
<1> QED BY <1>1, <1>2, <1>3 DEF BatchShape

\* A slot that becomes free is in no loop.
LEMMA FreeSlot ==
    ASSUME BatchShape, NEW w \in Worker, BRetire(w)
    PROVE  /\ SlotMoved(w) /\ bwk'[w].pc = "idle"
           /\ BatchWorkerInLoop(w)'
<1>1. /\ SlotMoved(w) /\ bwk'[w].pc = "idle"
      /\ bwk'[w].pending = <<>> /\ bwk'[w].chunks = <<>>
  BY BRetireFrame DEF BatchShape
<1> QED BY <1>1 DEF BatchWorkerInLoop, Registered

\* The steps of the queue keep the shape.
LEMMA BatchQueueShape ==
    ASSUME BatchShape,
           \/ \E s \in Session : BStalled(s) \/ BForget(s)
           \/ \E w \in Worker, s \in Session : BTake(w, s)
           \/ \E w \in Worker : BFinish(w) \/ BThrow(w)
    PROVE  BatchShape' /\ RowsKept
<1>t. /\ bjob \in [Session -> BatchJobType] /\ bwk \in [Worker -> BatchWorkerType]
      /\ faults \in Nat
  BY DEF BatchShape, BatchTypeOK, Shape, TypeOK
<1>u. UNCHANGED <<row, job, kept, req, wk, told, dataVars, breq>>
  BY DEF BStalled, BForget, BTake, BFinish, BThrow
<1>f. faults' \in Nat
  <2>1. UNCHANGED faults \/ Fault("stall")
    BY DEF BStalled, BForget, BTake, BFinish, BThrow
  <2> QED BY <1>t, <2>1 DEF Fault
<1>r. RowsKept /\ Shape'
  BY <1>u, <1>f, RowsSame, ShapeSameData DEF BatchShape
<1>1. ASSUME NEW s \in Session, BStalled(s) PROVE BatchShape'
  <2>1. bjob[s].state = "active" /\ UNCHANGED bwk
    BY <1>1 DEF BStalled
  <2>2. \/ bjob' = [bjob EXCEPT ![s] = Redelivered(bjob[s])]
        \/ bjob' = [bjob EXCEPT ![s] = Unlocked(bjob[s], "failed")]
    BY <1>1 DEF BStalled
  <2>3. MovesOn(bjob[s], Redelivered(bjob[s])) /\ MovesOn(bjob[s], Unlocked(bjob[s], "failed"))
    BY <1>t, BatchJobFields
  <2>4. /\ bjob' \in [Session -> BatchJobType]
        /\ \A u \in Session : BatchJobHasRows(u)'
    BY <1>r, <2>1, <2>2, <2>3, JobMovesOn
  <2> QED BY <1>t, <1>u, <1>r, <2>1, <2>4, BatchShapeFrame
<1>2. ASSUME NEW w \in Worker, NEW s \in Session, BTake(w, s) PROVE BatchShape'
  <2> DEFINE q == [bjob[s] EXCEPT !.state = "active", !.owner = w]
             z == Taken(s)
  <2>1. /\ bjob[s].state = "waiting" /\ wk[w].pc = "idle"
        /\ bjob' = [bjob EXCEPT ![s] = q] /\ bwk' = [bwk EXCEPT ![w] = z]
    BY <1>2 DEF BTake, Taken
  <2>2. MovesOn(bjob[s], q) /\ bjob[s].state # "none"
    BY <1>t, <2>1, BatchJobFields
  <2>3. /\ z \in BatchWorkerType /\ z.pc = "load" /\ z.job = s /\ z.i = 1
        /\ z.chunks = bjob[s].chunks /\ z.pending = <<>>
    BY TakenSlot DEF BatchShape
  <2>4. /\ bjob[s].chunks # <<>> /\ bjob[s].chunks \in Seq(Chunk)
        /\ Registered(bjob[s].chunks)
    BY <1>t, <2>1 DEF BatchShape, BatchInLoops, BatchJobHasRows, BatchJobType
  <2>5. 1 <= Len(bjob[s].chunks) /\ RegisteredNext(bjob[s].chunks)
    BY <1>r, <2>4, RegisteredKept
  <2> HIDE DEF q, z
  <2>6. /\ bjob' \in [Session -> BatchJobType]
        /\ \A u \in Session : BatchJobHasRows(u)'
    BY <1>r, <2>1, <2>2, JobMovesOn
  <2>7. bwk' \in [Worker -> BatchWorkerType] /\ bwk'[w] = z /\ bjob'[s] = q
        /\ \A v \in Worker \ {w} : bwk'[v] = bwk[v]
    BY <1>t, <2>1, <2>3
  <2>8. BatchWorkerInLoop(w)'
    BY <2>3, <2>5, <2>7 DEF BatchWorkerInLoop, Registered, RegisteredNext
  <2> QED BY <1>u, <1>r, <2>1, <2>6, <2>7, <2>8, BatchShapeFrame
<1>3. ASSUME NEW w \in Worker, BFinish(w) \/ BThrow(w) PROVE BatchShape'
  <2> DEFINE s == bwk[w].job
  <2>1. bwk[w].pc # "idle" /\ BRetire(w)
    BY <1>3 DEF BFinish, BThrow
  <2>2. s \in Session
    BY <2>1 DEF BatchShape, BatchInLoops, BatchWorkerInLoop
  <2>3. \/ /\ bjob[s].state = "active"
           /\ \/ bjob' = [bjob EXCEPT ![s] = Unlocked(bjob[s], "completed")]
              \/ bjob' = [bjob EXCEPT ![s] = Spent(bjob[s])]
        \/ UNCHANGED bjob
    BY <1>3 DEF BFinish, BThrow, HoldsBatch
  <2>4. MovesOn(bjob[s], Unlocked(bjob[s], "completed")) /\ MovesOn(bjob[s], Spent(bjob[s]))
    BY <1>t, <2>2, BatchJobFields
  <2>5. /\ bjob' \in [Session -> BatchJobType]
        /\ \A u \in Session : BatchJobHasRows(u)'
    BY <1>r, <2>2, <2>3, <2>4, JobMovesOn, JobsSame
  <2>6. SlotMoved(w) /\ bwk'[w].pc = "idle" /\ BatchWorkerInLoop(w)'
    BY <2>1, FreeSlot
  <2> QED BY <1>u, <1>r, <2>5, <2>6, BatchShapeFrame DEF SlotMoved
<1>4. ASSUME NEW s \in Session, BForget(s) PROVE BatchShape'
  <2>1. bjob' = [bjob EXCEPT ![s] = NoBatch] /\ UNCHANGED bwk
    BY <1>4 DEF BForget
  <2>2. /\ bjob' \in [Session -> BatchJobType]
        /\ \A u \in Session : BatchJobHasRows(u)'
    BY <1>r, <2>1, JobForgotten
  <2> QED BY <1>t, <1>u, <1>r, <2>1, <2>2, BatchShapeFrame
<1> QED BY <1>r, <1>1, <1>2, <1>3, <1>4

\* A worker that loads its rows: the chunk it is at is listed unless its row is
\* completed.
LEMMA BLoadFrame ==
    ASSUME BatchShape, NEW w \in Worker, BLoad(w)
    PROVE  LET chunks == bwk[w].chunks
               c == chunks[bwk[w].i]
           IN  /\ c \in Chunk
               /\ SlotMoved(w)
               /\ bwk'[w].pc \in {"load", "start", "finish"}
               /\ bwk'[w].job = bwk[w].job /\ bwk'[w].chunks = chunks
               /\ bwk'[w].own = bwk[w].own /\ bwk'[w].acc = bwk[w].acc
               /\ bwk'[w].pc # "finish" =>
                    bwk'[w].pending = IF row[c].status \in Completed THEN bwk[w].pending
                                      ELSE Append(bwk[w].pending, c)
               /\ bwk'[w].pc = "load" => bwk'[w].i = bwk[w].i + 1 /\ bwk[w].i < Len(chunks)
               /\ bwk'[w].pc # "load" => bwk[w].i = Len(chunks) /\ bwk'[w].i = 1
               /\ bwk'[w].pc = "start" => bwk'[w].pending # <<>>
               /\ bwk'[w].pc = "finish" =>
                    row[c].status \in Completed /\ bwk[w].pending = <<>> /\ bwk'[w].pending = <<>>
<1> DEFINE chunks == bwk[w].chunks
           n == bwk[w].i
           m == n + 1
           c == chunks[n]
           pending == IF row[c].status \in Completed THEN bwk[w].pending
                      ELSE Append(bwk[w].pending, c)
           q == IF n < Len(chunks) THEN [bwk[w] EXCEPT !.i = m, !.pending = pending]
                ELSE IF pending # <<>>
                     THEN [bwk[w] EXCEPT !.pc = "start", !.i = 1, !.pending = pending]
                ELSE [bwk[w] EXCEPT !.pc = "finish", !.i = 1]
<1>1. bwk \in [Worker -> BatchWorkerType]
  BY DEF BatchShape, BatchTypeOK
<1>2. bwk[w].pc = "load" /\ bwk[w].job \in Session /\ n <= Len(chunks)
  BY DEF BLoad, BatchShape, BatchInLoops, BatchWorkerInLoop
<1>3. /\ chunks \in Seq(Chunk) /\ Len(chunks) \in Nat /\ n \in Nat \ {0} /\ m \in Nat \ {0}
      /\ bwk[w].pending \in Seq(Chunk)
  BY <1>1, <1>2 DEF BatchWorkerType
<1>4. c \in Chunk
  <2>1. n \in 1 .. Len(chunks)
    BY <1>2, <1>3
  <2> QED BY <1>3, <2>1, ElementOfList
<1>5. bwk' = [bwk EXCEPT ![w] = q]
  BY DEF BLoad
<1>k. chunks = bwk[w].chunks
  OBVIOUS
<1> HIDE DEF chunks, c
<1>6. /\ pending \in Seq(Chunk)
      /\ pending = <<>> => bwk[w].pending = <<>> /\ row[c].status \in Completed
  <2>1. Append(bwk[w].pending, c) # <<>> /\ Append(bwk[w].pending, c) \in Seq(Chunk)
    BY <1>3, <1>4
  <2> QED BY <1>3, <2>1
<1> HIDE DEF pending, n, m
<1>7. /\ q \in BatchWorkerType /\ q.job = bwk[w].job /\ q.chunks = bwk[w].chunks
      /\ q.own = bwk[w].own /\ q.acc = bwk[w].acc
      /\ q.pc # "finish" => q.pending = pending
      /\ q.pc = "finish" => pending = <<>> /\ q.pending = bwk[w].pending
      /\ n < Len(chunks) => q.pc = "load" /\ q.i = m
      /\ ~(n < Len(chunks)) => q.i = 1 /\ q.pc \in {"start", "finish"}
      /\ q.pc = "start" => q.pending # <<>>
  <2>1. CASE n < Len(chunks)
    BY <2>1, <1>1, <1>2, <1>3, <1>6 DEF BatchWorkerType
  <2>2. CASE ~(n < Len(chunks))
    <3>1. 1 \in Nat \ {0}
      OBVIOUS
    <3>2. CASE pending # <<>>
      BY <2>2, <3>1, <3>2, <1>1, <1>6 DEF BatchWorkerType
    <3>3. CASE pending = <<>>
      BY <2>2, <3>1, <3>3, <1>1, <1>6 DEF BatchWorkerType
    <3> QED BY <3>2, <3>3
  <2> QED BY <2>1, <2>2
<1> HIDE DEF q
<1>8. bwk'[w] = q /\ SlotMoved(w)
  BY <1>1, <1>5, <1>7 DEF SlotMoved
<1>9. ~(n < Len(chunks)) => n = Len(chunks)
  BY <1>2, <1>3 DEF n
<1>10. q.pc = "load" => n < Len(chunks) /\ q.i = m
  BY <1>7
<1>11. q.pc \in {"load", "start", "finish"}
  BY <1>7
<1>12. q.pc # "load" => n = Len(chunks) /\ q.i = 1
  BY <1>7, <1>9
<1>13. /\ q.pc # "finish" => q.pending = pending
       /\ q.pc = "finish" =>
            row[c].status \in Completed /\ bwk[w].pending = <<>> /\ q.pending = <<>>
  BY <1>6, <1>7
<1> QED BY <1>k, <1>4, <1>7, <1>8, <1>10, <1>11, <1>12, <1>13 DEF c, pending, chunks, n, m

\* The chunk a worker is at in its loop has a row.
LEMMA AtChunk ==
    ASSUME BatchShape, NEW w \in Worker,
           bwk[w].pc \in {"start", "split", "mark", "commit", "catch"}
    PROVE  /\ Current(w) \in Chunk
           /\ row[Current(w)].payload \in Payload /\ row[Current(w)].payload # Nil
           /\ bwk[w].i \in 1 .. Len(bwk[w].pending)
           /\ bwk[w].pending \in Seq(Chunk)
           /\ ~IsLast(w) => bwk[w].i + 1 \in 1 .. Len(bwk[w].pending)
<1> DEFINE pending == bwk[w].pending
           n == bwk[w].i
<1>1. /\ pending \in Seq(Chunk) /\ n \in Nat \ {0} /\ n <= Len(pending)
      /\ Registered(pending) /\ row \in [Chunk -> RowType]
  BY DEF BatchShape, BatchTypeOK, BatchWorkerType, BatchInLoops, BatchWorkerInLoop, Shape, TypeOK
<1>2. Current(w) = pending[n] /\ (IsLast(w) <=> n = Len(pending))
  BY DEF Current, IsLast
<1> HIDE DEF pending, n
<1>3. Len(pending) \in Nat /\ n \in 1 .. Len(pending)
  BY <1>1
<1>4. pending[n] \in Chunk /\ row[pending[n]].payload # Nil
  BY <1>1, <1>3, ElementOfList DEF Registered
<1>5. row[pending[n]].payload \in Payload
  BY <1>1, <1>4 DEF RowType
<1>6. ~IsLast(w) => n + 1 \in 1 .. Len(pending)
  BY <1>1, <1>2, <1>3
<1> QED BY <1>1, <1>2, <1>3, <1>4, <1>5, <1>6 DEF pending, n

\* A worker that steps on within its list, or leaves the loop, is in its loop.
LEMMA SteppedInLoop ==
    ASSUME BatchShape, RowsKept, NEW w \in Worker, bwk[w].pc # "idle",
           NEW l, NEW n, SlotStepped(w, l, n),
           \/ l \in {"finish", "throw"}
           \/ l \in {"split", "start", "mark", "commit", "catch"} /\ n <= Len(bwk[w].pending)
    PROVE  BatchWorkerInLoop(w)'
<1>1. /\ BatchWorkerInLoop(w)
      /\ bwk[w].pending \in Seq(Chunk) /\ bwk[w].chunks \in Seq(Chunk)
  BY DEF BatchShape, BatchInLoops, BatchTypeOK, BatchWorkerType
<1>2. RegisteredNext(bwk[w].pending) /\ RegisteredNext(bwk[w].chunks)
  BY <1>1, RegisteredKept DEF BatchWorkerInLoop
<1>3. bwk[w].job \in Session
  BY <1>1 DEF BatchWorkerInLoop
<1> QED BY <1>2, <1>3 DEF SlotStepped, BatchWorkerInLoop, Registered, RegisteredNext

\* What the split of a batch reads and accepts, and the writes it leaves.
SplitRows(w) ==
    {r \in Touches[row[Current(w)].payload] :
        row[Current(w)].payload \notin Blind /\ Visible(w, r) > 0}
SplitSeen(w) == [r \in Record |-> IF r \in SplitRows(w) THEN Visible(w, r) ELSE 0]
SplitAcc(w)  == AcceptedOf(row[Current(w)].payload, SplitSeen(w))
SplitCon(w)  == ConflictedOf(row[Current(w)].payload, SplitSeen(w))

BSplitEffect(w) ==
    LET c == Current(w)
    IN  /\ SlotMoved(w)
        /\ bwk'[w].pc = "mark" /\ bwk'[w].i = bwk[w].i /\ bwk'[w].job = bwk[w].job
        /\ bwk'[w].chunks = bwk[w].chunks /\ bwk'[w].pending = bwk[w].pending
        /\ row[c].payload \in Blind => bwk'[w].own = bwk[w].own
        /\ row[c].payload \notin Blind => \A r \in Record :
                bwk'[w].own[r] = IF r \in SplitAcc(w) THEN SplitSeen(w)[r] + 1 ELSE bwk[w].own[r]
        /\ bwk'[w].acc[c] = bwk[w].acc[c] \cup SplitAcc(w)
        /\ bwk'[w].con[c] = SplitCon(w)
        /\ \A d \in Chunk \ {c} : bwk'[w].acc[d] = bwk[w].acc[d] /\ bwk'[w].con[d] = bwk[w].con[d]
        /\ \A r \in SplitRows(w) : rowLock[r] \in {Nil, w}
        /\ \A r \in Record : rowLock'[r] = IF r \in SplitRows(w) THEN w ELSE rowLock[r]
        /\ rowLock' \in [Record -> Worker \cup {Nil}]

LEMMA VisibleIsVersion ==
    ASSUME BatchShape, NEW w \in Worker, NEW r \in Record
    PROVE  Visible(w, r) \in Nat
BY DEF BatchShape, BatchTypeOK, BatchWorkerType, Shape, TypeOK, Visible

LEMMA SplitTypes ==
    ASSUME BatchShape, NEW w \in Worker, bwk[w].pc \in {"split", "mark"}
    PROVE  /\ SplitSeen(w) \in [Record -> Nat] /\ SplitRows(w) \in SUBSET Record
           /\ SplitAcc(w) \in SUBSET Record /\ SplitCon(w) \in SUBSET Record
           /\ Touches[row[Current(w)].payload] = SplitAcc(w) \cup SplitCon(w)
<1> DEFINE h == row[Current(w)].payload
<1>1. h \in Payload
  BY AtChunk
<1>2. SplitSeen(w) \in [Record -> Nat]
  BY VisibleIsVersion DEF SplitSeen
<1>3. SplitRows(w) \in SUBSET Record
  BY <1>1, TouchesAssumption DEF SplitRows
<1>4. SplitAcc(w) \in SUBSET Record /\ SplitCon(w) \in SUBSET Record
  BY <1>1, <1>2, PayloadData DEF SplitAcc, SplitCon
<1>5. Touches[h] = SplitAcc(w) \cup SplitCon(w)
  BY DEF SplitAcc, SplitCon, ConflictedOf, AcceptedOf
<1> QED BY <1>2, <1>3, <1>4, <1>5

LEMMA BSplitDoes == ASSUME BatchShape, NEW w \in Worker, BSplit(w) PROVE BSplitEffect(w)
<1> DEFINE c == Current(w)
           h == row[c].payload
           own == bwk[w].own
           rows == SplitRows(w)
           seen == SplitSeen(w)
           accepted == SplitAcc(w)
           conflicted == SplitCon(w)
           nown == IF h \in Blind THEN own
                   ELSE [r \in Record |-> IF r \in accepted THEN seen[r] + 1 ELSE own[r]]
           nacc == [bwk[w].acc EXCEPT ![c] = bwk[w].acc[c] \cup accepted]
           ncon == [bwk[w].con EXCEPT ![c] = conflicted]
           q == [bwk[w] EXCEPT !.pc = "mark", !.own = nown, !.acc = nacc, !.con = ncon]
<1>0. bwk[w].pc = "split"
  BY DEF BSplit
<1>1. bwk \in [Worker -> BatchWorkerType] /\ rowLock \in [Record -> Worker \cup {Nil}]
  BY DEF BatchShape, BatchTypeOK, Shape, TypeOK
<1>2. c \in Chunk
  BY <1>0, AtChunk
<1>r. rows = IF h \in Blind THEN {} ELSE {r \in Touches[h] : Visible(w, r) > 0}
  BY DEF SplitRows
<1>3. /\ \A r \in rows : rowLock[r] \in {Nil, w}
      /\ rowLock' = [r \in Record |-> IF r \in rows THEN w ELSE rowLock[r]]
      /\ bwk' = [bwk EXCEPT ![w] = q]
  BY <1>r DEF BSplit, SplitSeen, SplitAcc, SplitCon
<1>4. seen \in [Record -> Nat] /\ accepted \in SUBSET Record /\ conflicted \in SUBSET Record
  BY <1>0, SplitTypes
<1> HIDE DEF c, h, rows, seen, accepted, conflicted
<1>5. own \in [Record -> Nat] /\ bwk[w].acc \in [Chunk -> SUBSET Record]
      /\ bwk[w].con \in [Chunk -> SUBSET Record]
  BY <1>1 DEF BatchWorkerType
<1>6. /\ nown \in [Record -> Nat]
      /\ h \in Blind => nown = own
      /\ h \notin Blind =>
            \A r \in Record : nown[r] = IF r \in accepted THEN seen[r] + 1 ELSE own[r]
  BY <1>4, <1>5
<1>7. /\ nacc \in [Chunk -> SUBSET Record] /\ nacc[c] = bwk[w].acc[c] \cup accepted
      /\ \A d \in Chunk \ {c} : nacc[d] = bwk[w].acc[d]
  BY <1>2, <1>4, <1>5
<1>8. /\ ncon \in [Chunk -> SUBSET Record] /\ ncon[c] = conflicted
      /\ \A d \in Chunk \ {c} : ncon[d] = bwk[w].con[d]
  BY <1>2, <1>4, <1>5
<1> HIDE DEF own, nown, nacc, ncon
<1>9. /\ q \in BatchWorkerType /\ q.pc = "mark" /\ q.i = bwk[w].i /\ q.job = bwk[w].job
      /\ q.chunks = bwk[w].chunks
      /\ q.pending = bwk[w].pending /\ q.own = nown /\ q.acc = nacc /\ q.con = ncon
  <2> DEFINE z == bwk[w]
  <2>1. z \in BatchWorkerType
    BY <1>1
  <2>2. z = [pc |-> z.pc, job |-> z.job, attemptsMade |-> z.attemptsMade,
             chunks |-> z.chunks, i |-> z.i, pending |-> z.pending, own |-> z.own, acc |-> z.acc, con |-> z.con]
    BY <2>1 DEF BatchWorkerType
  <2>3. /\ z.job \in Session \cup {Nil} /\ z.attemptsMade \in Nat /\ z.i \in Nat \ {0}
        /\ z.pending \in Seq(Chunk) /\ z.chunks \in Seq(Chunk)
    BY <2>1 DEF BatchWorkerType
  <2>4. q = [pc |-> "mark", job |-> z.job, attemptsMade |-> z.attemptsMade,
             chunks |-> z.chunks, i |-> z.i, pending |-> z.pending, own |-> nown, acc |-> nacc, con |-> ncon]
    <3> HIDE DEF z
    <3>1. q = [z EXCEPT !.pc = "mark", !.own = nown, !.acc = nacc, !.con = ncon]
      BY DEF z
    <3> HIDE DEF q
    <3> QED BY <2>2, <3>1
  <2> HIDE DEF z, q
  <2>5. q \in BatchWorkerType
    BY <1>6, <1>7, <1>8, <2>3, <2>4 DEF BatchWorkerType
  <2> QED BY <2>4, <2>5 DEF z
<1> HIDE DEF q
<1>10. SlotMoved(w) /\ bwk'[w] = q
  BY <1>1, <1>3, <1>9 DEF SlotMoved
<1>11. /\ rowLock' \in [Record -> Worker \cup {Nil}]
       /\ \A r \in Record : rowLock'[r] = IF r \in rows THEN w ELSE rowLock[r]
  BY <1>1, <1>3
<1> QED BY <1>3, <1>6, <1>7, <1>8, <1>9, <1>10, <1>11
        DEF BSplitEffect, c, h, own, rows, seen, accepted, conflicted

\* What a commit of a batch writes.
BCommitEffect(w) ==
    /\ \A r \in Record : version'[r] = Visible(w, r)
    /\ \A c \in Chunk, r \in Record :
        accepts'[c][r] = IF r \in bwk[w].acc[c] THEN accepts[c][r] + 1 ELSE accepts[c][r]
    /\ \A c \in Chunk : conflictLog'[c] = conflictLog[c] \cup bwk[w].con[c]
    /\ version' \in [Record -> Nat]
    /\ accepts' \in [Chunk -> [Record -> Nat]]
    /\ conflictLog' \in [Chunk -> SUBSET Record]

LEMMA BCommitDoes == ASSUME BatchShape, NEW w \in Worker, BCommit(w) PROVE BCommitEffect(w)
<1>1. /\ accepts \in [Chunk -> [Record -> Nat]] /\ conflictLog \in [Chunk -> SUBSET Record]
      /\ bwk[w].acc \in [Chunk -> SUBSET Record] /\ bwk[w].con \in [Chunk -> SUBSET Record]
  BY DEF BatchShape, BatchTypeOK, BatchWorkerType, Shape, TypeOK
<1>2. /\ version' = [r \in Record |-> Visible(w, r)]
      /\ accepts' = [c \in Chunk |-> [r \in Record |->
            IF r \in bwk[w].acc[c] THEN accepts[c][r] + 1 ELSE accepts[c][r]]]
      /\ conflictLog' = [c \in Chunk |-> conflictLog[c] \cup bwk[w].con[c]]
  BY DEF BCommit
<1>3. version' \in [Record -> Nat] /\ \A r \in Record : version'[r] = Visible(w, r)
  BY <1>2, VisibleIsVersion
<1>4. /\ accepts' \in [Chunk -> [Record -> Nat]]
      /\ \A c \in Chunk, r \in Record :
            accepts'[c][r] = IF r \in bwk[w].acc[c] THEN accepts[c][r] + 1 ELSE accepts[c][r]
  BY <1>1, <1>2
<1>5. /\ conflictLog' \in [Chunk -> SUBSET Record]
      /\ \A c \in Chunk : conflictLog'[c] = conflictLog[c] \cup bwk[w].con[c]
  BY <1>1, <1>2
<1> QED BY <1>3, <1>4, <1>5 DEF BCommitEffect

\* The loop of a worker over its chunks: on to the next one, or to another loop.
LEMMA LoopFrame ==
    ASSUME BatchShape, NEW w \in Worker,
           bwk[w].pc \in {"start", "split", "mark", "commit", "catch"},
           NEW l \in {"split", "commit", "throw"}, NEW m \in {"start", "split", "catch"},
           IF IsLast(w) THEN BStep(w, l, 1) ELSE BStep(w, m, bwk[w].i + 1)
    PROVE  \/ IsLast(w) /\ SlotStepped(w, l, 1)
           \/ ~IsLast(w) /\ SlotStepped(w, m, bwk[w].i + 1)
<1>1. BatchTypeOK
  BY DEF BatchShape
<1>2. bwk[w].i \in Nat /\ bwk[w].i + 1 \in Nat \ {0} /\ 1 \in Nat \ {0}
  BY <1>1 DEF BatchTypeOK, BatchWorkerType
<1>3. IsLast(w) => BStep(w, l, 1)
  OBVIOUS
<1>4. ~IsLast(w) => BStep(w, m, bwk[w].i + 1)
  OBVIOUS
<1>5. IsLast(w) => SlotStepped(w, l, 1)
  BY <1>1, <1>2, <1>3, BStepFrame
<1>6. ~IsLast(w) => SlotStepped(w, m, bwk[w].i + 1)
  BY <1>1, <1>2, <1>4, BStepFrame
<1> QED BY <1>5, <1>6

\* A step of process() of slot w: what it leaves alone.
ProcessStep(w) ==
    \/ BLoad(w) \/ BMarkProcessing(w) \/ BSplit(w) \/ BMarkCompleted(w) \/ BCommit(w)
    \/ BTxFails(w) \/ BMarkFailed(w) \/ BOutboxFails(w) \/ BCrash(w)

\* The result that markCompleted of a batch writes.
BResult(w) ==
    LET c == Current(w)
        con == bwk[w].con[c]
    IN  /\ RowMoved(c, IF con = {} THEN "COMPLETED" ELSE "COMPLETED_WITH_CONFLICTS")
        /\ row'[c].conflicted = con

LEMMA BMarkCompletedRow == ASSUME BatchShape, NEW w \in Worker, BMarkCompleted(w) PROVE BResult(w)
<1> DEFINE c == Current(w)
           h == row[c].payload
           con == bwk[w].con[c]
           s == IF con = {} THEN "COMPLETED" ELSE "COMPLETED_WITH_CONFLICTS"
           shown == IF h \in Blind THEN {} ELSE Touches[h] \ con
<1>1. c \in Chunk /\ h \in Payload
  BY AtChunk DEF BMarkCompleted
<1>2. row \in [Chunk -> RowType] /\ con \in SUBSET Record /\ s \in Statuses
  BY <1>1 DEF BatchShape, Shape, TypeOK, BatchTypeOK, BatchWorkerType
<1>3. shown \in SUBSET Record
  BY <1>1, TouchesAssumption
<1>4. row' = [row EXCEPT ![c] = [@ EXCEPT !.status = s, !.accepted = shown, !.conflicted = con]]
  BY DEF BMarkCompleted
<1> HIDE DEF c, h, con, s, shown
<1>5. RowMoved(c, s)
  BY <1>1, <1>2, <1>3, <1>4, ResultFrame
<1>6. row'[c].conflicted = con
  <2> DEFINE q == [row[c] EXCEPT !.status = s, !.accepted = shown, !.conflicted = con]
  <2>1. q.conflicted = con
    BY <1>1, <1>2 DEF RowType
  <2>2. row' = [row EXCEPT ![c] = q]
    BY <1>4
  <2> HIDE DEF q
  <2> QED BY <1>1, <1>2, <2>1, <2>2
<1> QED BY <1>5, <1>6 DEF BResult, c, con, s

\* Which rows a step of process() moves, and to what status.
LEMMA ProcessRows ==
    ASSUME BatchShape, NEW w \in Worker, ProcessStep(w)
    PROVE  /\ \/ UNCHANGED row
              \/ /\ BMarkProcessing(w) \/ BMarkCompleted(w) \/ BMarkFailed(w)
                 /\ bwk[w].pc \in {"start", "mark", "catch"}
                 /\ \E s \in Statuses : RowMoved(Current(w), s)
           /\ RowsKept /\ row' \in [Chunk -> RowType] /\ PayloadIffRow'
<1> USE DEF BatchShape
<1>t. row \in [Chunk -> RowType]
  BY DEF Shape, TypeOK
<1>1. ASSUME BMarkProcessing(w) \/ BMarkFailed(w)
      PROVE  /\ \E s \in Statuses : RowMoved(Current(w), s)
             /\ bwk[w].pc \in {"start", "catch"}
  <2>1. Current(w) \in Chunk /\ bwk[w].pc \in {"start", "catch"}
    BY <1>1, AtChunk DEF BMarkProcessing, BMarkFailed
  <2>2. PICK s \in {"PROCESSING", "DEAD_LETTER", "FAILED"} :
            row' = [row EXCEPT ![Current(w)].status = s]
    BY <1>1 DEF BMarkProcessing, BMarkFailed
  <2>3. s \in Statuses
    OBVIOUS
  <2>4. RowMoved(Current(w), s)
    BY <1>t, <2>1, <2>2, <2>3, StatusFrame
  <2> QED BY <2>1, <2>3, <2>4
<1>2. ASSUME BMarkCompleted(w)
      PROVE  (\E s \in Statuses : RowMoved(Current(w), s)) /\ bwk[w].pc = "mark"
  BY <1>2, BMarkCompletedRow DEF BResult, BMarkCompleted
<1>3. \/ UNCHANGED row
      \/ BMarkProcessing(w) \/ BMarkCompleted(w) \/ BMarkFailed(w)
  BY DEF ProcessStep, BLoad, BSplit, BCommit, BTxFails, BOutboxFails, BCrash
<1>4. \/ UNCHANGED row
      \/ /\ BMarkProcessing(w) \/ BMarkCompleted(w) \/ BMarkFailed(w)
         /\ bwk[w].pc \in {"start", "mark", "catch"}
         /\ \E s \in Statuses : RowMoved(Current(w), s)
  BY <1>1, <1>2, <1>3
<1>5. RowsKept /\ row' \in [Chunk -> RowType] /\ PayloadIffRow'
  <2>1. CASE UNCHANGED row
    BY <2>1, RowsSame
  <2>2. ASSUME NEW s \in Statuses, RowMoved(Current(w), s),
               bwk[w].pc \in {"start", "mark", "catch"}
        PROVE  RowsKept /\ row' \in [Chunk -> RowType] /\ PayloadIffRow'
    <3>1. Current(w) \in Chunk /\ row[Current(w)].payload # Nil
      BY <2>2, AtChunk
    <3> QED BY <2>2, <3>1, RowsMovedOn
  <2> QED BY <1>4, <2>1, <2>2
<1> QED BY <1>4, <1>5

\* How a slot at process() moves: only the split writes to its transaction, and
\* that is open from the first split on.
ProcessMove(w) ==
    /\ SlotMoved(w) /\ BatchWorkerInLoop(w)'
    /\ bwk'[w].pc \in {"load", "start"} =>
        /\ bwk[w].pc \in {"load", "start"}
        /\ bwk'[w].own = bwk[w].own /\ bwk'[w].acc = bwk[w].acc
    /\ InTx(w)' /\ ~BSplit(w) =>
        /\ BMarkProcessing(w) \/ BMarkCompleted(w)
        /\ bwk[w].pc \in {"start", "mark"}
        /\ bwk'[w].own = bwk[w].own /\ bwk'[w].acc = bwk[w].acc

LEMMA LoadMoves ==
    ASSUME BatchShape, NEW w \in Worker, BLoad(w), RowsKept
    PROVE  ProcessMove(w)
<1> DEFINE chunks == bwk[w].chunks
           n == bwk[w].i
           c == chunks[n]
           pending == IF row[c].status \in Completed THEN bwk[w].pending
                      ELSE Append(bwk[w].pending, c)
<1>1. /\ bwk[w].pc = "load" /\ bwk[w].job \in Session /\ UNCHANGED row
      /\ n \in Nat \ {0} /\ n <= Len(chunks)
  BY DEF BLoad, BatchShape, BatchInLoops, BatchWorkerInLoop, BatchTypeOK, BatchWorkerType
<1>2. chunks \in Seq(Chunk) /\ bwk[w].pending \in Seq(Chunk) /\ Registered(chunks)
      /\ Registered(bwk[w].pending)
  BY <1>1 DEF BatchShape, BatchInLoops, BatchWorkerInLoop, BatchTypeOK, BatchWorkerType
<1>3. /\ c \in Chunk /\ SlotMoved(w) /\ bwk'[w].pc \in {"load", "start", "finish"}
      /\ bwk'[w].chunks = chunks /\ bwk'[w].job = bwk[w].job /\ bwk'[w].own = bwk[w].own /\ bwk'[w].acc = bwk[w].acc
      /\ bwk'[w].pc # "finish" => bwk'[w].pending = pending
      /\ bwk'[w].pc = "load" => bwk'[w].i = n + 1 /\ n < Len(chunks)
      /\ bwk'[w].pc # "load" => bwk'[w].i = 1
      /\ bwk'[w].pc = "start" => bwk'[w].pending # <<>>
      /\ bwk'[w].pc = "finish" => bwk'[w].pending = <<>>
  BY BLoadFrame
<1>4. RegisteredNext(bwk[w].pending) /\ RegisteredNext(chunks)
  BY <1>2, RegisteredKept
<1>5. row'[c].payload # Nil
  <2>1. n \in 1 .. Len(chunks)
    BY <1>1, <1>2
  <2> QED BY <1>4, <2>1 DEF RegisteredNext
<1> HIDE DEF c
<1>6. pending \in Seq(Chunk) /\ RegisteredNext(pending)
  <2>1. /\ Append(bwk[w].pending, c) \in Seq(Chunk)
        /\ RegisteredNext(Append(bwk[w].pending, c))
    BY <1>2, <1>3, <1>4, <1>5, AppendRegistered
  <2> QED BY <1>2, <1>4, <2>1
<1> HIDE DEF pending
<1>7. bwk'[w].pc = "load" => bwk'[w].i <= Len(chunks)
  <2>1. Len(chunks) \in Nat
    BY <1>2
  <2> HIDE DEF chunks
  <2> QED BY <1>1, <1>3, <2>1
<1>8. bwk'[w].pc = "start" => bwk'[w].i <= Len(bwk'[w].pending)
  <2>1. pending # <<>> => 1 <= Len(pending)
    BY <1>6
  <2> QED BY <1>3, <2>1
<1>9. RegisteredNext(bwk'[w].pending)
  BY <1>3, <1>6 DEF RegisteredNext
<1>10. BatchWorkerInLoop(w)'
  BY <1>1, <1>3, <1>4, <1>7, <1>8, <1>9 DEF BatchWorkerInLoop, Registered, RegisteredNext
<1> QED BY <1>1, <1>3, <1>10 DEF ProcessMove, InTx

LEMMA ProcessMoves ==
    ASSUME BatchShape, NEW w \in Worker, ProcessStep(w), RowsKept
    PROVE  ProcessMove(w)
<1>t. BatchTypeOK /\ 1 \in Nat \ {0}
  BY DEF BatchShape
<1>1. CASE BLoad(w)
  BY <1>1, LoadMoves
<1>2. ASSUME NEW l \in {"split", "commit", "throw"}, NEW m \in {"start", "split", "catch"},
             bwk[w].pc \in {"start", "mark", "catch"},
             IF IsLast(w) THEN BStep(w, l, 1) ELSE BStep(w, m, bwk[w].i + 1)
      PROVE  /\ SlotMoved(w) /\ BatchWorkerInLoop(w)'
             /\ bwk'[w].pc \in {l, m}
             /\ bwk'[w].own = bwk[w].own /\ bwk'[w].acc = bwk[w].acc
  <2>1. \/ SlotStepped(w, l, 1)
        \/ ~IsLast(w) /\ SlotStepped(w, m, bwk[w].i + 1)
    BY <1>2, LoopFrame
  <2>2. /\ 1 <= Len(bwk[w].pending)
        /\ ~IsLast(w) => bwk[w].i + 1 <= Len(bwk[w].pending)
    <3>1. /\ bwk[w].i \in 1 .. Len(bwk[w].pending)
          /\ ~IsLast(w) => bwk[w].i + 1 \in 1 .. Len(bwk[w].pending)
      BY <1>2, AtChunk
    <3> QED BY <3>1
  <2>3. bwk[w].pc # "idle"
    BY <1>2
  <2>4. CASE SlotStepped(w, l, 1)
    <3>1. BatchWorkerInLoop(w)'
      BY <2>2, <2>3, <2>4, SteppedInLoop
    <3> QED BY <2>4, <3>1 DEF SlotStepped
  <2>5. CASE ~IsLast(w) /\ SlotStepped(w, m, bwk[w].i + 1)
    <3> DEFINE n == bwk[w].i + 1
    <3>1. SlotStepped(w, m, n) /\ n <= Len(bwk[w].pending)
      BY <2>2, <2>5
    <3> HIDE DEF n
    <3>2. BatchWorkerInLoop(w)'
      BY <2>3, <3>1, SteppedInLoop
    <3> QED BY <3>1, <3>2 DEF SlotStepped
  <2> QED BY <2>1, <2>4, <2>5
<1>3. CASE BMarkProcessing(w)
  <2>1. /\ bwk[w].pc = "start"
        /\ IF IsLast(w) THEN BStep(w, "split", 1) ELSE BStep(w, "start", bwk[w].i + 1)
    BY <1>3 DEF BMarkProcessing
  <2> QED BY <2>1, <1>2, <1>3 DEF ProcessMove
<1>4. CASE BMarkCompleted(w)
  <2>1. /\ bwk[w].pc = "mark"
        /\ IF IsLast(w) THEN BStep(w, "commit", 1) ELSE BStep(w, "split", bwk[w].i + 1)
    BY <1>4 DEF BMarkCompleted
  <2> QED BY <2>1, <1>2, <1>4 DEF ProcessMove
<1>5. CASE BMarkFailed(w)
  <2>1. /\ bwk[w].pc = "catch"
        /\ IF IsLast(w) THEN BStep(w, "throw", 1) ELSE BStep(w, "catch", bwk[w].i + 1)
    BY <1>5 DEF BMarkFailed
  <2> QED BY <2>1, <1>2 DEF ProcessMove, InTx
<1>6. CASE BSplit(w)
  <2>1. BSplitEffect(w) /\ bwk[w].pc = "split"
    BY <1>6, BSplitDoes DEF BSplit
  <2>2. /\ BatchWorkerInLoop(w)
        /\ bwk[w].pending \in Seq(Chunk) /\ bwk[w].chunks \in Seq(Chunk)
    BY <1>t DEF BatchShape, BatchInLoops, BatchTypeOK, BatchWorkerType
  <2>3. RegisteredNext(bwk[w].pending) /\ RegisteredNext(bwk[w].chunks)
    BY <2>2, RegisteredKept DEF BatchWorkerInLoop
  <2>4. bwk[w].job \in Session
    BY <2>1, <2>2 DEF BatchWorkerInLoop
  <2>5. /\ SlotMoved(w) /\ bwk'[w].pc = "mark" /\ bwk'[w].i = bwk[w].i
        /\ bwk'[w].job = bwk[w].job /\ bwk'[w].chunks = bwk[w].chunks
        /\ bwk'[w].pending = bwk[w].pending
    BY <2>1 DEF BSplitEffect
  <2>6. BatchWorkerInLoop(w)'
    BY <2>1, <2>2, <2>3, <2>4, <2>5 DEF BatchWorkerInLoop, Registered, RegisteredNext
  <2> QED BY <1>6, <2>5, <2>6 DEF ProcessMove
<1>7. ASSUME BCommit(w) \/ BTxFails(w) \/ BOutboxFails(w)
      PROVE  ProcessMove(w)
  <2>1. bwk[w].pc # "idle" /\ \/ BStep(w, "finish", 1)
                              \/ BStep(w, "throw", 1)
                              \/ /\ BStep(w, "catch", 1)
                                 /\ bwk[w].pc \in {"split", "start", "mark", "commit"}
    BY <1>7 DEF BCommit, BTxFails, BOutboxFails
  <2>2. ASSUME NEW l \in {"finish", "throw", "catch"}, BStep(w, l, 1)
        PROVE  SlotStepped(w, l, 1)
    BY <2>2, <1>t, BStepFrame
  <2>3. bwk[w].pc \in {"split", "start", "mark", "commit"} => 1 <= Len(bwk[w].pending)
    <3>1. ASSUME bwk[w].pc \in {"split", "start", "mark", "commit"}
          PROVE  bwk[w].i \in 1 .. Len(bwk[w].pending)
      BY <3>1, AtChunk
    <3> QED BY <3>1
  <2>4. PICK l \in {"finish", "throw", "catch"} :
            /\ SlotStepped(w, l, 1)
            /\ l = "catch" => 1 <= Len(bwk[w].pending)
    BY <2>1, <2>2, <2>3
  <2>5. BatchWorkerInLoop(w)'
    <3>1. CASE l = "catch"
      <4>1. SlotStepped(w, "catch", 1) /\ 1 <= Len(bwk[w].pending) /\ bwk[w].pc # "idle"
        BY <2>1, <2>4, <3>1
      <4> QED BY <4>1, SteppedInLoop
    <3>2. CASE l # "catch"
      <4>1. SlotStepped(w, l, 1) /\ l \in {"finish", "throw"} /\ bwk[w].pc # "idle"
        BY <2>1, <2>4, <3>2
      <4> QED BY <4>1, SteppedInLoop
    <3> QED BY <3>1, <3>2
  <2> QED BY <2>4, <2>5 DEF ProcessMove, InTx, SlotStepped
<1>8. CASE BCrash(w)
  <2>1. SlotMoved(w) /\ bwk'[w].pc = "idle" /\ BatchWorkerInLoop(w)'
    BY <1>8, FreeSlot DEF BCrash
  <2> QED BY <2>1 DEF ProcessMove, InTx
<1> QED BY <1>1, <1>3, <1>4, <1>5, <1>6, <1>7, <1>8 DEF ProcessStep

\* The steps of process() keep the shape.
LEMMA BatchProcessShape ==
    ASSUME BatchShape, OpenTransactions, NEW w \in Worker, ProcessStep(w)
    PROVE  BatchShape' /\ RowsKept
<1>1. RowsKept /\ row' \in [Chunk -> RowType] /\ PayloadIffRow'
  BY ProcessRows
<1>u. UNCHANGED <<job, kept, req, wk, told, breq, bjob>>
  BY DEF ProcessStep, BLoad, BMarkProcessing, BSplit, BMarkCompleted, BCommit, BTxFails,
         BMarkFailed, BOutboxFails, BCrash
<1>2. /\ bjob' \in [Session -> BatchJobType]
      /\ \A s \in Session : BatchJobHasRows(s)'
  BY <1>1, <1>u, JobsSame
<1>3. ProcessMove(w)
  BY <1>1, <1>2, ProcessMoves
<1>f. faults' \in Nat
  <2>1. UNCHANGED faults \/ Fault("outbox") \/ Fault("crash")
    BY DEF ProcessStep, BLoad, BMarkProcessing, BSplit, BMarkCompleted, BCommit, BTxFails,
           BMarkFailed, BOutboxFails, BCrash
  <2> QED BY <2>1 DEF Fault, BatchShape, Shape, TypeOK
<1>4. Shape'
  <2>1. CASE BSplit(w) \/ BTxFails(w) \/ BOutboxFails(w) \/ BCrash(w)
    <3>1. UNCHANGED <<version, accepts, conflictLog, row>>
      BY <2>1 DEF BSplit, BTxFails, BOutboxFails, BCrash
    <3>2. rowLock' \in [Record -> Worker \cup {Nil}]
      <4>1. CASE BSplit(w)
        BY <4>1, BSplitDoes DEF BSplitEffect
      <4>2. CASE Unlock(w)
        BY <4>2, LockFrame DEF BatchShape
      <4> QED BY <2>1, <4>1, <4>2 DEF BTxFails, BOutboxFails, BCrash
    <3>3. /\ version' \in [Record -> Nat] /\ accepts' \in [Chunk -> [Record -> Nat]]
          /\ conflictLog' \in [Chunk -> SUBSET Record]
          /\ \A c \in Chunk : row'[c].payload = Nil => \A r \in Record : accepts'[c][r] = 0
      BY <3>1 DEF BatchShape, Shape, TypeOK, RowsExist, JobHasRow
    <3> QED BY <1>1, <1>u, <1>f, <3>2, <3>3, ShapeFrame DEF BatchShape
  <2>2. CASE BCommit(w)
    <3>1. BCommitEffect(w) /\ Unlock(w) /\ UNCHANGED row /\ InTx(w)
      BY <2>2, BCommitDoes DEF BCommit, InTx
    <3>2. rowLock' \in [Record -> Worker \cup {Nil}]
      BY <3>1, LockFrame DEF BatchShape
    <3>3. ASSUME NEW c \in Chunk, row'[c].payload = Nil
          PROVE  \A r \in Record : accepts'[c][r] = 0
      <4>1. row[c].payload = Nil
        BY <3>1, <3>3
      <4>2. bwk[w].acc[c] = {}
        BY <3>1, <4>1 DEF OpenTransactions, TxMovesVersions
      <4>3. \A r \in Record : accepts[c][r] = 0
        BY <4>1 DEF BatchShape, Shape, RowsExist, JobHasRow
      <4> QED BY <3>1, <4>2, <4>3 DEF BCommitEffect
    <3>4. /\ version' \in [Record -> Nat] /\ accepts' \in [Chunk -> [Record -> Nat]]
          /\ conflictLog' \in [Chunk -> SUBSET Record]
      BY <3>1 DEF BCommitEffect
    <3> QED BY <1>1, <1>u, <1>f, <3>2, <3>3, <3>4, ShapeFrame DEF BatchShape
  <2>3. CASE BLoad(w) \/ BMarkProcessing(w) \/ BMarkCompleted(w) \/ BMarkFailed(w)
    <3>1. UNCHANGED dataVars
      BY <2>3 DEF BLoad, BMarkProcessing, BMarkCompleted, BMarkFailed
    <3> QED BY <1>1, <1>u, <1>f, <3>1, ShapeSameData DEF BatchShape
  <2> QED BY <2>1, <2>2, <2>3 DEF ProcessStep
<1>5. bwk[w].pc # "idle"
  BY DEF ProcessStep, BLoad, BMarkProcessing, BSplit, BMarkCompleted, BCommit, BTxFails,
         BMarkFailed, BOutboxFails, BCrash
<1>6. \A v \in Worker : bwk'[v] # bwk[v] =>
        /\ BatchWorkerInLoop(v)'
        /\ bwk'[v].pc # "idle" => wk[v].pc = "idle"
  <2>1. \A v \in Worker : bwk'[v] # bwk[v] => v = w
    BY <1>3 DEF ProcessMove, SlotMoved
  <2>2. wk[w].pc = "idle"
    BY <1>5 DEF BatchShape, OneJobPerSlot
  <2> QED BY <1>3, <2>1, <2>2 DEF ProcessMove
<1>7. bwk' \in [Worker -> BatchWorkerType] /\ UNCHANGED <<breq, wk>>
  BY <1>3, <1>u DEF ProcessMove, SlotMoved
<1>8. BatchShape'
  BY <1>1, <1>2, <1>4, <1>6, <1>7, BatchShapeFrame
<1> QED BY <1>1, <1>8

\* The steps of the single push keep the shape, beside the batches.
LEMMA SingleShape ==
    ASSUME BatchShape, SingleNext
    PROVE  BatchShape' /\ RowsKept
<1>1. Shape' /\ RowsKept
  BY NextShape, PayloadStable DEF BatchShape, SingleNext, RowsKept
<1>2. UNCHANGED <<breq, bjob, bwk>>
  BY DEF SingleNext
<1>3. BatchInLoops'
  BY <1>1, <1>2, InLoopsFrame DEF BatchShape, BatchInLoops
<1>4. BatchTypeOK'
  BY <1>2 DEF BatchShape, BatchTypeOK
<1>5. OneJobPerSlot'
  BY <1>2 DEF SingleNext, OneJobPerSlot
<1> QED BY <1>1, <1>3, <1>4, <1>5 DEF BatchShape

\* Who acts in a step of the composed system.
LEMMA BatchActors ==
    ASSUME [BatchNext]_allVars
    PROVE  \/ SingleNext
           \/ \E b \in BatchRequest : BatchRequestNext(b) \/ BRequestFails(b)
           \/ \/ \E s \in Session : BStalled(s) \/ BForget(s)
              \/ \E w \in Worker, s \in Session : BTake(w, s)
              \/ \E w \in Worker : BFinish(w) \/ BThrow(w)
           \/ \E w \in Worker : ProcessStep(w)
           \/ UNCHANGED allVars
BY DEF BatchNext, BatchWorkerNext, ProcessStep

LEMMA BatchShapeStep ==
    ASSUME BatchShape, OpenTransactions, [BatchNext]_allVars
    PROVE  BatchShape' /\ RowsKept
<1>1. CASE UNCHANGED allVars
  <2>1. UNCHANGED <<breq, bjob, bwk>> /\ UNCHANGED vars
    BY <1>1
  <2>2. Shape' /\ RowsKept
    BY <2>1, NextShape DEF BatchShape, RowsKept
  <2>3. BatchInLoops'
    BY <2>1, <2>2, InLoopsFrame DEF BatchShape, BatchInLoops
  <2>4. BatchTypeOK' /\ OneJobPerSlot'
    BY <2>1 DEF BatchShape, BatchTypeOK, OneJobPerSlot
  <2> QED BY <2>2, <2>3, <2>4 DEF BatchShape
<1> QED BY <1>1, BatchActors, SingleShape, BatchRequestShape, BatchQueueShape, BatchProcessShape

-----------------------------------------------------------------------------
(* The compare-and-set, with the transactions of batches among the others *)

TransactionInv ==
    BatchShape /\ LocksHeld /\ VersionsMoved /\ OpenTransactions /\ AcceptedAtMostOnce

\* What worker w has locked stays locked, at its version.
LockedStays(w) ==
    \A r \in Record : InitVersion[r] > 0 /\ rowLock[r] = w =>
        rowLock'[r] = w /\ version'[r] = version[r]

LEMMA SingleKeepsLocks ==
    ASSUME TransactionInv, SingleNext, NEW w \in Worker, bwk[w].pc # "idle"
    PROVE  LockedStays(w)
<1> SUFFICES ASSUME NEW r \in Record, InitVersion[r] > 0, rowLock[r] = w
             PROVE  rowLock'[r] = w /\ version'[r] = version[r]
  BY DEF LockedStays
<1>0. Shape /\ LocksHeld /\ [Next]_vars
  BY DEF TransactionInv, BatchShape, SingleNext
<1>1. wk[w].pc = "idle"
  BY DEF TransactionInv, BatchShape, OneJobPerSlot
<1>2. ~(Commit(w) \/ TxFails(w) \/ Crash(w))
  BY <1>1 DEF Commit, TxFails, Crash
<1>3. rowLock'[r] = w
  BY <1>0, <1>2, LocksStep, NilAssumption
<1>4. ASSUME NEW v \in Worker, Commit(v) PROVE version'[r] = version[r]
  BY <1>0, <1>2, <1>4, CommitVersion
<1> QED BY <1>0, <1>3, <1>4, DataStep

LEMMA BatchKeepsLocks ==
    ASSUME TransactionInv, NEW v \in Worker, ProcessStep(v), NEW w \in Worker, v # w
    PROVE  LockedStays(w)
<1> SUFFICES ASSUME NEW r \in Record, InitVersion[r] > 0, rowLock[r] = w
             PROVE  rowLock'[r] = w /\ version'[r] = version[r]
  BY DEF LockedStays
<1>0. BatchShape /\ TxHoldsLocks(v) /\ w # Nil
  BY NilAssumption DEF TransactionInv, OpenTransactions
<1>1. CASE BSplit(v)
  <2>1. BSplitEffect(v) /\ UNCHANGED version
    BY <1>0, <1>1, BSplitDoes DEF BSplit
  <2>2. /\ \A x \in SplitRows(v) : rowLock[x] \in {Nil, v}
        /\ rowLock'[r] = IF r \in SplitRows(v) THEN v ELSE rowLock[r]
    BY <2>1 DEF BSplitEffect
  <2> QED BY <1>0, <2>1, <2>2
<1>2. ASSUME Unlock(v) PROVE rowLock'[r] = w
  BY <1>2 DEF Unlock
<1>3. CASE BCommit(v)
  <2>1. version'[r] = Visible(v, r) /\ InTx(v)
    BY <1>0, <1>3, BCommitDoes DEF BCommitEffect, BCommit, InTx
  <2>2. ~(bwk[v].own[r] > 0)
    BY <1>0, <2>1 DEF TxHoldsLocks
  <2> QED BY <1>2, <1>3, <2>1, <2>2 DEF BCommit, Visible
<1>4. CASE BTxFails(v) \/ BOutboxFails(v) \/ BCrash(v)
  BY <1>2, <1>4 DEF BTxFails, BOutboxFails, BCrash
<1>5. CASE BLoad(v) \/ BMarkProcessing(v) \/ BMarkCompleted(v) \/ BMarkFailed(v)
  BY <1>5 DEF BLoad, BMarkProcessing, BMarkCompleted, BMarkFailed
<1> QED BY <1>1, <1>3, <1>4, <1>5 DEF ProcessStep

\* An open transaction that writes nothing in a step, or opens in it.
LEMMA TransactionStays ==
    ASSUME TransactionInv, RowsKept, NEW w \in Worker, LockedStays(w),
           bwk' \in [Worker -> BatchWorkerType],
           bwk'[w].own = bwk[w].own, bwk'[w].acc = bwk[w].acc,
           bwk'[w].pc \in {"load", "start"} => bwk[w].pc \in {"load", "start"},
           InTx(w)' => InTx(w) \/ bwk[w].pc = "start"
    PROVE  TxStartsEmpty(w)' /\ TxHoldsLocks(w)' /\ TxMovesVersions(w)' /\ TxAcceptsOnce(w)'
<1>0. TxStartsEmpty(w) /\ TxHoldsLocks(w) /\ TxMovesVersions(w) /\ TxAcceptsOnce(w)
  BY DEF TransactionInv, OpenTransactions
<1>1. TxStartsEmpty(w)'
  BY <1>0 DEF TxStartsEmpty
<1>t. /\ bwk[w].own \in [Record -> Nat] /\ bwk[w].acc \in [Chunk -> SUBSET Record]
      /\ version \in [Record -> Nat] /\ row \in [Chunk -> RowType]
  BY DEF TransactionInv, BatchShape, BatchTypeOK, BatchWorkerType, Shape, TypeOK
<1>2. CASE ~InTx(w)'
  BY <1>1, <1>2 DEF TxHoldsLocks, TxMovesVersions, TxAcceptsOnce, InTx
<1>3. CASE InTx(w)' /\ ~InTx(w)
  <2>1. (\A r \in Record : bwk[w].own[r] = 0) /\ \A c \in Chunk : bwk[w].acc[c] = {}
    BY <1>0, <1>3 DEF TxStartsEmpty
  <2>2. TxHoldsLocks(w)'
    BY <2>1 DEF TxHoldsLocks
  <2>3. TxMovesVersions(w)' /\ TxAcceptsOnce(w)'
    BY <2>1 DEF TxMovesVersions, TxAcceptsOnce
  <2> QED BY <1>1, <2>2, <2>3
<1>4. CASE InTx(w)' /\ InTx(w)
  <2>1. ASSUME NEW r \in Record, InitVersion[r] > 0, bwk[w].own[r] > 0
        PROVE  rowLock'[r] = w /\ bwk[w].own[r] > version'[r] /\ version'[r] = version[r]
    BY <1>0, <1>4, <2>1 DEF TxHoldsLocks, LockedStays
  <2>2. TxHoldsLocks(w)'
    BY <2>1 DEF TxHoldsLocks
  <2>3. ASSUME NEW c \in Chunk, NEW r \in bwk[w].acc[c]
        PROVE  row[c].payload # Nil /\ row'[c].payload = row[c].payload
    BY <1>0, <1>4, <2>3 DEF TxMovesVersions, RowsKept
  <2>4. ASSUME NEW c \in Chunk, NEW r \in bwk[w].acc[c],
               row[c].payload \notin Blind, InitVersion[r] > 0
        PROVE  /\ version'[r] <= BaseVersion[row[c].payload][r]
               /\ bwk[w].own[r] > BaseVersion[row[c].payload][r]
    <3> DEFINE base == BaseVersion[row[c].payload][r]
    <3>1. r \in Record /\ row[c].payload \in Payload
      BY <1>t, <2>3, <2>4 DEF RowType
    <3>2. base \in Nat /\ bwk[w].own[r] \in Nat
      BY <1>t, <3>1, VersionAssumption
    <3>3. version[r] <= base /\ bwk[w].own[r] > base
      BY <1>0, <1>4, <2>4 DEF TxMovesVersions
    <3>4. bwk[w].own[r] > 0
      BY <3>2, <3>3
    <3>5. version'[r] = version[r]
      BY <2>1, <2>4, <3>1, <3>4
    <3> QED BY <3>3, <3>5
  <2>5. TxMovesVersions(w)'
    BY <2>3, <2>4 DEF TxMovesVersions
  <2>6. TxAcceptsOnce(w)'
    <3>1. ASSUME NEW c \in Chunk, NEW d \in Chunk, c # d,
                 NEW r \in bwk[w].acc[c] \cap bwk[w].acc[d], Competes(c, d, r)', InitVersion[r] > 0
          PROVE  FALSE
      <4>1. Competes(c, d, r)
        BY <2>3, <3>1 DEF Competes
      <4> QED BY <1>0, <1>4, <3>1, <4>1 DEF TxAcceptsOnce
    <3> QED BY <3>1 DEF TxAcceptsOnce
  <2> QED BY <1>1, <2>2, <2>5, <2>6
<1> QED BY <1>2, <1>3, <1>4

\* What a split reads of a stored record it accepts: the base version, which
\* nobody has moved and the transaction has not written before.
LEMMA SplitReads ==
    ASSUME TransactionInv, NEW w \in Worker, BSplit(w), NEW r \in SplitAcc(w), InitVersion[r] > 0,
           row[Current(w)].payload \notin Blind
    PROVE  /\ r \in Record /\ r \in SplitRows(w)
           /\ SplitSeen(w)[r] = Visible(w, r)
           /\ Visible(w, r) = BaseVersion[row[Current(w)].payload][r]
           /\ version[r] <= Visible(w, r)
           /\ bwk[w].own[r] > 0 => Visible(w, r) = bwk[w].own[r]
<1> DEFINE h == row[Current(w)].payload
<1>0. BatchShape /\ VersionsMoved /\ TxHoldsLocks(w) /\ bwk[w].pc = "split"
  BY DEF TransactionInv, OpenTransactions, BSplit
<1>1. r \in Record /\ r \in Touches[h]
  BY <1>0, SplitTypes DEF SplitAcc, AcceptedOf
<1>2. version[r] \in Nat /\ bwk[w].own[r] \in Nat /\ InitVersion[r] \in Nat
  BY <1>0, <1>1, VersionAssumption DEF BatchShape, BatchTypeOK, BatchWorkerType, Shape, TypeOK
<1>3. version[r] > 0
  BY <1>0, <1>1, <1>2 DEF VersionsMoved
<1>4. bwk[w].own[r] > 0 => bwk[w].own[r] > version[r]
  BY <1>0, <1>1 DEF TxHoldsLocks, InTx
<1>5. /\ bwk[w].own[r] > 0 => Visible(w, r) = bwk[w].own[r]
      /\ ~(bwk[w].own[r] > 0) => Visible(w, r) = version[r]
  BY DEF Visible
<1>6. version[r] <= Visible(w, r) /\ Visible(w, r) > 0
  BY <1>2, <1>3, <1>4, <1>5
<1>7. r \in SplitRows(w)
  BY <1>1, <1>6 DEF SplitRows
<1>8. SplitSeen(w)[r] = Visible(w, r)
  BY <1>1, <1>7 DEF SplitSeen
<1>9. Visible(w, r) = BaseVersion[h][r]
  <2>1. h \in Blind \/ SplitSeen(w)[r] = 0 \/ SplitSeen(w)[r] = BaseVersion[h][r]
    BY DEF SplitAcc, AcceptedOf
  <2> QED BY <2>1, <1>2, <1>6, <1>8
<1> QED BY <1>1, <1>5, <1>6, <1>7, <1>8, <1>9

LEMMA TransactionSplits ==
    ASSUME TransactionInv, RowsKept, NEW w \in Worker, BSplit(w)
    PROVE  TxStartsEmpty(w)' /\ TxHoldsLocks(w)' /\ TxMovesVersions(w)' /\ TxAcceptsOnce(w)'
<1> DEFINE c == Current(w)
           h == row[c].payload
           own == bwk[w].own
           nown == bwk'[w].own
<1>0. /\ BatchShape /\ VersionsMoved /\ InTx(w) /\ UNCHANGED <<version, row>>
      /\ TxStartsEmpty(w) /\ TxHoldsLocks(w) /\ TxMovesVersions(w) /\ TxAcceptsOnce(w)
  BY DEF TransactionInv, OpenTransactions, BSplit, InTx
<1>e. BSplitEffect(w)
  BY <1>0, BSplitDoes
<1>t. /\ own \in [Record -> Nat] /\ bwk[w].acc \in [Chunk -> SUBSET Record]
      /\ version \in [Record -> Nat] /\ row \in [Chunk -> RowType]
  BY <1>0 DEF BatchShape, BatchTypeOK, BatchWorkerType, Shape, TypeOK
<1>c. c \in Chunk /\ h \in Payload /\ h # Nil
  BY <1>0, AtChunk DEF InTx
<1>1. TxStartsEmpty(w)'
  BY <1>e DEF TxStartsEmpty, BSplitEffect
\* The versions it has written go up, and what it writes it has read and locked.
<1>2. ASSUME NEW r \in Record, InitVersion[r] > 0
      PROVE  /\ h \notin Blind /\ r \in SplitAcc(w) =>
                    nown[r] = Visible(w, r) + 1 /\ rowLock'[r] = w
             /\ ~(h \notin Blind /\ r \in SplitAcc(w)) => nown[r] = own[r]
             /\ rowLock[r] = w => rowLock'[r] = w
  <2>1. /\ h \in Blind => nown = own
        /\ h \notin Blind => nown[r] = IF r \in SplitAcc(w) THEN SplitSeen(w)[r] + 1 ELSE own[r]
        /\ rowLock'[r] = IF r \in SplitRows(w) THEN w ELSE rowLock[r]
    BY <1>e DEF BSplitEffect
  <2>2. h \notin Blind /\ r \in SplitAcc(w) =>
            SplitSeen(w)[r] = Visible(w, r) /\ r \in SplitRows(w)
    BY <1>2, SplitReads
  <2> HIDE DEF h, own, nown, c
  <2> QED BY <2>1, <2>2
<1>3. ASSUME NEW r \in Record, InitVersion[r] > 0
      PROVE  nown[r] = own[r] \/ (nown[r] = Visible(w, r) + 1 /\ version[r] <= Visible(w, r))
  BY <1>2, <1>3, SplitReads
<1>4. TxHoldsLocks(w)'
  <2>1. ASSUME NEW r \in Record, InitVersion[r] > 0, nown[r] > 0
        PROVE  rowLock'[r] = w /\ nown[r] > version'[r]
    <3>1. version[r] \in Nat /\ Visible(w, r) \in Nat
      BY <1>0, <1>t, VisibleIsVersion
    <3>2. CASE h \notin Blind /\ r \in SplitAcc(w)
      <4>1. /\ nown[r] = Visible(w, r) + 1 /\ rowLock'[r] = w
            /\ version[r] <= Visible(w, r) /\ version'[r] = version[r]
        BY <1>0, <1>2, <2>1, <3>2, SplitReads
      <4> HIDE DEF nown
      <4> QED BY <3>1, <4>1
    <3>3. CASE ~(h \notin Blind /\ r \in SplitAcc(w))
      <4>1. nown[r] = own[r]
        BY <1>2, <2>1, <3>3
      <4>2. rowLock[r] = w /\ own[r] > version[r]
        BY <1>0, <2>1, <4>1 DEF TxHoldsLocks
      <4> QED BY <1>0, <1>2, <2>1, <4>1, <4>2
    <3> QED BY <3>2, <3>3
  <2> QED BY <2>1 DEF TxHoldsLocks
\* A chunk has accepted a record before, or it is the current one and does so now.
<1>5. ASSUME NEW d \in Chunk, NEW r \in bwk'[w].acc[d]
      PROVE  r \in bwk[w].acc[d] \/ (d = c /\ r \in SplitAcc(w))
  <2>1. bwk'[w].acc[d] = bwk[w].acc[d] \/ (d = c /\ bwk'[w].acc[c] = bwk[w].acc[c] \cup SplitAcc(w))
    BY <1>e DEF BSplitEffect
  <2> QED BY <1>5, <2>1
<1>6. ASSUME NEW d \in Chunk, NEW r \in bwk[w].acc[d], row[d].payload \notin Blind,
             InitVersion[r] > 0
      PROVE  /\ r \in Record /\ row[d].payload \in Payload
             /\ BaseVersion[row[d].payload][r] \in Nat
             /\ version[r] <= BaseVersion[row[d].payload][r]
             /\ own[r] \in Nat /\ own[r] > BaseVersion[row[d].payload][r]
  <2>1. r \in Record /\ row[d].payload \in Payload
    BY <1>0, <1>t, <1>6 DEF TxMovesVersions, RowType
  <2>2. BaseVersion[row[d].payload][r] \in Nat /\ own[r] \in Nat
    BY <2>1, <1>t, VersionAssumption
  <2>3. version[r] <= BaseVersion[row[d].payload][r] /\ own[r] > BaseVersion[row[d].payload][r]
    BY <1>0, <1>6 DEF TxMovesVersions
  <2> QED BY <2>1, <2>2, <2>3
<1>7. TxMovesVersions(w)'
  <2>1. ASSUME NEW d \in Chunk, NEW r \in bwk'[w].acc[d] PROVE row'[d].payload # Nil
    BY <1>0, <1>c, <1>5, <2>1 DEF TxMovesVersions
  <2>2. ASSUME NEW d \in Chunk, NEW r \in bwk'[w].acc[d], row'[d].payload \notin Blind,
               InitVersion[r] > 0
        PROVE  /\ version'[r] <= BaseVersion[row'[d].payload][r]
               /\ nown[r] > BaseVersion[row'[d].payload][r]
    <3> DEFINE base == BaseVersion[row[d].payload][r]
    <3>1. CASE r \in bwk[w].acc[d]
      <4>1. r \in Record /\ base \in Nat /\ version[r] <= base /\ own[r] \in Nat /\ own[r] > base
        BY <1>0, <1>6, <2>2, <3>1
      <4>2. own[r] > 0
        BY <4>1
      <4>3. nown[r] = own[r] \/ nown[r] = own[r] + 1
        BY <1>3, <2>2, <4>1, <4>2 DEF Visible
      <4> HIDE DEF base, nown, own
      <4>4. nown[r] > base
        BY <4>1, <4>3
      <4> QED BY <1>0, <4>1, <4>4 DEF base
    <3>2. CASE d = c /\ r \in SplitAcc(w)
      <4>1. h \notin Blind /\ base = BaseVersion[h][r]
        BY <1>0, <2>2, <3>2
      <4>2. /\ r \in Record /\ Visible(w, r) = base /\ version[r] <= Visible(w, r)
        BY <4>1, <2>2, <3>2, SplitReads
      <4>3. nown[r] = Visible(w, r) + 1 /\ Visible(w, r) \in Nat
        BY <1>0, <1>2, <2>2, <3>2, <4>1, <4>2, VisibleIsVersion
      <4> HIDE DEF base, nown
      <4>4. nown[r] > base /\ version[r] <= base
        BY <4>2, <4>3
      <4> QED BY <1>0, <4>4 DEF base, nown
    <3> QED BY <1>5, <2>2, <3>1, <3>2
  <2> QED BY <2>1, <2>2 DEF TxMovesVersions
<1>8. TxAcceptsOnce(w)'
\* Who has accepted the record before has left the version behind that the split reads.
  <2>1. ASSUME NEW e \in Chunk, NEW r \in bwk[w].acc[e], r \in SplitAcc(w), InitVersion[r] > 0,
               h \notin Blind, row[e].payload \notin Blind,
               BaseVersion[row[e].payload][r] = BaseVersion[h][r]
        PROVE  FALSE
    <3>1. /\ own[r] \in Nat /\ own[r] > BaseVersion[h][r] /\ BaseVersion[h][r] \in Nat
      BY <1>6, <2>1
    <3>2. own[r] > 0
      BY <3>1
    <3>3. own[r] = BaseVersion[h][r]
      BY <2>1, <3>2, SplitReads
    <3> QED BY <3>1, <3>3
  <2>2. ASSUME NEW d \in Chunk, NEW e \in Chunk, d # e,
               NEW r \in bwk'[w].acc[d] \cap bwk'[w].acc[e], Competes(d, e, r)', InitVersion[r] > 0
        PROVE  FALSE
    <3>1. Competes(d, e, r) /\ Competes(e, d, r)
      BY <1>0, <2>2 DEF Competes
    <3>2. CASE r \in bwk[w].acc[d] /\ r \in bwk[w].acc[e]
      BY <1>0, <2>2, <3>1, <3>2 DEF TxAcceptsOnce
    <3>3. CASE r \in bwk[w].acc[d] /\ e = c /\ r \in SplitAcc(w)
      BY <2>1, <2>2, <3>1, <3>3 DEF Competes
    <3>4. CASE r \in bwk[w].acc[e] /\ d = c /\ r \in SplitAcc(w)
      BY <2>1, <2>2, <3>1, <3>4 DEF Competes
    <3> QED BY <1>5, <2>2, <3>2, <3>3, <3>4
  <2> QED BY <2>2 DEF TxAcceptsOnce
<1> QED BY <1>1, <1>4, <1>7, <1>8

\* A transaction that is not open, and a slot that is not at its start, owe nothing.
LEMMA NoTransaction ==
    ASSUME NEW w \in Worker, ~InTx(w)', bwk'[w].pc \notin {"load", "start"}
    PROVE  TxStartsEmpty(w)' /\ TxHoldsLocks(w)' /\ TxMovesVersions(w)' /\ TxAcceptsOnce(w)'
BY DEF TxStartsEmpty, TxHoldsLocks, TxMovesVersions, TxAcceptsOnce, InTx

\* The slot that acts keeps its transaction in order.
LEMMA ActorKeepsTransaction ==
    ASSUME TransactionInv, BatchShape', RowsKept, NEW w \in Worker, ProcessStep(w)
    PROVE  TxStartsEmpty(w)' /\ TxHoldsLocks(w)' /\ TxMovesVersions(w)' /\ TxAcceptsOnce(w)'
<1>1. ProcessMove(w)
  BY ProcessMoves DEF TransactionInv
<1>2. CASE BSplit(w)
  BY <1>2, TransactionSplits
<1>3. CASE ~InTx(w)' /\ bwk'[w].pc \notin {"load", "start"}
  BY <1>3, NoTransaction
<1>4. CASE InTx(w)' /\ ~BSplit(w)
  <2>1. /\ BMarkProcessing(w) \/ BMarkCompleted(w)
        /\ bwk[w].pc \in {"start", "mark"}
        /\ bwk'[w].own = bwk[w].own /\ bwk'[w].acc = bwk[w].acc
    BY <1>1, <1>4 DEF ProcessMove
  <2>2. UNCHANGED <<rowLock, version>>
    BY <2>1 DEF BMarkProcessing, BMarkCompleted
  <2>3. LockedStays(w)
    BY <2>2 DEF LockedStays
  <2>4. bwk' \in [Worker -> BatchWorkerType]
    BY <1>1 DEF ProcessMove, SlotMoved
  <2>5. /\ bwk'[w].pc \in {"load", "start"} => bwk[w].pc \in {"load", "start"}
        /\ InTx(w)' => InTx(w) \/ bwk[w].pc = "start"
    BY <1>4, <2>1 DEF InTx
  <2> QED BY <2>1, <2>3, <2>4, <2>5, TransactionStays
<1>5. CASE bwk'[w].pc \in {"load", "start"}
  <2>1. /\ bwk[w].pc \in {"load", "start"}
        /\ bwk'[w].own = bwk[w].own /\ bwk'[w].acc = bwk[w].acc /\ ~InTx(w)'
    BY <1>1, <1>5 DEF ProcessMove, InTx
  <2>2. TxStartsEmpty(w)'
    BY <2>1 DEF TransactionInv, OpenTransactions, TxStartsEmpty
  <2> QED BY <2>1, <2>2 DEF TxHoldsLocks, TxMovesVersions, TxAcceptsOnce, InTx
<1> QED BY <1>2, <1>3, <1>4, <1>5

\* A slot that does not move keeps its transaction as long as its locks stay.
LEMMA OtherKeepsTransaction ==
    ASSUME TransactionInv, BatchShape', RowsKept, NEW w \in Worker, bwk'[w] = bwk[w],
           bwk[w].pc # "idle" => LockedStays(w)
    PROVE  TxStartsEmpty(w)' /\ TxHoldsLocks(w)' /\ TxMovesVersions(w)' /\ TxAcceptsOnce(w)'
<1>1. CASE bwk[w].pc = "idle"
  BY <1>1, NoTransaction DEF InTx
<1>2. CASE bwk[w].pc # "idle"
  <2>1. LockedStays(w) /\ bwk' \in [Worker -> BatchWorkerType]
    BY <1>2 DEF BatchShape, BatchTypeOK
  <2>2. InTx(w)' => InTx(w)
    BY DEF InTx
  <2> QED BY <2>1, <2>2, TransactionStays
<1> QED BY <1>1, <1>2

\* Every step keeps the open transactions in order.
LEMMA TransactionsStep ==
    ASSUME TransactionInv, BatchShape', RowsKept, [BatchNext]_allVars
    PROVE  OpenTransactions'
<1> SUFFICES ASSUME NEW w \in Worker
             PROVE  /\ TxStartsEmpty(w)' /\ TxHoldsLocks(w)'
                    /\ TxMovesVersions(w)' /\ TxAcceptsOnce(w)'
  BY DEF OpenTransactions
<1>1. CASE SingleNext
  <2>1. bwk' = bwk
    BY <1>1 DEF SingleNext
  <2> QED BY <1>1, <2>1, SingleKeepsLocks, OtherKeepsTransaction
<1>2. ASSUME UNCHANGED <<version, rowLock>>, bwk'[w] = bwk[w]
      PROVE  /\ TxStartsEmpty(w)' /\ TxHoldsLocks(w)'
             /\ TxMovesVersions(w)' /\ TxAcceptsOnce(w)'
  <2>1. LockedStays(w)
    BY <1>2 DEF LockedStays
  <2> QED BY <1>2, <2>1, OtherKeepsTransaction
<1>3. CASE \E b \in BatchRequest : BatchRequestNext(b) \/ BRequestFails(b)
  <2>1. UNCHANGED <<version, rowLock, bwk>>
    BY <1>3 DEF BatchRequestNext, BRequestFails, BFind, BCreate, BReread, BAdd, BMarkQueued
  <2> QED BY <1>2, <2>1
<1>4. CASE \E s \in Session : BStalled(s) \/ BForget(s)
  <2>1. UNCHANGED <<version, rowLock, bwk>>
    BY <1>4 DEF BStalled, BForget
  <2> QED BY <1>2, <2>1
<1>5. ASSUME NEW v \in Worker, NEW s \in Session, BTake(v, s)
      PROVE  /\ TxStartsEmpty(w)' /\ TxHoldsLocks(w)'
             /\ TxMovesVersions(w)' /\ TxAcceptsOnce(w)'
  <2> DEFINE z == Taken(s)
  <2>1. /\ UNCHANGED <<version, rowLock>> /\ bwk' = [bwk EXCEPT ![v] = z]
        /\ bwk \in [Worker -> BatchWorkerType]
    BY <1>5 DEF BTake, Taken, TransactionInv, BatchShape, BatchTypeOK
  <2>2. z.pc = "load" /\ z.own = NoVersions /\ z.acc = [c \in Chunk |-> {}]
    BY TakenSlot DEF TransactionInv, BatchShape
  <2> HIDE DEF z
  <2>3. CASE w = v
    <3>1. bwk'[w] = z
      BY <2>1, <2>3
    <3>2. TxStartsEmpty(w)'
      BY <2>2, <3>1 DEF TxStartsEmpty, NoVersions
    <3> QED BY <2>2, <3>1, <3>2 DEF TxHoldsLocks, TxMovesVersions, TxAcceptsOnce, InTx
  <2>4. CASE w # v
    BY <2>1, <2>4, <1>2
  <2> QED BY <2>3, <2>4
<1>6. ASSUME NEW v \in Worker, BFinish(v) \/ BThrow(v)
      PROVE  /\ TxStartsEmpty(w)' /\ TxHoldsLocks(w)'
             /\ TxMovesVersions(w)' /\ TxAcceptsOnce(w)'
  <2>1. UNCHANGED <<version, rowLock>> /\ SlotMoved(v) /\ bwk'[v].pc = "idle"
    BY <1>6, FreeSlot DEF BFinish, BThrow, TransactionInv
  <2>2. CASE w = v
    BY <2>1, <2>2, NoTransaction DEF InTx
  <2>3. CASE w # v
    BY <2>1, <2>3, <1>2 DEF SlotMoved
  <2> QED BY <2>2, <2>3
<1>7. ASSUME NEW v \in Worker, ProcessStep(v)
      PROVE  /\ TxStartsEmpty(w)' /\ TxHoldsLocks(w)'
             /\ TxMovesVersions(w)' /\ TxAcceptsOnce(w)'
  <2>1. CASE w = v
    BY <1>7, <2>1, ActorKeepsTransaction
  <2>2. CASE w # v
    <3>1. bwk'[w] = bwk[w]
      BY <1>7, <2>2, ProcessMoves DEF TransactionInv, ProcessMove, SlotMoved
    <3> QED BY <1>7, <2>2, <3>1, BatchKeepsLocks, OtherKeepsTransaction
  <2> QED BY <2>1, <2>2
<1>8. CASE UNCHANGED allVars
  BY <1>2, <1>8
<1> QED BY <1>1, <1>3, <1>4, <1>5, <1>6, <1>7, <1>8, BatchActors

\* What every step of the batch push leaves alone of the single push, and the only
\* step of it that writes records.
LEMMA BatchLeaves ==
    ASSUME [BatchNext]_allVars, ~SingleNext
    PROVE  /\ UNCHANGED wk
           /\ (\E w \in Worker : BCommit(w)) \/ UNCHANGED <<version, accepts, conflictLog>>
           /\ (\E w \in Worker : ProcessStep(w)) \/ UNCHANGED <<version, rowLock>>
<1>1. CASE \E b \in BatchRequest : BatchRequestNext(b) \/ BRequestFails(b)
  BY <1>1 DEF BatchRequestNext, BRequestFails, BFind, BCreate, BReread, BAdd, BMarkQueued
<1>2. CASE \/ \E s \in Session : BStalled(s) \/ BForget(s)
           \/ \E w \in Worker, s \in Session : BTake(w, s)
           \/ \E w \in Worker : BFinish(w) \/ BThrow(w)
  BY <1>2 DEF BStalled, BForget, BTake, BFinish, BThrow
<1>3. CASE \E w \in Worker : ProcessStep(w)
  BY <1>3 DEF ProcessStep, BLoad, BMarkProcessing, BSplit, BMarkCompleted, BTxFails,
              BMarkFailed, BOutboxFails, BCrash, BCommit
<1>4. CASE UNCHANGED allVars
  BY <1>4
<1> QED BY <1>1, <1>2, <1>3, <1>4, BatchActors

\* The locks of a single push survive the steps of batches.
LEMMA LocksHeldBeside ==
    ASSUME TransactionInv, RowsKept, [BatchNext]_allVars, ~SingleNext
    PROVE  LocksHeld'
<1> SUFFICES ASSUME NEW w \in Worker, NEW r, Holding(w, r)'
             PROVE  rowLock'[r] = w /\ wk'[w].seen[r] = version'[r]
  BY DEF LocksHeld, Holding
<1>0. UNCHANGED wk /\ BatchShape /\ Shape /\ LocksHeld
  BY BatchLeaves DEF TransactionInv, BatchShape
<1>1. wk[w].pc = "commit" /\ wk[w].job \in Chunk /\ row[wk[w].job].payload # Nil
      /\ row[wk[w].job].payload \in Payload
  BY <1>0, AtWork DEF Holding
<1>2. row'[wk[w].job].payload = row[wk[w].job].payload
  BY <1>1 DEF RowsKept
<1>3. Holding(w, r) /\ r \in Record
  BY <1>0, <1>1, <1>2, TouchesAssumption DEF Holding
<1>4. rowLock[r] = w /\ wk[w].seen[r] = version[r]
  BY <1>0, <1>3 DEF LocksHeld, Holding
<1>5. LockedStays(w)
  <2>1. ASSUME NEW v \in Worker, ProcessStep(v) PROVE LockedStays(w)
    <3>1. bwk[v].pc # "idle"
      BY <2>1 DEF ProcessStep, BLoad, BMarkProcessing, BSplit, BMarkCompleted, BCommit, BTxFails,
                  BMarkFailed, BOutboxFails, BCrash
    <3>2. v # w
      BY <1>0, <1>1, <3>1 DEF BatchShape, OneJobPerSlot
    <3> QED BY <2>1, <3>2, BatchKeepsLocks
  <2>2. CASE UNCHANGED <<version, rowLock>>
    BY <2>2 DEF LockedStays
  <2> QED BY <2>1, <2>2, BatchLeaves
<1> QED BY <1>0, <1>3, <1>4, <1>5 DEF LockedStays, Holding

\* Rows that are registered beside the data bring no accepted writes with them.
LEMMA SameAccepts ==
    ASSUME TransactionInv, RowsKept, UNCHANGED <<version, accepts>>
    PROVE  VersionsMoved' /\ AcceptedAtMostOnce'
<1>0. /\ Shape /\ VersionsMoved /\ AcceptedAtMostOnce /\ accepts \in [Chunk -> [Record -> Nat]]
  BY DEF TransactionInv, BatchShape, Shape, TypeOK
<1>1. ASSUME NEW c \in Chunk, NEW r \in Record, accepts[c][r] > 0
      PROVE  row[c].payload # Nil /\ row'[c].payload = row[c].payload
  BY <1>0, <1>1 DEF Shape, RowsExist, JobHasRow, RowsKept
<1>2. VersionsMoved'
  BY <1>0, <1>1 DEF VersionsMoved
<1>3. ASSUME NEW c \in Chunk, NEW d \in Chunk, NEW r \in Record,
             Competes(c, d, r)', InitVersion[r] > 0
      PROVE  accepts[c][r] <= 1 /\ (c # d => accepts[c][r] + accepts[d][r] <= 1)
  <2>0. accepts[c][r] \in Nat /\ accepts[d][r] \in Nat
    BY <1>0
  <2>1. \A e \in {c, d} : accepts[e][r] > 0 => Competes(e, e, r)
    BY <1>1, <1>3 DEF Competes
  <2>2. \A e \in {c, d} : accepts[e][r] <= 1
    BY <1>0, <1>3, <2>0, <2>1 DEF AcceptedAtMostOnce
  <2>3. CASE accepts[c][r] > 0 /\ accepts[d][r] > 0
    <3>1. Competes(c, d, r)
      BY <1>1, <1>3, <2>3 DEF Competes
    <3> QED BY <1>0, <1>3, <3>1 DEF AcceptedAtMostOnce
  <2>4. CASE ~(accepts[c][r] > 0 /\ accepts[d][r] > 0)
    BY <2>0, <2>2, <2>4
  <2> QED BY <2>3, <2>4
<1>4. AcceptedAtMostOnce'
  BY <1>3 DEF AcceptedAtMostOnce
<1> QED BY <1>2, <1>4

\* A write that a batch commits on a stored record is the first on its base version.
LEMMA CommitKeepsOnce ==
    ASSUME TransactionInv, NEW w \in Worker, BCommit(w)
    PROVE  VersionsMoved' /\ AcceptedAtMostOnce'
<1>0. /\ Shape /\ VersionsMoved /\ AcceptedAtMostOnce /\ InTx(w) /\ UNCHANGED row
      /\ TxHoldsLocks(w) /\ TxMovesVersions(w) /\ TxAcceptsOnce(w) /\ BatchShape
  BY DEF TransactionInv, BatchShape, OpenTransactions, BCommit, InTx
<1>e. BCommitEffect(w)
  BY <1>0, BCommitDoes
<1>t. /\ accepts \in [Chunk -> [Record -> Nat]] /\ version \in [Record -> Nat]
      /\ bwk[w].own \in [Record -> Nat] /\ row \in [Chunk -> RowType]
  BY <1>0 DEF Shape, TypeOK, BatchShape, BatchTypeOK, BatchWorkerType
<1>1. ASSUME NEW r \in Record
      PROVE  /\ version'[r] \in Nat
             /\ bwk[w].own[r] > 0 => version'[r] = bwk[w].own[r]
             /\ InitVersion[r] > 0 => version'[r] >= version[r]
  <2>1. version'[r] = Visible(w, r) /\ version'[r] \in Nat
    BY <1>e, <1>1 DEF BCommitEffect
  <2>2. InitVersion[r] > 0 /\ bwk[w].own[r] > 0 => bwk[w].own[r] > version[r]
    BY <1>0, <1>1 DEF TxHoldsLocks
  <2> QED BY <1>t, <2>1, <2>2 DEF Visible
<1>2. ASSUME NEW c \in Chunk, NEW r \in Record, r \in bwk[w].acc[c],
             row[c].payload \in Payload \ Blind, InitVersion[r] > 0
      PROVE  /\ version[r] <= BaseVersion[row[c].payload][r]
             /\ version'[r] > BaseVersion[row[c].payload][r]
             /\ BaseVersion[row[c].payload][r] \in Nat
  <2>1. /\ version[r] <= BaseVersion[row[c].payload][r]
        /\ bwk[w].own[r] > BaseVersion[row[c].payload][r]
    BY <1>0, <1>2 DEF TxMovesVersions
  <2>2. BaseVersion[row[c].payload][r] \in Nat /\ bwk[w].own[r] \in Nat
    BY <1>t, <1>2, VersionAssumption
  <2> QED BY <1>1, <2>1, <2>2
<1>3. ASSUME NEW c \in Chunk, NEW r \in Record
      PROVE  /\ r \in bwk[w].acc[c] => accepts'[c][r] = accepts[c][r] + 1
             /\ r \notin bwk[w].acc[c] => accepts'[c][r] = accepts[c][r]
  BY <1>e, <1>3 DEF BCommitEffect
<1>4. VersionsMoved'
  <2>1. ASSUME NEW r \in Record PROVE version'[r] >= InitVersion[r]
    <3>1. InitVersion[r] \in Nat /\ version[r] \in Nat /\ version[r] >= InitVersion[r]
      BY <1>0, <1>t, VersionAssumption DEF VersionsMoved
    <3>2. version'[r] \in Nat /\ (InitVersion[r] > 0 => version'[r] >= version[r])
      BY <1>1
    <3> QED BY <3>1, <3>2
  <2>2. ASSUME NEW c \in Chunk, NEW r \in Record, row[c].payload \in Payload \ Blind,
               accepts'[c][r] > 0, InitVersion[r] > 0
        PROVE  version'[r] > BaseVersion[row[c].payload][r]
    <3>1. CASE r \in bwk[w].acc[c]
      BY <1>2, <2>2, <3>1
    <3>2. CASE r \notin bwk[w].acc[c]
      <4>1. version[r] > BaseVersion[row[c].payload][r]
        BY <1>0, <1>3, <2>2, <3>2 DEF VersionsMoved
      <4>2. version'[r] >= version[r] /\ version'[r] \in Nat /\ version[r] \in Nat
            /\ BaseVersion[row[c].payload][r] \in Nat
        BY <1>1, <1>t, <2>2, VersionAssumption
      <4> QED BY <4>1, <4>2
    <3> QED BY <3>1, <3>2
  <2> QED BY <1>0, <2>1, <2>2 DEF VersionsMoved
<1>5. ASSUME NEW c \in Chunk, NEW d \in Chunk, NEW r \in Record,
             Competes(c, d, r), InitVersion[r] > 0
      PROVE  accepts'[c][r] <= 1 /\ (c # d => accepts'[c][r] + accepts'[d][r] <= 1)
  <2>0. accepts[c][r] \in Nat /\ accepts[d][r] \in Nat
    BY <1>t
  <2>1. /\ accepts[c][r] <= 1 /\ (c # d => accepts[c][r] + accepts[d][r] <= 1)
    BY <1>0, <1>5 DEF AcceptedAtMostOnce
  <2>2. /\ row[c].payload \in Payload \ Blind /\ row[d].payload \in Payload \ Blind
        /\ BaseVersion[row[c].payload][r] = BaseVersion[row[d].payload][r]
    BY <1>5 DEF Competes
  <2>3. ASSUME r \in bwk[w].acc[c] \/ r \in bwk[w].acc[d]
        PROVE  accepts[c][r] = 0 /\ accepts[d][r] = 0
    <3>1. /\ version[r] <= BaseVersion[row[c].payload][r]
          /\ BaseVersion[row[c].payload][r] \in Nat /\ version[r] \in Nat
      BY <1>2, <1>5, <1>t, <2>2, <2>3
    <3>2. ~(version[r] > BaseVersion[row[c].payload][r])
      BY <3>1
    <3>3. ~(accepts[c][r] > 0) /\ ~(accepts[d][r] > 0)
      BY <1>0, <1>5, <2>2, <3>2 DEF VersionsMoved
    <3> QED BY <2>0, <3>3
  <2>4. c # d => ~(r \in bwk[w].acc[c] /\ r \in bwk[w].acc[d])
    BY <1>0, <1>5 DEF TxAcceptsOnce
  <2>5. /\ r \in bwk[w].acc[c] => accepts'[c][r] = accepts[c][r] + 1
        /\ r \notin bwk[w].acc[c] => accepts'[c][r] = accepts[c][r]
        /\ r \in bwk[w].acc[d] => accepts'[d][r] = accepts[d][r] + 1
        /\ r \notin bwk[w].acc[d] => accepts'[d][r] = accepts[d][r]
    BY <1>3
  <2> QED BY <2>0, <2>1, <2>3, <2>4, <2>5
<1>6. AcceptedAtMostOnce'
  BY <1>0, <1>5 DEF AcceptedAtMostOnce, Competes
<1> QED BY <1>4, <1>6

LEMMA TransactionStep == TransactionInv /\ [BatchNext]_allVars => TransactionInv'
<1> SUFFICES ASSUME TransactionInv, [BatchNext]_allVars PROVE TransactionInv'
  OBVIOUS
<1>1. BatchShape' /\ RowsKept
  BY BatchShapeStep DEF TransactionInv
<1>2. OpenTransactions'
  BY <1>1, TransactionsStep
<1>3. CASE SingleNext
  <2>1. /\ Shape /\ Shape' /\ LocksHeld /\ VersionsMoved /\ AcceptedAtMostOnce /\ [Next]_vars
    BY <1>1, <1>3 DEF TransactionInv, BatchShape, SingleNext
  <2>2. LocksHeld' /\ VersionsMoved' /\ AcceptedAtMostOnce'
    BY <2>1, LocksHeldStep, VersionsMovedStep, AcceptedOnceStep
  <2> QED BY <1>1, <1>2, <2>2 DEF TransactionInv
<1>4. CASE ~SingleNext
  <2>1. LocksHeld'
    BY <1>1, <1>4, LocksHeldBeside
  <2>2. VersionsMoved' /\ AcceptedAtMostOnce'
    BY <1>1, <1>4, BatchLeaves, SameAccepts, CommitKeepsOnce
  <2> QED BY <1>1, <1>2, <2>1, <2>2 DEF TransactionInv
<1> QED BY <1>3, <1>4

LEMMA BatchInitShape == BatchInit => TransactionInv
<1> SUFFICES ASSUME BatchInit PROVE TransactionInv
  OBVIOUS
<1>0. Init /\ Shape
  BY InitShape DEF BatchInit
<1>1. LocksHeld /\ VersionsMoved /\ AcceptedAtMostOnce
  <2>1. LocksHeld
    BY <1>0 DEF Init, LocksHeld, IdleWorker
  <2>2. VersionsMoved
    BY <1>0, VersionAssumption DEF Init, VersionsMoved
  <2>3. AcceptedAtMostOnce
    BY <1>0 DEF Init, AcceptedAtMostOnce
  <2> QED BY <2>1, <2>2, <2>3
<1>2. /\ \A w \in Worker : bwk[w] = IdleBatch
      /\ bwk = [w \in Worker |-> IdleBatch] /\ bjob = [s \in Session |-> NoBatch]
      /\ breq = [b \in BatchRequest |-> [pc |-> "find", i |-> 1, pending |-> <<>>, reply |-> "none"]]
  BY DEF BatchInit
<1>3. BatchTypeOK
  <2>1. NoBatch \in BatchJobType
    BY DEF NoBatch, BatchJobType
  <2>2. [pc |-> "find", i |-> 1, pending |-> <<>>, reply |-> "none"] \in BatchReqType
    BY DEF BatchReqType
  <2>3. IdleBatch \in BatchWorkerType
    BY IdleSlot
  <2> QED BY <1>2, <2>1, <2>2, <2>3 DEF BatchTypeOK
<1>4. BatchInLoops
  <2>1. \A w \in Worker : BatchWorkerInLoop(w)
    <3>1. \A w \in Worker :
            bwk[w].pc = "idle" /\ bwk[w].pending = <<>> /\ bwk[w].chunks = <<>>
      BY <1>2, IdleSlot
    <3> QED BY <3>1 DEF BatchWorkerInLoop, Registered
  <2>2. \A s \in Session : BatchJobHasRows(s)
    BY <1>2 DEF NoBatch, BatchJobHasRows, Registered
  <2>3. ASSUME NEW b \in BatchRequest PROVE BatchRequestInLoop(b)
    <3>1. breq[b].pc = "find" /\ breq[b].i = 1 /\ breq[b].pending = <<>>
      BY <1>2
    <3>2. 1 <= Len(BatchOf[b])
      <4> DEFINE chunks == BatchOf[b]
      <4>1. chunks \in Seq([chunk : Chunk, payload : Payload]) /\ chunks # <<>>
        BY BatchAssumption
      <4> HIDE DEF chunks
      <4>2. 1 <= Len(chunks)
        BY <4>1
      <4> QED BY <4>2 DEF chunks
    <3> QED BY <3>1, <3>2 DEF BatchRequestInLoop, Registered
  <2> QED BY <2>1, <2>2, <2>3 DEF BatchInLoops
<1>5. OneJobPerSlot /\ OpenTransactions
  BY <1>2, IdleSlot
     DEF OneJobPerSlot, OpenTransactions, TxStartsEmpty, TxHoldsLocks, TxMovesVersions,
         TxAcceptsOnce, InTx
<1> QED BY <1>0, <1>1, <1>3, <1>4, <1>5 DEF TransactionInv, BatchShape

LEMMA Transactions == BatchSpec => []TransactionInv
BY BatchInitShape, TransactionStep, PTL DEF BatchSpec

\* Beside batches too, of all deliveries of all chunks that carry the same base
\* version of a stored record at most one is accepted, also within one batch.
THEOREM BatchAcceptedOnce == BatchSpec => []AcceptedAtMostOnce
<1>1. TransactionInv => AcceptedAtMostOnce
  BY DEF TransactionInv
<1> QED BY <1>1, Transactions, PTL

-----------------------------------------------------------------------------
(* A row that a batch has marked completed ahead of its commit is accounted for *)

\* The faults of the outbox and the deaths of workers are left out: the process or
\* its connection to the outbox may not be lost between markCompleted and the end
\* of the transaction.
WorkersLive == "crash" \notin FaultKinds /\ "outbox" \notin FaultKinds

AccountedInv == TransactionInv /\ ResultCommitted /\ TxCovers /\ CompletedOrInFlight

\* Committed writes and conflicts of a batch are added to those there are.
LEMMA BatchDataMonotone ==
    ASSUME BatchShape, [BatchNext]_allVars, NEW c \in Chunk
    PROVE  /\ \A r \in Record : accepts[c][r] > 0 => accepts'[c][r] > 0
           /\ conflictLog[c] \subseteq conflictLog'[c]
<1>1. CASE SingleNext
  BY <1>1, DataMonotone DEF SingleNext, BatchShape
<1>2. ASSUME NEW w \in Worker, BCommit(w)
      PROVE  /\ \A r \in Record : accepts[c][r] > 0 => accepts'[c][r] > 0
             /\ conflictLog[c] \subseteq conflictLog'[c]
  <2>1. accepts[c] \in [Record -> Nat]
    BY DEF BatchShape, Shape, TypeOK
  <2>2. /\ \A r \in Record : accepts'[c][r] \in {accepts[c][r], accepts[c][r] + 1}
        /\ conflictLog'[c] = conflictLog[c] \cup bwk[w].con[c]
    BY <1>2, BCommitDoes DEF BCommitEffect
  <2> QED BY <2>1, <2>2
<1> QED BY <1>1, <1>2, BatchLeaves

\* What is applied stays applied.
LEMMA BatchAppliedStable ==
    ASSUME BatchShape, RowsKept, [BatchNext]_allVars, NEW c \in Chunk,
           row[c].payload # Nil, Applied(c)
    PROVE  Applied(c)'
<1>1. row[c].payload \in Payload /\ row'[c].payload = row[c].payload
  BY DEF BatchShape, Shape, TypeOK, RowType, RowsKept
<1>2. Touches[row[c].payload] \subseteq Record
  BY <1>1, TouchesAssumption
<1> QED BY <1>1, <1>2, BatchDataMonotone DEF Applied

LEMMA ResultCommittedBeside ==
    ASSUME BatchShape, RowsKept, ResultCommitted, [BatchNext]_allVars
    PROVE  ResultCommitted'
<1>1. CASE SingleNext
  BY <1>1, ResultCommittedStep DEF SingleNext, BatchShape
<1>2. CASE ~SingleNext
  <2> SUFFICES ASSUME NEW w \in Worker, wk'[w].pc = "mark"
               PROVE  LET c == wk'[w].job
                          h == row'[c].payload
                      IN  /\ \A r \in AcceptedOf(h, wk'[w].seen) : accepts'[c][r] > 0
                          /\ ConflictedOf(h, wk'[w].seen) \subseteq conflictLog'[c]
    BY DEF ResultCommitted, AcceptedOf, ConflictedOf
  <2> DEFINE c == wk[w].job
             h == row[c].payload
             acc == AcceptedOf(h, wk[w].seen)
             con == ConflictedOf(h, wk[w].seen)
  <2>1. UNCHANGED wk /\ wk[w].pc = "mark"
    BY <1>2, BatchLeaves
  <2>2. c \in Chunk /\ h \in Payload /\ row'[c].payload = h /\ acc \in SUBSET Record
    BY <2>1, AtWork, PayloadData DEF BatchShape, RowsKept
  <2>3. (\A r \in acc : accepts[c][r] > 0) /\ con \subseteq conflictLog[c]
    BY <2>1 DEF ResultCommitted
  <2> HIDE DEF acc, con, h, c
  <2>4. (\A r \in acc : accepts'[c][r] > 0) /\ con \subseteq conflictLog'[c]
    BY <2>2, <2>3, BatchDataMonotone
  <2> QED BY <2>1, <2>2, <2>4 DEF acc, con, c
<1> QED BY <1>1, <1>2

\* The chunk at place k of the list of w is covered by its transaction.
Covered(w, k) ==
    Touches[row[bwk[w].pending[k]].payload]
        \subseteq bwk[w].acc[bwk[w].pending[k]] \cup bwk[w].con[bwk[w].pending[k]]

LEMMA CoversIsCovered == TxCovers <=> \A w \in Worker : InTx(w) => \A k \in 1 .. Through(w) : Covered(w, k)
BY DEF TxCovers, Covered

\* An open transaction has been through no more chunks than there are.
LEMMA ThroughList ==
    ASSUME BatchShape, NEW w \in Worker, InTx(w), NEW k \in 1 .. Through(w)
    PROVE  /\ k \in 1 .. Len(bwk[w].pending) /\ bwk[w].pending[k] \in Chunk
           /\ row[bwk[w].pending[k]].payload # Nil
<1> DEFINE pending == bwk[w].pending
           n == bwk[w].i
<1>1. pending \in Seq(Chunk) /\ n \in Nat \ {0} /\ n <= Len(pending) /\ Registered(pending)
  BY DEF InTx, BatchShape, BatchTypeOK, BatchWorkerType, BatchInLoops, BatchWorkerInLoop
<1>2. Through(w) \in {n - 1, n, Len(pending)}
  BY DEF Through
<1>3. k \in 1 .. Through(w)
  OBVIOUS
<1> HIDE DEF pending, n
<1>4. Len(pending) \in Nat
  BY <1>1
<1>5. k \in 1 .. Len(pending)
  BY <1>1, <1>2, <1>3, <1>4
<1>6. pending[k] \in Chunk /\ row[pending[k]].payload # Nil
  BY <1>1, <1>5, ElementOfList DEF Registered
<1> QED BY <1>5, <1>6 DEF pending

\* A slot moves only by its own steps.
LEMMA SlotsStep ==
    ASSUME BatchShape, [BatchNext]_allVars, NEW w \in Worker
    PROVE  \/ bwk'[w] = bwk[w]
           \/ ProcessStep(w)
           \/ /\ bwk[w].pc \in {"idle", "finish", "throw"}
              /\ bwk'[w].pc \in {"idle", "load"}
<1>1. CASE SingleNext \/ UNCHANGED allVars
  BY <1>1 DEF SingleNext
<1>2. CASE \/ \E b \in BatchRequest : BatchRequestNext(b) \/ BRequestFails(b)
           \/ \E s \in Session : BStalled(s) \/ BForget(s)
  BY <1>2 DEF BatchRequestNext, BRequestFails, BFind, BCreate, BReread, BAdd, BMarkQueued,
              BStalled, BForget
<1>3. ASSUME NEW v \in Worker, NEW s \in Session, BTake(v, s)
      PROVE  bwk'[w] = bwk[w] \/ (bwk[w].pc = "idle" /\ bwk'[w].pc = "load")
  <2> DEFINE z == Taken(s)
  <2>1. /\ bwk' = [bwk EXCEPT ![v] = z] /\ bwk[v].pc = "idle"
        /\ bwk \in [Worker -> BatchWorkerType]
    BY <1>3 DEF BTake, Taken, BatchShape, BatchTypeOK
  <2>2. z.pc = "load"
    BY TakenSlot DEF BatchShape
  <2> HIDE DEF z
  <2> QED BY <2>1, <2>2
<1>4. ASSUME NEW v \in Worker, BFinish(v) \/ BThrow(v)
      PROVE  \/ bwk'[w] = bwk[w]
             \/ bwk[w].pc \in {"finish", "throw"} /\ bwk'[w].pc = "idle"
  <2>1. SlotMoved(v) /\ bwk'[v].pc = "idle" /\ bwk[v].pc \in {"finish", "throw"}
    BY <1>4, FreeSlot DEF BFinish, BThrow
  <2> QED BY <2>1 DEF SlotMoved
<1>5. ASSUME NEW v \in Worker, ProcessStep(v)
      PROVE  bwk'[w] = bwk[w] \/ ProcessStep(w)
  <2>1. SlotMoved(v)
    BY <1>5, ProcessRows, ProcessMoves DEF ProcessMove
  <2> QED BY <1>5, <2>1 DEF SlotMoved
<1> QED BY <1>1, <1>2, <1>3, <1>4, <1>5, BatchActors

\* What an open transaction of a batch covers it keeps covering, and each split
\* covers one chunk more.
LEMMA TxCoversStep ==
    ASSUME BatchShape, RowsKept, TxCovers, [BatchNext]_allVars
    PROVE  TxCovers'
<1> SUFFICES ASSUME NEW w \in Worker, InTx(w)', NEW k \in 1 .. Through(w)'
             PROVE  Covered(w, k)'
  BY DEF TxCovers, Covered
<1>p. \A c \in Chunk : row[c].payload # Nil => row'[c].payload = row[c].payload
  BY DEF RowsKept
<1>1. CASE bwk'[w] = bwk[w]
  <2>1. InTx(w) /\ Through(w)' = Through(w)
    BY <1>1 DEF InTx, Through
  <2>2. k \in 1 .. Through(w)
    BY <2>1
  <2>3. Covered(w, k) /\ bwk[w].pending[k] \in Chunk /\ row[bwk[w].pending[k]].payload # Nil
    BY <2>1, <2>2, CoversIsCovered, ThroughList
  <2> QED BY <1>1, <1>p, <2>3 DEF Covered
<1>2. CASE ProcessStep(w)
  <2>2. BSplit(w) \/ BMarkProcessing(w) \/ BMarkCompleted(w)
    BY <1>2, ProcessMoves DEF ProcessMove
  <2>t. bwk[w].i \in Nat \ {0} /\ bwk[w].pending \in Seq(Chunk)
    BY DEF BatchShape, BatchTypeOK, BatchWorkerType
  <2>3. CASE BMarkProcessing(w)
    <3>1. /\ bwk[w].pc = "start"
          /\ IF IsLast(w) THEN BStep(w, "split", 1) ELSE BStep(w, "start", bwk[w].i + 1)
      BY <2>3 DEF BMarkProcessing
    <3>2. SlotStepped(w, "split", 1) \/ SlotStepped(w, "start", bwk[w].i + 1)
      BY <3>1, LoopFrame
    <3>3. Through(w)' = 0
      BY <3>2 DEF SlotStepped, InTx, Through
    <3> QED BY <3>3
  <2>4. CASE BMarkCompleted(w)
    <3>1. /\ bwk[w].pc = "mark" /\ InTx(w)
          /\ IF IsLast(w) THEN BStep(w, "commit", 1) ELSE BStep(w, "split", bwk[w].i + 1)
      BY <2>4 DEF BMarkCompleted, InTx
    <3>2. \/ IsLast(w) /\ SlotStepped(w, "commit", 1)
          \/ SlotStepped(w, "split", bwk[w].i + 1)
      BY <3>1, LoopFrame
    <3>3. Through(w) = bwk[w].i
      BY <3>1 DEF Through
    <3>4. Through(w)' = bwk[w].i
      <4>1. CASE IsLast(w) /\ SlotStepped(w, "commit", 1)
        BY <4>1 DEF SlotStepped, Through, IsLast
      <4>2. CASE SlotStepped(w, "split", bwk[w].i + 1)
        <5>1. Through(w)' = bwk'[w].i - 1 /\ bwk'[w].i = bwk[w].i + 1
          BY <4>2 DEF SlotStepped, Through
        <5> QED BY <5>1, <2>t
      <4> QED BY <3>2, <4>1, <4>2
    <3>5. k \in 1 .. Through(w)
      BY <3>3, <3>4
    <3>6. Covered(w, k) /\ bwk[w].pending[k] \in Chunk /\ row[bwk[w].pending[k]].payload # Nil
      BY <3>1, <3>5, CoversIsCovered, ThroughList
    <3>7. /\ bwk'[w].pending = bwk[w].pending /\ bwk'[w].acc = bwk[w].acc
          /\ bwk'[w].con = bwk[w].con
      BY <3>2 DEF SlotStepped
    <3> QED BY <1>p, <3>6, <3>7 DEF Covered
  <2>5. CASE BSplit(w)
    <3> DEFINE c == Current(w)
               d == bwk[w].pending[k]
    <3>1. /\ BSplitEffect(w) /\ bwk[w].pc = "split" /\ InTx(w) /\ UNCHANGED row
      BY <2>5, BSplitDoes DEF BSplit, InTx
    <3>2. /\ bwk'[w].pending = bwk[w].pending /\ Through(w)' = bwk[w].i
          /\ Through(w) = bwk[w].i - 1 /\ c = bwk[w].pending[bwk[w].i]
      BY <3>1 DEF BSplitEffect, Through, Current
    <3>3. k = bwk[w].i \/ k \in 1 .. Through(w)
      BY <2>t, <3>2
    <3>4. Touches[row[c].payload] \subseteq bwk'[w].acc[c] \cup bwk'[w].con[c]
      <4>1. /\ bwk'[w].acc[c] = bwk[w].acc[c] \cup SplitAcc(w) /\ bwk'[w].con[c] = SplitCon(w)
        BY <3>1 DEF BSplitEffect
      <4>2. Touches[row[c].payload] = SplitAcc(w) \cup SplitCon(w)
        BY <3>1, SplitTypes
      <4> HIDE DEF c
      <4> QED BY <4>1, <4>2
    <3>5. CASE d = c
      BY <3>1, <3>2, <3>4, <3>5 DEF Covered
    <3>6. CASE d # c
      <4>1. k \in 1 .. Through(w)
        BY <3>2, <3>3, <3>6
      <4>2. Covered(w, k) /\ d \in Chunk
        BY <3>1, <4>1, CoversIsCovered, ThroughList
      <4>3. bwk'[w].acc[d] = bwk[w].acc[d] /\ bwk'[w].con[d] = bwk[w].con[d]
        BY <3>1, <3>6, <4>2 DEF BSplitEffect
      <4> QED BY <3>1, <3>2, <4>2, <4>3 DEF Covered
    <3> QED BY <3>5, <3>6
  <2> QED BY <2>2, <2>3, <2>4, <2>5
<1>3. CASE bwk'[w].pc \in {"idle", "load"}
  BY <1>3 DEF InTx
<1> QED BY <1>1, <1>2, <1>3, SlotsStep

\* The completed row of a single push is applied.
LEMMA MarkedIsApplied ==
    ASSUME Shape, ResultCommitted, NEW w \in Worker, MarkCompleted(w),
           NEW c \in Chunk, wk[w].job = c
    PROVE  Applied(c)'
<1> DEFINE h == row[c].payload
           acc == AcceptedOf(h, wk[w].seen)
           con == ConflictedOf(h, wk[w].seen)
<1>1. wk[w].pc = "mark" /\ UNCHANGED <<accepts, conflictLog>>
  BY DEF MarkCompleted
<1>2. h \in Payload
  BY <1>1, AtWork
<1>3. row'[c].payload = h
  BY <1>2 DEF MarkCompleted, Shape, TypeOK, RowType
<1>4. (\A r \in acc : accepts[c][r] > 0) /\ con \subseteq conflictLog[c]
  BY <1>1 DEF ResultCommitted
<1>5. Touches[h] = acc \cup con
  BY DEF ConflictedOf, AcceptedOf
<1> HIDE DEF acc, con
<1> QED BY <1>1, <1>2, <1>3, <1>4, <1>5 DEF Applied

\* Which step completes a row, and which takes a completed row back.
LEMMA BatchRowsStep ==
    ASSUME BatchShape, [BatchNext]_allVars, NEW c \in Chunk, row'[c].status \in Completed
    PROVE  \/ row[c].status \in Completed
           \/ \E w \in Worker : wk[w].job = c /\ MarkCompleted(w)
           \/ \E w \in Worker : Current(w) = c /\ BMarkCompleted(w)
<1>t. row \in [Chunk -> RowType] /\ breq \in [BatchRequest -> BatchReqType]
  BY DEF BatchShape, BatchTypeOK, Shape, TypeOK
<1>0. CASE UNCHANGED row
  BY <1>0
<1>1. CASE SingleNext
  <2>1. Shape /\ [Next]_vars
    BY <1>1 DEF BatchShape, SingleNext
  <2> QED BY <2>1, RowsStep DEF RowInserted, RowReset
<1>2. ASSUME NEW b \in BatchRequest, BCreate(b)
      PROVE  row'[c] = row[c] \/ row'[c].status = "PENDING"
  <2> DEFINE d == Item(b).chunk
             new == [NoRow EXCEPT !.status = "PENDING", !.payload = Item(b).payload]
  <2>1. row' = [row EXCEPT ![d] = new] \/ UNCHANGED row
    BY <1>2 DEF BCreate
  <2>2. new.status = "PENDING"
    BY DEF NoRow
  <2> HIDE DEF new, d
  <2> QED BY <1>t, <2>1, <2>2
<1>3. ASSUME NEW b \in BatchRequest, BMarkQueued(b)
      PROVE  row'[c] = row[c] \/ row'[c].status = "QUEUED"
  <2> DEFINE d == breq[b].pending[breq[b].i]
             q == [row[d] EXCEPT !.status = "QUEUED"]
  <2>1. row' = [row EXCEPT ![d] = q]
    BY <1>3 DEF BMarkQueued
  <2>2. d = c => q.status = "QUEUED"
    BY <1>t DEF RowType
  <2> HIDE DEF q, d
  <2> QED BY <1>t, <2>1, <2>2
<1>4. CASE \E b \in BatchRequest : BatchRequestNext(b) \/ BRequestFails(b)
  <2>1. (\E b \in BatchRequest : BCreate(b) \/ BMarkQueued(b)) \/ UNCHANGED row
    BY <1>4 DEF BatchRequestNext, BRequestFails, BFind, BReread, BAdd
  <2> QED BY <2>1, <1>0, <1>2, <1>3
<1>5. CASE \/ \E s \in Session : BStalled(s) \/ BForget(s)
           \/ \E w \in Worker, s \in Session : BTake(w, s)
           \/ \E w \in Worker : BFinish(w) \/ BThrow(w)
           \/ UNCHANGED allVars
  BY <1>0, <1>5 DEF BStalled, BForget, BTake, BFinish, BThrow
<1>6. ASSUME NEW w \in Worker, BMarkProcessing(w) \/ BMarkFailed(w)
      PROVE  row'[c] = row[c] \/ row'[c].status \notin Completed
  <2>1. Current(w) \in Chunk
    BY <1>6, AtChunk DEF BMarkProcessing, BMarkFailed
  <2>2. PICK s \in {"PROCESSING", "DEAD_LETTER", "FAILED"} :
            row' = [row EXCEPT ![Current(w)].status = s]
    BY <1>6 DEF BMarkProcessing, BMarkFailed
  <2>3. RowMoved(Current(w), s)
    <3>1. s \in Statuses
      OBVIOUS
    <3> QED BY <1>t, <2>1, <2>2, <3>1, StatusFrame
  <2> QED BY <2>3 DEF RowMoved
<1>7. ASSUME NEW w \in Worker, BMarkCompleted(w)
      PROVE  row'[c] = row[c] \/ Current(w) = c
  BY <1>7, BMarkCompletedRow DEF BResult, RowMoved
<1>8. CASE \E w \in Worker : ProcessStep(w)
  <2>1. \/ \E w \in Worker : BMarkProcessing(w) \/ BMarkFailed(w) \/ BMarkCompleted(w)
        \/ UNCHANGED row
    BY <1>8 DEF ProcessStep, BLoad, BSplit, BCommit, BTxFails, BOutboxFails, BCrash
  <2> QED BY <2>1, <1>0, <1>6, <1>7
<1> QED BY <1>1, <1>4, <1>5, <1>8, BatchActors

\* A commit of a batch applies every chunk it lists.
LEMMA CommitApplies ==
    ASSUME BatchShape, TxCovers, NEW w \in Worker, BCommit(w),
           NEW k \in 1 .. Len(bwk[w].pending), NEW c \in Chunk, bwk[w].pending[k] = c
    PROVE  Applied(c)'
<1> DEFINE h == row[c].payload
<1>1. InTx(w) /\ Through(w) = Len(bwk[w].pending) /\ UNCHANGED row
  BY DEF BCommit, InTx, Through
<1>2. Covered(w, k) /\ h # Nil
  BY <1>1, CoversIsCovered, ThroughList
<1>3. BCommitEffect(w)
  BY BCommitDoes
<1>4. h \in Payload /\ accepts[c] \in [Record -> Nat]
  BY <1>2 DEF BatchShape, Shape, TypeOK, RowType
<1>5. Touches[h] \subseteq Record /\ Touches[h] \subseteq bwk[w].acc[c] \cup bwk[w].con[c]
  BY <1>2, <1>4, TouchesAssumption DEF Covered
<1>6. /\ \A r \in Record : r \in bwk[w].acc[c] => accepts'[c][r] = accepts[c][r] + 1
      /\ conflictLog'[c] = conflictLog[c] \cup bwk[w].con[c]
  BY <1>3 DEF BCommitEffect
<1> HIDE DEF h
<1>7. \A r \in Touches[h] : accepts'[c][r] > 0 \/ r \in conflictLog'[c]
  BY <1>4, <1>5, <1>6
<1>8. row'[c].payload = h
  BY <1>1 DEF h
<1> QED BY <1>7, <1>8 DEF Applied

\* Who was in flight with a chunk still is, or has committed it or marked it failed.
LEMMA InFlightStep ==
    ASSUME BatchShape, RowsKept, TxCovers, WorkersLive, [BatchNext]_allVars,
           NEW w \in Worker, NEW c \in Chunk, InFlight(w, c), row'[c].status \in Completed
    PROVE  InFlight(w, c)' \/ Applied(c)'
<1>1. PICK k \in 1 .. Len(bwk[w].pending) :
        /\ bwk[w].pending[k] = c
        /\ \/ bwk[w].pc \in {"split", "mark", "commit"}
           \/ bwk[w].pc = "catch" /\ k >= bwk[w].i
  BY DEF InFlight
<1>2. CASE bwk'[w] = bwk[w]
  BY <1>1, <1>2 DEF InFlight
<1>3. CASE ProcessStep(w)
  <2>t. /\ bwk[w].i \in Nat \ {0} /\ bwk[w].pending \in Seq(Chunk) /\ BatchTypeOK
        /\ Len(bwk[w].pending) \in Nat /\ row \in [Chunk -> RowType] /\ 1 \in Nat \ {0}
    BY DEF BatchShape, BatchTypeOK, BatchWorkerType, Shape, TypeOK
  <2>0. bwk[w].pc \in {"split", "mark", "commit", "catch"}
    BY <1>1
  <2>1. ASSUME NEW l \in {"split", "mark", "commit"}, bwk'[w].pc = l,
               bwk'[w].pending = bwk[w].pending
        PROVE  InFlight(w, c)'
    BY <1>1, <2>1 DEF InFlight
  <2>2. CASE BSplit(w)
    <3>1. BSplitEffect(w)
      BY <2>2, BSplitDoes
    <3> QED BY <3>1, <2>1 DEF BSplitEffect
  <2>3. CASE BMarkCompleted(w)
    <3>1. /\ bwk[w].pc = "mark"
          /\ IF IsLast(w) THEN BStep(w, "commit", 1) ELSE BStep(w, "split", bwk[w].i + 1)
      BY <2>3 DEF BMarkCompleted
    <3>2. SlotStepped(w, "commit", 1) \/ SlotStepped(w, "split", bwk[w].i + 1)
      BY <3>1, LoopFrame
    <3> QED BY <3>2, <2>1 DEF SlotStepped
  <2>4. CASE BCommit(w)
    BY <1>1, <2>4, CommitApplies
  <2>5. CASE BTxFails(w)
    <3>1. SlotStepped(w, "catch", 1)
      BY <2>5, <2>t, BStepFrame DEF BTxFails
    <3>2. k >= 1
      BY <1>1
    <3> QED BY <1>1, <3>1, <3>2 DEF InFlight, SlotStepped
  <2>6. CASE BMarkFailed(w)
    <3>1. /\ bwk[w].pc = "catch" /\ k >= bwk[w].i
          /\ IF IsLast(w) THEN BStep(w, "throw", 1) ELSE BStep(w, "catch", bwk[w].i + 1)
      BY <1>1, <2>6 DEF BMarkFailed
    <3>2. k # bwk[w].i
      <4> SUFFICES ASSUME k = bwk[w].i PROVE FALSE
        OBVIOUS
      <4>1. Current(w) = c
        BY <1>1 DEF Current
      <4>2. PICK s \in {"FAILED", "DEAD_LETTER"} : row' = [row EXCEPT ![c].status = s]
        BY <2>6, <4>1 DEF BMarkFailed
      <4>3. s \in Statuses
        OBVIOUS
      <4>4. RowMoved(c, s)
        BY <2>t, <4>2, <4>3, StatusFrame
      <4> QED BY <4>4 DEF RowMoved
    <3>3. ~IsLast(w) /\ k >= bwk[w].i + 1
      BY <1>1, <2>t, <3>1, <3>2 DEF IsLast
    <3>4. SlotStepped(w, "catch", bwk[w].i + 1)
      BY <3>1, <3>3, LoopFrame
    <3> QED BY <1>1, <3>3, <3>4 DEF InFlight, SlotStepped
  <2>7. ~BOutboxFails(w) /\ ~BCrash(w)
    BY DEF WorkersLive, BOutboxFails, BCrash, Fault
  <2>8. ~BLoad(w) /\ ~BMarkProcessing(w)
    BY <2>0 DEF BLoad, BMarkProcessing
  <2> QED BY <1>3, <2>2, <2>3, <2>4, <2>5, <2>6, <2>7, <2>8 DEF ProcessStep
<1>4. bwk[w].pc \notin {"idle", "finish", "throw"}
  BY <1>1
<1> QED BY <1>2, <1>3, <1>4, SlotsStep

LEMMA CompletedOrInFlightStep ==
    ASSUME BatchShape, RowsKept, ResultCommitted, TxCovers, CompletedOrInFlight, WorkersLive,
           [BatchNext]_allVars
    PROVE  CompletedOrInFlight'
<1> SUFFICES ASSUME NEW c \in Chunk, row'[c].status \in Completed
             PROVE  Applied(c)' \/ \E w \in Worker : InFlight(w, c)'
  BY DEF CompletedOrInFlight
<1>1. CASE row[c].status \in Completed
  <2>1. row[c].payload # Nil
    BY <1>1 DEF BatchShape, Shape, RowsExist, PayloadIffRow
  <2>2. Applied(c) \/ \E w \in Worker : InFlight(w, c)
    BY <1>1 DEF CompletedOrInFlight
  <2> QED BY <2>1, <2>2, BatchAppliedStable, InFlightStep
<1>2. ASSUME NEW w \in Worker, wk[w].job = c, MarkCompleted(w) PROVE Applied(c)'
  BY <1>2, MarkedIsApplied DEF BatchShape
<1>3. ASSUME NEW w \in Worker, Current(w) = c, BMarkCompleted(w) PROVE InFlight(w, c)'
  <2>1. /\ bwk[w].pc = "mark"
        /\ IF IsLast(w) THEN BStep(w, "commit", 1) ELSE BStep(w, "split", bwk[w].i + 1)
    BY <1>3 DEF BMarkCompleted
  <2>2. SlotStepped(w, "commit", 1) \/ SlotStepped(w, "split", bwk[w].i + 1)
    BY <2>1, LoopFrame
  <2>3. bwk[w].i \in 1 .. Len(bwk[w].pending) /\ bwk[w].pending[bwk[w].i] = c
    BY <1>3, <2>1, AtChunk DEF Current
  <2>4. bwk'[w].pending = bwk[w].pending /\ bwk'[w].pc \in {"split", "mark", "commit"}
    BY <2>2 DEF SlotStepped
  <2> QED BY <2>3, <2>4 DEF InFlight
<1> QED BY <1>1, <1>2, <1>3, BatchRowsStep

LEMMA Accounted == ASSUME WorkersLive PROVE BatchSpec => []AccountedInv
<1>1. BatchInit => AccountedInv
  <2> SUFFICES ASSUME BatchInit PROVE AccountedInv
    OBVIOUS
  <2>1. Init /\ \A w \in Worker : bwk[w].pc = "idle"
    BY IdleSlot DEF BatchInit
  <2>2. ResultCommitted
    BY <2>1 DEF Init, ResultCommitted, IdleWorker
  <2>3. TxCovers
    BY <2>1 DEF TxCovers, InTx
  <2>4. CompletedOrInFlight
    BY <2>1 DEF Init, CompletedOrInFlight, NoRow
  <2> QED BY <2>2, <2>3, <2>4, BatchInitShape DEF AccountedInv
<1>2. AccountedInv /\ [BatchNext]_allVars => AccountedInv'
  <2> SUFFICES ASSUME AccountedInv, [BatchNext]_allVars PROVE AccountedInv'
    OBVIOUS
  <2>1. TransactionInv' /\ RowsKept /\ BatchShape
    BY TransactionStep, BatchShapeStep DEF AccountedInv, TransactionInv
  <2> QED BY <2>1, ResultCommittedBeside, TxCoversStep, CompletedOrInFlightStep DEF AccountedInv
<1> QED BY <1>1, <1>2, PTL DEF BatchSpec

\* As long as no worker dies and the outbox answers it, a row that a batch has marked
\* completed is applied, or its transaction is open, or the catch block is about to
\* mark it failed; slow workers, stalled jobs and failed requests change nothing of that.
THEOREM BatchCompletedIsAccounted == ASSUME WorkersLive PROVE BatchSpec => []CompletedOrInFlight
<1>1. AccountedInv => CompletedOrInFlight
  BY DEF AccountedInv
<1> QED BY <1>1, Accounted, PTL

-----------------------------------------------------------------------------
(* A batch job that is counted as completed has applied its chunks *)

\* The chunks of one HTTP batch belong to one synchronisation session, as the id of
\* its job, made of the session of the first chunk, supposes; the server does not
\* check it.
OneSession ==
    \A b \in BatchRequest : \A k \in 1 .. Len(BatchOf[b]) :
        SessionOf[BatchOf[b][k].chunk] = SessionOf[BatchOf[b][1].chunk]

\* No worker dies, loses the outbox or loses the lock of its job.
WorkersKeepJobs == WorkersLive /\ "stall" \notin FaultKinds

OfSession(chunks, s) == \A k \in 1 .. Len(chunks) : SessionOf[chunks[k]] = s

\* What a request lists, a job carries and a worker has loaded is of one session.
SessionsApart ==
    /\ \A b \in BatchRequest : OfSession(breq[b].pending, SessionOf[BatchOf[b][1].chunk])
    /\ \A s \in Session : OfSession(bjob[s].chunks, s)
    /\ \A w \in Worker : bwk[w].pc # "idle" => OfSession(bwk[w].pending, bwk[w].job)

\* A busy worker holds its job and has the chunks of it, and an active job has its worker.
BatchOwned ==
    /\ \A w \in Worker : bwk[w].pc # "idle" =>
            HoldsBatch(w) /\ bwk[w].chunks = bjob[bwk[w].job].chunks
    /\ \A s \in Session : bjob[s].state = "active" =>
            \E w \in Worker : bwk[w].pc # "idle" /\ bwk[w].job = s /\ bjob[s].owner = w

\* Chunk c is in the list of job s, among those worker w has loaded, among those it
\* is to apply.
InJob(s, c)  == \E k \in 1 .. Len(bjob[s].chunks) : bjob[s].chunks[k] = c
Loaded(w, c) == \E k \in 1 .. Len(bjob[bwk[w].job].chunks) :
                    k < bwk[w].i /\ bjob[bwk[w].job].chunks[k] = c
Listed(w, c) == \E k \in 1 .. Len(bwk[w].pending) : bwk[w].pending[k] = c

\* What worker w does not list of its job is applied, and all of it once it finishes.
ToDo(w) ==
    \A c \in Chunk :
        /\ bwk[w].pc = "load" /\ Loaded(w, c) => Applied(c) \/ Listed(w, c)
        /\ bwk[w].pc \in {"start", "split", "mark", "commit"} /\ InJob(bwk[w].job, c) =>
                Applied(c) \/ Listed(w, c)
        /\ bwk[w].pc = "finish" /\ InJob(bwk[w].job, c) => Applied(c)

JobDone == \A s \in Session, c \in Chunk : bjob[s].state = "completed" /\ InJob(s, c) => Applied(c)

DoneInv == /\ AccountedInv /\ SessionsApart /\ BatchOwned
           /\ \A w \in Worker : ToDo(w)
           /\ JobDone

\* What the steps of the queue make of a job.
LEMMA JobStates ==
    ASSUME NEW q \in BatchJobType
    PROVE  /\ \A w \in Worker :
                LET n == [q EXCEPT !.state = "active", !.owner = w]
                IN  n.state = "active" /\ n.owner = w /\ n.chunks = q.chunks
           /\ \A st \in {"waiting", "completed", "failed"} :
                Unlocked(q, st).state = st /\ Unlocked(q, st).chunks = q.chunks
           /\ Spent(q).state \in {"waiting", "failed"} /\ Spent(q).chunks = q.chunks
<1>1. \A w \in Worker :
        LET n == [q EXCEPT !.state = "active", !.owner = w]
        IN  n.state = "active" /\ n.owner = w /\ n.chunks = q.chunks
  BY DEF BatchJobType
<1>2. \A st \in {"waiting", "completed", "failed"} :
        /\ Unlocked(q, st).state = st /\ Unlocked(q, st).chunks = q.chunks
        /\ Unlocked(q, st) \in BatchJobType
  BY DEF BatchJobType, Unlocked
<1>3. \A n \in BatchJobType :
        LET m == [n EXCEPT !.attemptsMade = @ + 1] IN m.state = n.state /\ m.chunks = n.chunks
  BY DEF BatchJobType
<1>4. Spent(q).state \in {"waiting", "failed"} /\ Spent(q).chunks = q.chunks
  BY <1>2, <1>3 DEF Spent
<1> QED BY <1>1, <1>2, <1>4

\* The end of a job that its worker still holds.
JobEnds(w) ==
    /\ \A s \in Session : s # bwk[w].job => bjob'[s] = bjob[s]
    /\ bjob'[bwk[w].job].chunks = bjob[bwk[w].job].chunks
    /\ bjob'[bwk[w].job].state \in {"waiting", "failed", "completed"}
    /\ bjob'[bwk[w].job].state = "completed" => bwk[w].pc = "finish"
    /\ bwk[w].pc # "idle" /\ bwk'[w].pc = "idle" /\ SlotMoved(w)

LEMMA EndsJob ==
    ASSUME BatchShape, BatchOwned, NEW w \in Worker, BFinish(w) \/ BThrow(w)
    PROVE  JobEnds(w)
<1> DEFINE s == bwk[w].job
<1>1. bwk[w].pc \in {"finish", "throw"} /\ BRetire(w)
  BY DEF BFinish, BThrow
<1>2. s \in Session /\ bjob \in [Session -> BatchJobType] /\ HoldsBatch(w)
  BY <1>1 DEF BatchShape, BatchTypeOK, BatchInLoops, BatchWorkerInLoop, BatchOwned
<1>3. SlotMoved(w) /\ bwk'[w].pc = "idle"
  BY <1>1, FreeSlot
<1>4. \/ /\ bwk[w].pc = "finish"
         /\ bjob' = [bjob EXCEPT ![s] = Unlocked(bjob[s], "completed")]
      \/ bjob' = [bjob EXCEPT ![s] = Spent(bjob[s])]
  BY <1>2 DEF BFinish, BThrow
<1>5. /\ Unlocked(bjob[s], "completed").state = "completed"
      /\ Unlocked(bjob[s], "completed").chunks = bjob[s].chunks
      /\ Spent(bjob[s]).state \in {"waiting", "failed"} /\ Spent(bjob[s]).chunks = bjob[s].chunks
  BY <1>2, JobStates
<1> HIDE DEF s
<1>6. /\ \A u \in Session : u # s => bjob'[u] = bjob[u]
      /\ bjob'[s].chunks = bjob[s].chunks
      /\ bjob'[s].state \in {"waiting", "failed", "completed"}
      /\ bjob'[s].state = "completed" => bwk[w].pc = "finish"
  BY <1>2, <1>4, <1>5
<1> QED BY <1>1, <1>3, <1>6 DEF JobEnds, s

\* A free slot takes a waiting job.
SlotTakes(w, s) ==
    /\ bwk[w].pc = "idle" /\ bjob[s].state = "waiting" /\ SlotMoved(w)
    /\ \A u \in Session \ {s} : bjob'[u] = bjob[u]
    /\ bjob'[s].state = "active" /\ bjob'[s].owner = w /\ bjob'[s].chunks = bjob[s].chunks
    /\ bwk'[w].pc = "load" /\ bwk'[w].job = s /\ bwk'[w].i = 1
    /\ bwk'[w].chunks = bjob[s].chunks /\ bwk'[w].pending = <<>>

LEMMA TakesJob ==
    ASSUME BatchShape, NEW w \in Worker, NEW s \in Session, BTake(w, s)
    PROVE  SlotTakes(w, s)
<1> DEFINE q == [bjob[s] EXCEPT !.state = "active", !.owner = w]
           z == Taken(s)
<1>1. /\ bjob[s].state = "waiting" /\ bwk[w].pc = "idle"
      /\ bjob' = [bjob EXCEPT ![s] = q] /\ bwk' = [bwk EXCEPT ![w] = z]
  BY DEF BTake, Taken
<1>2. bjob \in [Session -> BatchJobType] /\ bwk \in [Worker -> BatchWorkerType]
  BY DEF BatchShape, BatchTypeOK
<1>3. /\ z \in BatchWorkerType /\ z.pc = "load" /\ z.job = s /\ z.i = 1
      /\ z.chunks = bjob[s].chunks /\ z.pending = <<>>
  BY TakenSlot DEF BatchShape
<1>4. q.state = "active" /\ q.owner = w /\ q.chunks = bjob[s].chunks
  BY <1>2, JobStates
<1> HIDE DEF q, z
<1>5. SlotMoved(w) /\ bwk'[w] = z
  BY <1>1, <1>2, <1>3 DEF SlotMoved
<1>6. bjob'[s] = q /\ \A u \in Session \ {s} : bjob'[u] = bjob[u]
  BY <1>1, <1>2
<1> QED BY <1>1, <1>3, <1>4, <1>5, <1>6 DEF SlotTakes

\* A completed job is forgotten.
JobLeaves(s) ==
    /\ bjob[s].state = "completed" /\ bjob'[s].state = "none" /\ bjob'[s].chunks = <<>>
    /\ \A u \in Session \ {s} : bjob'[u] = bjob[u]

LEMMA LeavesJob == ASSUME BatchShape, NEW s \in Session, BForget(s) PROVE JobLeaves(s)
<1>1. /\ bjob[s].state = "completed" /\ bjob' = [bjob EXCEPT ![s] = NoBatch]
      /\ bjob \in [Session -> BatchJobType]
  BY DEF BForget, BatchShape, BatchTypeOK
<1>2. NoBatch.state = "none" /\ NoBatch.chunks = <<>>
  BY DEF NoBatch
<1> QED BY <1>1, <1>2 DEF JobLeaves

\* The job a batch request adds.
JobAdded(b) ==
    LET s == SessionOf[breq[b].pending[1]]
    IN  /\ breq[b].pending # <<>> /\ breq[b].pending \in Seq(Chunk) /\ s \in Session
        /\ \A u \in Session \ {s} : bjob'[u] = bjob[u]
        /\ \/ bjob'[s] = bjob[s]
           \/ /\ bjob[s].state = "none" /\ bjob'[s].state = "waiting"
              /\ bjob'[s].chunks = breq[b].pending

LEMMA AddsJob == ASSUME BatchShape, NEW b \in BatchRequest, BAdd(b) PROVE JobAdded(b)
<1> DEFINE pending == breq[b].pending
           s == SessionOf[pending[1]]
           q == [NoBatch EXCEPT !.state = "waiting", !.chunks = pending]
<1>1. /\ pending \in Seq(Chunk) /\ pending # <<>> /\ bjob \in [Session -> BatchJobType]
  BY DEF BAdd, BatchShape, BatchTypeOK, BatchReqType, BatchInLoops, BatchRequestInLoop
<1>2. bjob' = IF bjob[s].state = "none" THEN [bjob EXCEPT ![s] = q] ELSE bjob
  BY DEF BAdd
<1>3. q.state = "waiting" /\ q.chunks = pending
  BY DEF NoBatch
<1> HIDE DEF q, pending
<1>4. s \in Session
  <2>1. pending[1] \in Chunk
    BY <1>1
  <2> QED BY <2>1, BatchAssumption
<1> HIDE DEF s
<1>5. /\ \A u \in Session \ {s} : bjob'[u] = bjob[u]
      /\ \/ bjob'[s] = bjob[s]
         \/ bjob[s].state = "none" /\ bjob'[s].state = "waiting" /\ bjob'[s].chunks = pending
  BY <1>1, <1>2, <1>3, <1>4
<1> QED BY <1>1, <1>4, <1>5 DEF JobAdded, s, pending
\* What a batch request does to its list: it stays, or gets the chunk it is at.
RequestLists(b) ==
    /\ \A a \in BatchRequest \ {b} : breq'[a] = breq[a]
    /\ \/ breq'[b].pending = breq[b].pending
       \/ /\ breq[b].i \in 1 .. Len(BatchOf[b])
          /\ breq'[b].pending = Append(breq[b].pending, Item(b).chunk)

LEMMA ListsChunk ==
    ASSUME BatchShape, NEW b \in BatchRequest, BatchRequestNext(b) \/ BRequestFails(b)
    PROVE  RequestLists(b)
<1> DEFINE c == Item(b).chunk
           n == breq[b].i
           m == n + 1
           more == Append(breq[b].pending, c)
<1>1. breq \in [BatchRequest -> BatchReqType] /\ BatchTypeOK /\ BatchRequestInLoop(b)
  BY DEF BatchShape, BatchTypeOK, BatchInLoops
<1>2. \A q \in BatchReqType :
        /\ [q EXCEPT !.pc = "mark", !.i = 1].pending = q.pending
        /\ [q EXCEPT !.i = @ + 1].pending = q.pending
        /\ \A p : [q EXCEPT !.pc = "find", !.i = m, !.pending = p].pending = p
        /\ \A p : [q EXCEPT !.pc = "add", !.pending = p].pending = p
        /\ [q EXCEPT !.pc = "done", !.reply = "accepted"].pending = q.pending
  BY DEF BatchReqType
<1>3. ASSUME NEW st, Collect(b, st), breq[b].pc \in {"find", "create", "reread"}
      PROVE  RequestLists(b)
  <2> DEFINE p == IF st \in Completed THEN breq[b].pending ELSE more
             q == IF ~(n = Len(BatchOf[b]))
                  THEN [breq[b] EXCEPT !.pc = "find", !.i = m, !.pending = p]
                  ELSE IF p # <<>> THEN [breq[b] EXCEPT !.pc = "add", !.pending = p]
                  ELSE [breq[b] EXCEPT !.pc = "done", !.reply = "accepted"]
  <2>1. breq' = [breq EXCEPT ![b] = q]
    BY <1>3 DEF Collect
  <2>2. q.pending \in {breq[b].pending, more}
    BY <1>1, <1>2
  <2> HIDE DEF q
  <2>3. breq'[b] = q /\ \A a \in BatchRequest \ {b} : breq'[a] = breq[a]
    BY <1>1, <2>1
  <2>4. n \in 1 .. Len(BatchOf[b])
    <3>1. n \in Nat \ {0} /\ n <= Len(BatchOf[b]) /\ Len(BatchOf[b]) \in Nat
      BY <1>1, <1>3, BatchAssumption DEF BatchRequestInLoop, BatchReqType
    <3> QED BY <3>1
  <2> QED BY <2>2, <2>3, <2>4 DEF RequestLists
<1>4. ASSUME NEW l \in {"create", "reread"}, BGoto(b, l) PROVE RequestLists(b)
  BY <1>1, <1>4, BGotoFrame DEF RequestLists, BatchReqMoved
<1>5. ASSUME NEW e \in {"accepted", "conflict", "error"}, BAnswer(b, e) PROVE RequestLists(b)
  BY <1>1, <1>5, BAnswerFrame DEF RequestLists, BatchReqMoved
<1>6. CASE BFind(b)
  BY <1>3, <1>4, <1>5, <1>6 DEF BFind
<1>7. CASE BCreate(b)
  BY <1>3, <1>4, <1>7 DEF BCreate
<1>8. CASE BReread(b)
  BY <1>3, <1>8 DEF BReread
<1>9. CASE BAdd(b)
  <2> DEFINE q == [breq[b] EXCEPT !.pc = "mark", !.i = 1]
  <2>1. breq' = [breq EXCEPT ![b] = q]
    BY <1>9 DEF BAdd
  <2>2. q.pending = breq[b].pending
    BY <1>1, <1>2
  <2> HIDE DEF q
  <2> QED BY <1>1, <2>1, <2>2 DEF RequestLists
<1>10. CASE BMarkQueued(b)
  <2> DEFINE q == [breq[b] EXCEPT !.i = @ + 1]
  <2>1. breq' = [breq EXCEPT ![b] = q] \/ BAnswer(b, "accepted")
    BY <1>10 DEF BMarkQueued
  <2>2. q.pending = breq[b].pending
    BY <1>1, <1>2
  <2> HIDE DEF q
  <2>3. CASE breq' = [breq EXCEPT ![b] = q]
    BY <1>1, <2>2, <2>3 DEF RequestLists
  <2> QED BY <1>5, <2>1, <2>3
<1>11. CASE BRequestFails(b)
  BY <1>5, <1>11 DEF BRequestFails
<1> QED BY <1>6, <1>7, <1>8, <1>9, <1>10, <1>11 DEF BatchRequestNext

\* A worker at process() stays at its job, and only the load changes its list.
KeepsJob(w) ==
    /\ SlotMoved(w) /\ UNCHANGED <<bjob, breq>>
    /\ bwk[w].pc # "idle" /\ bwk'[w].pc # "idle"
    /\ bwk'[w].job = bwk[w].job /\ bwk'[w].chunks = bwk[w].chunks
    /\ BLoad(w) \/ bwk'[w].pending = bwk[w].pending

LEMMA ProcessKeepsJob ==
    ASSUME BatchShape, WorkersLive, NEW w \in Worker, ProcessStep(w)
    PROVE  KeepsJob(w)
<1>1. UNCHANGED <<bjob, breq>> /\ bwk[w].pc # "idle"
  BY DEF ProcessStep, BLoad, BMarkProcessing, BSplit, BMarkCompleted, BCommit, BTxFails,
         BMarkFailed, BOutboxFails, BCrash
<1>3. SlotMoved(w)
  BY ProcessRows, ProcessMoves DEF ProcessMove
<1>4. CASE BLoad(w)
  BY <1>1, <1>3, <1>4, BLoadFrame DEF KeepsJob
<1>5. CASE BSplit(w)
  BY <1>1, <1>3, <1>5, BSplitDoes DEF KeepsJob, BSplitEffect
<1>6. ASSUME NEW l \in {"start", "split", "commit", "catch", "finish", "throw"}, NEW n,
             SlotStepped(w, l, n)
      PROVE  KeepsJob(w)
  BY <1>1, <1>3, <1>6 DEF KeepsJob, SlotStepped
<1>7. CASE BMarkProcessing(w)
  <2>1. /\ bwk[w].pc = "start"
        /\ IF IsLast(w) THEN BStep(w, "split", 1) ELSE BStep(w, "start", bwk[w].i + 1)
    BY <1>7 DEF BMarkProcessing
  <2> QED BY <2>1, <1>6, LoopFrame
<1>8. CASE BMarkCompleted(w)
  <2>1. /\ bwk[w].pc = "mark"
        /\ IF IsLast(w) THEN BStep(w, "commit", 1) ELSE BStep(w, "split", bwk[w].i + 1)
    BY <1>8 DEF BMarkCompleted
  <2> QED BY <2>1, <1>6, LoopFrame
<1>9. CASE BMarkFailed(w)
  <2>1. /\ bwk[w].pc = "catch"
        /\ IF IsLast(w) THEN BStep(w, "throw", 1) ELSE BStep(w, "catch", bwk[w].i + 1)
    BY <1>9 DEF BMarkFailed
  <2> QED BY <2>1, <1>6, LoopFrame
<1>10. CASE BCommit(w) \/ BTxFails(w)
  <2>1. BTxFails(w) => SlotStepped(w, "catch", 1)
    <3>1. 1 \in Nat \ {0} /\ BatchTypeOK
      BY DEF BatchShape
    <3> QED BY <3>1, BStepFrame DEF BTxFails
  <2>2. BCommit(w) => SlotStepped(w, "finish", 1)
    <3>1. 1 \in Nat \ {0} /\ BatchTypeOK
      BY DEF BatchShape
    <3> QED BY <3>1, BStepFrame DEF BCommit
  <2> QED BY <1>10, <2>1, <2>2, <1>6
<1>11. ~BOutboxFails(w) /\ ~BCrash(w)
  BY DEF WorkersLive, BOutboxFails, BCrash, Fault
<1> QED BY <1>4, <1>5, <1>7, <1>8, <1>9, <1>10, <1>11 DEF ProcessStep

\* Who moves the requests, the jobs and the slots, without faults of the workers.
JobActors ==
    \/ UNCHANGED <<breq, bjob, bwk>>
    \/ \E b \in BatchRequest : /\ RequestLists(b) /\ UNCHANGED bwk
                               /\ UNCHANGED bjob \/ JobAdded(b)
    \/ \E w \in Worker, s \in Session : SlotTakes(w, s) /\ UNCHANGED <<breq, row>>
    \/ \E w \in Worker : JobEnds(w) /\ UNCHANGED <<breq, row>>
    \/ \E s \in Session : JobLeaves(s) /\ UNCHANGED <<breq, bwk, row>>
    \/ \E w \in Worker : KeepsJob(w) /\ ProcessStep(w)

LEMMA JobActorsStep ==
    ASSUME BatchShape, BatchOwned, WorkersKeepJobs, [BatchNext]_allVars
    PROVE  JobActors
<1>1. CASE SingleNext \/ UNCHANGED allVars
  BY <1>1 DEF SingleNext, JobActors
<1>2. ASSUME NEW b \in BatchRequest, BatchRequestNext(b) \/ BRequestFails(b) PROVE JobActors
  <2>1. RequestLists(b)
    BY <1>2, ListsChunk
  <2>2. UNCHANGED bwk /\ (UNCHANGED bjob \/ BAdd(b))
    BY <1>2 DEF BatchRequestNext, BRequestFails, BFind, BCreate, BReread, BAdd, BMarkQueued
  <2>3. UNCHANGED bjob \/ JobAdded(b)
    BY <2>2, AddsJob
  <2> QED BY <2>1, <2>2, <2>3 DEF JobActors
<1>3. ASSUME NEW s \in Session, BStalled(s) PROVE FALSE
  <2>1. PICK w \in Worker : bwk[w].job = s /\ bjob[s].owner = w
    BY <1>3 DEF BStalled, BatchOwned
  <2>2. ~BDead(s)
    BY <2>1 DEF BDead
  <2>3. Fault("stall")
    BY <1>3, <2>2 DEF BStalled
  <2> QED BY <2>3 DEF Fault, WorkersKeepJobs
<1>4. ASSUME NEW w \in Worker, NEW s \in Session, BTake(w, s) PROVE JobActors
  <2>1. SlotTakes(w, s) /\ UNCHANGED <<breq, row>>
    BY <1>4, TakesJob DEF BTake
  <2> QED BY <2>1 DEF JobActors
<1>5. ASSUME NEW w \in Worker, BFinish(w) \/ BThrow(w) PROVE JobActors
  <2>1. JobEnds(w) /\ UNCHANGED <<breq, row>>
    BY <1>5, EndsJob DEF BFinish, BThrow
  <2> QED BY <2>1 DEF JobActors
<1>6. ASSUME NEW w \in Worker, ProcessStep(w) PROVE JobActors
  <2>1. KeepsJob(w)
    BY <1>6, ProcessKeepsJob DEF WorkersKeepJobs
  <2> QED BY <1>6, <2>1 DEF JobActors
<1>7. ASSUME NEW s \in Session, BForget(s) PROVE JobActors
  <2>1. JobLeaves(s) /\ UNCHANGED <<breq, bwk, row>>
    BY <1>7, LeavesJob DEF BForget
  <2> QED BY <2>1 DEF JobActors
<1> QED BY <1>1, <1>2, <1>3, <1>4, <1>5, <1>6, <1>7, BatchActors

LEMMA BatchOwnedStep ==
    ASSUME BatchShape, BatchOwned, JobActors
    PROVE  BatchOwned'
<1>t. \A w \in Worker : bwk[w].pc # "idle" =>
        /\ bwk[w].job \in Session /\ bjob[bwk[w].job].state = "active"
        /\ bjob[bwk[w].job].owner = w /\ bwk[w].chunks = bjob[bwk[w].job].chunks
  BY DEF BatchOwned, HoldsBatch, BatchShape, BatchInLoops, BatchWorkerInLoop
<1>o. \A s \in Session : bjob[s].state = "active" =>
        \E w \in Worker : bwk[w].pc # "idle" /\ bwk[w].job = s /\ bjob[s].owner = w
  BY DEF BatchOwned
<1>s. ASSUME \A w \in Worker : bwk'[w].pc # "idle" =>
                /\ bjob'[bwk'[w].job].state = "active" /\ bjob'[bwk'[w].job].owner = w
            /\ bwk'[w].chunks = bjob'[bwk'[w].job].chunks
                /\ bwk'[w].chunks = bjob'[bwk'[w].job].chunks,
             \A s \in Session : bjob'[s].state = "active" =>
                \E w \in Worker : bwk'[w].pc # "idle" /\ bwk'[w].job = s /\ bjob'[s].owner = w
      PROVE  BatchOwned'
  BY <1>s DEF BatchOwned, HoldsBatch
<1>1. CASE UNCHANGED <<breq, bjob, bwk>>
  BY <1>1, <1>t, <1>o, <1>s
<1>2. ASSUME NEW b \in BatchRequest, UNCHANGED bwk, UNCHANGED bjob \/ JobAdded(b)
      PROVE  BatchOwned'
  <2>1. \A s \in Session :
            \/ bjob'[s] = bjob[s]
            \/ bjob[s].state = "none" /\ bjob'[s].state = "waiting"
    BY <1>2 DEF JobAdded
  <2>2. \A s \in Session : bjob[s].state = "active" => bjob'[s] = bjob[s]
    BY <2>1
  <2>3. \A s \in Session : bjob'[s].state = "active" => bjob'[s] = bjob[s]
    BY <2>1
  <2>4. \A w \in Worker : bwk'[w] = bwk[w]
    BY <1>2
  <2>5. \A w \in Worker : bwk'[w].pc # "idle" =>
            /\ bjob'[bwk'[w].job].state = "active" /\ bjob'[bwk'[w].job].owner = w
            /\ bwk'[w].chunks = bjob'[bwk'[w].job].chunks
    BY <2>2, <2>4, <1>t
  <2>6. \A s \in Session : bjob'[s].state = "active" =>
            \E w \in Worker : bwk'[w].pc # "idle" /\ bwk'[w].job = s /\ bjob'[s].owner = w
    BY <2>3, <2>4, <1>o
  <2> QED BY <2>5, <2>6, <1>s
<1>3. ASSUME NEW v \in Worker, NEW u \in Session, SlotTakes(v, u) PROVE BatchOwned'
  <2>1. /\ bjob[u].state = "waiting" /\ bwk[v].pc = "idle"
        /\ \A s \in Session \ {u} : bjob'[s] = bjob[s]
        /\ \A w \in Worker \ {v} : bwk'[w] = bwk[w]
        /\ bjob'[u].state = "active" /\ bjob'[u].owner = v
        /\ bwk'[v].pc = "load" /\ bwk'[v].job = u /\ bwk'[v].chunks = bjob'[u].chunks
    BY <1>3 DEF SlotTakes, SlotMoved
  <2>2. \A w \in Worker : bwk'[w].pc # "idle" =>
            /\ bjob'[bwk'[w].job].state = "active" /\ bjob'[bwk'[w].job].owner = w
            /\ bwk'[w].chunks = bjob'[bwk'[w].job].chunks
    <3>1. ASSUME NEW w \in Worker \ {v}, bwk'[w].pc # "idle"
          PROVE  /\ bjob'[bwk'[w].job].state = "active" /\ bjob'[bwk'[w].job].owner = w
                 /\ bwk'[w].chunks = bjob'[bwk'[w].job].chunks
      <4>1. /\ bwk[w].job \in Session /\ bjob[bwk[w].job].state = "active"
            /\ bjob[bwk[w].job].owner = w /\ bwk[w].chunks = bjob[bwk[w].job].chunks
        BY <1>t, <2>1, <3>1
      <4>2. bwk[w].job # u
        BY <2>1, <4>1
      <4> QED BY <2>1, <4>1, <4>2
    <3> QED BY <2>1, <3>1
  <2>3. \A s \in Session : bjob'[s].state = "active" =>
            \E w \in Worker : bwk'[w].pc # "idle" /\ bwk'[w].job = s /\ bjob'[s].owner = w
    <3>1. ASSUME NEW s \in Session \ {u}, bjob'[s].state = "active"
          PROVE  \E w \in Worker : bwk'[w].pc # "idle" /\ bwk'[w].job = s /\ bjob'[s].owner = w
      <4>1. PICK w \in Worker : bwk[w].pc # "idle" /\ bwk[w].job = s /\ bjob[s].owner = w
        BY <1>o, <2>1, <3>1
      <4> QED BY <2>1, <4>1
    <3>2. bwk'[v].pc # "idle"
      BY <2>1
    <3> QED BY <2>1, <3>1, <3>2
  <2> QED BY <2>2, <2>3, <1>s
<1>4. ASSUME NEW v \in Worker, JobEnds(v) PROVE BatchOwned'
  <2> DEFINE u == bwk[v].job
  <2>1. /\ \A s \in Session : s # u => bjob'[s] = bjob[s]
        /\ bjob'[u].state # "active" /\ bwk[v].pc # "idle" /\ bwk'[v].pc = "idle"
        /\ \A w \in Worker \ {v} : bwk'[w] = bwk[w]
    BY <1>4 DEF JobEnds, SlotMoved
  <2>2. u \in Session /\ bjob[u].owner = v
    BY <1>t, <2>1
  <2> HIDE DEF u
  <2>3. ASSUME NEW w \in Worker, bwk'[w].pc # "idle"
        PROVE  /\ bjob'[bwk'[w].job].state = "active" /\ bjob'[bwk'[w].job].owner = w
               /\ bwk'[w].chunks = bjob'[bwk'[w].job].chunks
    <3>1. w # v /\ bwk'[w] = bwk[w]
      BY <2>1, <2>3
    <3>2. /\ bwk[w].job \in Session /\ bjob[bwk[w].job].state = "active"
          /\ bjob[bwk[w].job].owner = w /\ bwk[w].chunks = bjob[bwk[w].job].chunks
      BY <1>t, <2>3, <3>1
    <3>3. bwk[w].job # u
      BY <2>2, <3>1, <3>2
    <3> QED BY <2>1, <3>1, <3>2, <3>3
  <2>4. ASSUME NEW s \in Session, bjob'[s].state = "active"
        PROVE  \E w \in Worker : bwk'[w].pc # "idle" /\ bwk'[w].job = s /\ bjob'[s].owner = w
    <3>1. s # u /\ bjob'[s] = bjob[s]
      BY <2>1, <2>4
    <3>2. PICK w \in Worker : bwk[w].pc # "idle" /\ bwk[w].job = s /\ bjob[s].owner = w
      BY <1>o, <2>4, <3>1
    <3>3. w # v
      BY <3>1, <3>2 DEF u
    <3> QED BY <2>1, <3>1, <3>2, <3>3
  <2> QED BY <2>3, <2>4, <1>s
<1>5. ASSUME NEW v \in Worker, KeepsJob(v) PROVE BatchOwned'
  <2>1. /\ UNCHANGED bjob /\ bwk[v].pc # "idle" /\ bwk'[v].pc # "idle"
        /\ bwk'[v].job = bwk[v].job /\ bwk'[v].chunks = bwk[v].chunks
        /\ \A w \in Worker \ {v} : bwk'[w] = bwk[w]
    BY <1>5 DEF KeepsJob, SlotMoved
  <2>2. \A w \in Worker :
            /\ bwk'[w].job = bwk[w].job /\ bwk'[w].chunks = bwk[w].chunks
            /\ bwk'[w].pc # "idle" <=> bwk[w].pc # "idle"
    BY <2>1
  <2> QED BY <2>1, <2>2, <1>t, <1>o, <1>s
<1>6. ASSUME NEW u \in Session, JobLeaves(u), UNCHANGED bwk PROVE BatchOwned'
  <2>1. /\ bjob[u].state = "completed" /\ bjob'[u].state = "none"
        /\ \A s \in Session \ {u} : bjob'[s] = bjob[s]
        /\ \A w \in Worker : bwk'[w] = bwk[w]
    BY <1>6 DEF JobLeaves
  <2>2. \A s \in Session : bjob[s].state = "active" \/ bjob'[s].state = "active" => bjob'[s] = bjob[s]
    BY <2>1
  <2>3. \A w \in Worker : bwk'[w].pc # "idle" =>
            /\ bjob'[bwk'[w].job].state = "active" /\ bjob'[bwk'[w].job].owner = w
            /\ bwk'[w].chunks = bjob'[bwk'[w].job].chunks
    BY <2>1, <2>2, <1>t
  <2>4. \A s \in Session : bjob'[s].state = "active" =>
            \E w \in Worker : bwk'[w].pc # "idle" /\ bwk'[w].job = s /\ bjob'[s].owner = w
    BY <2>1, <2>2, <1>o
  <2> QED BY <2>3, <2>4, <1>s
<1> QED BY <1>1, <1>2, <1>3, <1>4, <1>5, <1>6 DEF JobActors

LEMMA AppendOfSession ==
    ASSUME NEW chunks \in Seq(Chunk), NEW c \in Chunk, NEW s, OfSession(chunks, s),
           SessionOf[c] = s
    PROVE  OfSession(Append(chunks, c), s)
<1> SUFFICES ASSUME NEW k \in 1 .. Len(Append(chunks, c))
             PROVE  SessionOf[Append(chunks, c)[k]] = s
  BY DEF OfSession
<1>1. k = Len(chunks) + 1 \/ k \in 1 .. Len(chunks)
  OBVIOUS
<1>2. CASE k = Len(chunks) + 1
  BY <1>2
<1>3. CASE k \in 1 .. Len(chunks)
  BY <1>3 DEF OfSession
<1> QED BY <1>1, <1>2, <1>3

LEMMA SessionsApartStep ==
    ASSUME BatchShape, SessionsApart, OneSession, BatchOwned, JobActors
    PROVE  SessionsApart'
<1>b. \A b \in BatchRequest : OfSession(breq[b].pending, SessionOf[BatchOf[b][1].chunk])
  BY DEF SessionsApart
<1>j. \A s \in Session : OfSession(bjob[s].chunks, s)
  BY DEF SessionsApart
<1>w. \A w \in Worker : bwk[w].pc # "idle" => OfSession(bwk[w].pending, bwk[w].job)
  BY DEF SessionsApart
<1>t. \A w \in Worker : bwk[w].pending \in Seq(Chunk)
  BY DEF BatchShape, BatchTypeOK, BatchWorkerType
<1>1. \A b \in BatchRequest : OfSession(breq'[b].pending, SessionOf[BatchOf[b][1].chunk])
  <2>1. ASSUME NEW b \in BatchRequest, RequestLists(b)
        PROVE  \A a \in BatchRequest : OfSession(breq'[a].pending, SessionOf[BatchOf[a][1].chunk])
    <3> DEFINE c == Item(b).chunk
               s == SessionOf[BatchOf[b][1].chunk]
    <3>1. \A a \in BatchRequest \ {b} : breq'[a] = breq[a]
      BY <2>1 DEF RequestLists
    <3>2. OfSession(breq'[b].pending, s)
      <4>1. CASE breq'[b].pending = breq[b].pending
        BY <4>1, <1>b
      <4>2. CASE /\ breq[b].i \in 1 .. Len(BatchOf[b])
                 /\ breq'[b].pending = Append(breq[b].pending, c)
        <5>1. breq[b].i <= Len(BatchOf[b]) /\ BatchTypeOK
          BY <4>2, BatchAssumption DEF BatchShape
        <5>2. c \in Chunk /\ breq[b].pending \in Seq(Chunk)
          BY <5>1, ItemIsChunk DEF BatchTypeOK, BatchReqType
        <5>3. SessionOf[c] = s
          BY <4>2 DEF Item, OneSession
        <5>4. OfSession(breq[b].pending, s)
          BY <1>b
        <5> HIDE DEF c, s
        <5>5. OfSession(Append(breq[b].pending, c), s)
          BY <5>2, <5>3, <5>4, AppendOfSession
        <5> QED BY <4>2, <5>5
      <4> QED BY <2>1, <4>1, <4>2 DEF RequestLists
    <3> QED BY <3>1, <3>2, <1>b
  <2>2. CASE UNCHANGED breq
    BY <2>2, <1>b
  <2>3. UNCHANGED breq \/ \E b \in BatchRequest : RequestLists(b)
    BY DEF JobActors, KeepsJob
  <2> QED BY <2>1, <2>2, <2>3
<1>2. \A s \in Session : OfSession(bjob'[s].chunks, s)
  <2>1. ASSUME NEW b \in BatchRequest, JobAdded(b), NEW s \in Session
        PROVE  OfSession(bjob'[s].chunks, s)
    <3>1. CASE bjob'[s] = bjob[s]
      BY <3>1, <1>j
    <3>2. CASE bjob'[s] # bjob[s]
      <4>1. /\ bjob'[s].chunks = breq[b].pending /\ s = SessionOf[breq[b].pending[1]]
            /\ breq[b].pending \in Seq(Chunk) /\ breq[b].pending # <<>>
        BY <2>1, <3>2 DEF JobAdded
      <4>2. 1 \in 1 .. Len(breq[b].pending)
        BY <4>1
      <4>3. s = SessionOf[BatchOf[b][1].chunk]
        BY <1>b, <4>1, <4>2 DEF OfSession
      <4> QED BY <1>b, <4>1, <4>3
    <3> QED BY <3>1, <3>2
  <2>2. ASSUME NEW w \in Worker, NEW u \in Session, SlotTakes(w, u), NEW s \in Session
        PROVE  OfSession(bjob'[s].chunks, s)
    <3>1. bjob'[s].chunks = bjob[s].chunks
      BY <2>2 DEF SlotTakes
    <3> QED BY <3>1, <1>j
  <2>3. ASSUME NEW w \in Worker, JobEnds(w), NEW s \in Session
        PROVE  OfSession(bjob'[s].chunks, s)
    <3>1. bjob'[s].chunks = bjob[s].chunks
      BY <2>3 DEF JobEnds
    <3> QED BY <3>1, <1>j
  <2>4. CASE UNCHANGED bjob
    BY <2>4, <1>j
  <2>5. ASSUME NEW u \in Session, JobLeaves(u), NEW s \in Session
        PROVE  OfSession(bjob'[s].chunks, s)
    <3>1. bjob'[s].chunks = bjob[s].chunks \/ bjob'[s].chunks = <<>>
      BY <2>5 DEF JobLeaves
    <3> QED BY <3>1, <1>j DEF OfSession
  <2> QED BY <2>1, <2>2, <2>3, <2>4, <2>5 DEF JobActors, KeepsJob
<1>3. \A w \in Worker : bwk'[w].pc # "idle" => OfSession(bwk'[w].pending, bwk'[w].job)
  <2>1. ASSUME NEW v \in Worker, NEW u \in Session, SlotTakes(v, u), NEW w \in Worker,
               bwk'[w].pc # "idle"
        PROVE  OfSession(bwk'[w].pending, bwk'[w].job)
    <3>1. bwk'[w] = bwk[w] \/ bwk'[w].pending = <<>>
      BY <2>1 DEF SlotTakes, SlotMoved
    <3> QED BY <2>1, <3>1, <1>w DEF OfSession
  <2>2. ASSUME NEW v \in Worker, JobEnds(v), NEW w \in Worker, bwk'[w].pc # "idle"
        PROVE  OfSession(bwk'[w].pending, bwk'[w].job)
    BY <2>2, <1>w DEF JobEnds, SlotMoved
  <2>3. ASSUME NEW v \in Worker, KeepsJob(v), NEW w \in Worker, bwk'[w].pc # "idle"
        PROVE  OfSession(bwk'[w].pending, bwk'[w].job)
    <3>1. CASE w # v \/ bwk'[w].pending = bwk[w].pending
      BY <2>3, <3>1, <1>w DEF KeepsJob, SlotMoved
    <3>2. CASE w = v /\ BLoad(v)
      <4> DEFINE s == bwk[v].job
                 chunks == bjob[s].chunks
                 c == chunks[bwk[v].i]
      <4>0. bwk[v].chunks = chunks
        BY <3>2 DEF BLoad, BatchOwned
      <4>1. /\ c \in Chunk /\ bwk'[v].job = s
            /\ bwk'[v].pending \in {bwk[v].pending, Append(bwk[v].pending, c), <<>>}
        BY <3>2, <4>0, BLoadFrame
      <4>2. SessionOf[c] = s
        <5>1. s \in Session /\ bwk[v].i <= Len(chunks)
          BY <3>2, <4>0 DEF BLoad, BatchShape, BatchInLoops, BatchWorkerInLoop
        <5>2. chunks \in Seq(Chunk) /\ bwk[v].i \in Nat \ {0}
          BY <5>1 DEF BatchShape, BatchTypeOK, BatchJobType, BatchWorkerType
        <5>3. bwk[v].i \in 1 .. Len(chunks)
          BY <5>1, <5>2
        <5> QED BY <5>1, <5>3, <1>j DEF OfSession
      <4>3. OfSession(bwk[v].pending, s)
        BY <2>3, <1>w DEF KeepsJob
      <4> HIDE DEF c, chunks, s
      <4>4. OfSession(Append(bwk[v].pending, c), s) /\ OfSession(<<>>, s)
        <5>1. OfSession(Append(bwk[v].pending, c), s)
          BY <1>t, <4>1, <4>2, <4>3, AppendOfSession
        <5> QED BY <5>1 DEF OfSession
      <4> QED BY <3>2, <4>1, <4>3, <4>4
    <3> QED BY <2>3, <3>1, <3>2 DEF KeepsJob
  <2>4. CASE UNCHANGED bwk
    BY <2>4, <1>w
  <2> QED BY <2>1, <2>2, <2>3, <2>4 DEF JobActors
<1> QED BY <1>1, <1>2, <1>3 DEF SessionsApart, OfSession
\* A chunk that a job carries is a chunk with a row.
LEMMA CarriedHasRow ==
    ASSUME BatchShape, NEW s \in Session, NEW c, InJob(s, c)
    PROVE  c \in Chunk /\ row[c].payload # Nil
<1>1. PICK k \in 1 .. Len(bjob[s].chunks) : bjob[s].chunks[k] = c
  BY DEF InJob
<1>2. bjob[s].chunks \in Seq(Chunk) /\ Registered(bjob[s].chunks)
  BY DEF BatchShape, BatchTypeOK, BatchJobType, BatchInLoops, BatchJobHasRows
<1> QED BY <1>1, <1>2, ElementOfList DEF Registered

\* A completed chunk of the job of a worker that still loads is applied: whoever
\* had it in flight would be at the same job.
LEMMA LoadedCompletedIsApplied ==
    ASSUME BatchShape, CompletedOrInFlight, SessionsApart, BatchOwned,
           NEW w \in Worker, bwk[w].pc = "load", NEW c \in Chunk, InJob(bwk[w].job, c),
           row[c].status \in Completed
    PROVE  Applied(c)
<1> SUFFICES ASSUME NEW v \in Worker, InFlight(v, c) PROVE FALSE
  BY DEF CompletedOrInFlight
<1>1. PICK m \in 1 .. Len(bwk[v].pending) :
        bwk[v].pending[m] = c /\ bwk[v].pc \in {"split", "mark", "commit", "catch"}
  BY DEF InFlight
<1>2. SessionOf[c] = bwk[v].job
  BY <1>1 DEF SessionsApart, OfSession
<1>3. bwk[w].job \in Session
  BY DEF BatchShape, BatchInLoops, BatchWorkerInLoop
<1>4. SessionOf[c] = bwk[w].job
  BY <1>3 DEF SessionsApart, OfSession, InJob
<1>5. bjob[bwk[w].job].owner = w /\ bjob[bwk[v].job].owner = v
  BY <1>1 DEF BatchOwned, HoldsBatch
<1>6. v = w
  BY <1>2, <1>4, <1>5
<1> QED BY <1>1, <1>6

LEMMA LoadToDo ==
    ASSUME BatchShape, CompletedOrInFlight, SessionsApart, BatchOwned,
           NEW w \in Worker, ToDo(w), BLoad(w)
    PROVE  ToDo(w)'
<1> DEFINE s == bwk[w].job
           chunks == bjob[s].chunks
           n == bwk[w].i
           d == chunks[n]
           pending == IF row[d].status \in Completed THEN bwk[w].pending
                      ELSE Append(bwk[w].pending, d)
<1>1. /\ bwk[w].pc = "load" /\ UNCHANGED <<row, accepts, conflictLog, bjob>>
      /\ s \in Session /\ n <= Len(chunks) /\ bwk[w].chunks = chunks
  BY DEF BLoad, BatchShape, BatchInLoops, BatchWorkerInLoop, BatchOwned
<1>2. chunks \in Seq(Chunk) /\ n \in Nat \ {0} /\ bwk[w].pending \in Seq(Chunk)
  BY <1>1 DEF BatchShape, BatchTypeOK, BatchJobType, BatchWorkerType
<1>3. n \in 1 .. Len(chunks) /\ Len(chunks) \in Nat
  BY <1>1, <1>2
<1>4. /\ d \in Chunk /\ bwk'[w].job = s /\ bwk'[w].pc \in {"load", "start", "finish"}
      /\ bwk'[w].pc # "finish" => bwk'[w].pending = pending
      /\ bwk'[w].pc = "load" => bwk'[w].i = n + 1
      /\ bwk'[w].pc # "load" => n = Len(chunks)
      /\ bwk'[w].pc = "finish" => row[d].status \in Completed /\ bwk[w].pending = <<>>
  BY <1>1, BLoadFrame
<1>5. row[d].status \in Completed => Applied(d)
  <2>1. InJob(s, d)
    BY <1>3 DEF InJob
  <2> QED BY <1>1, <1>4, <2>1, LoadedCompletedIsApplied
<1>6. ASSUME NEW c \in Chunk,
             \/ Listed(w, c)
             \/ c = d /\ row[d].status \notin Completed
      PROVE  \E m \in 1 .. Len(pending) : pending[m] = c
  <2>1. CASE Listed(w, c) /\ row[d].status \in Completed
    BY <2>1 DEF Listed
  <2>2. CASE Listed(w, c) /\ row[d].status \notin Completed
    <3>1. PICK m \in 1 .. Len(bwk[w].pending) : bwk[w].pending[m] = c
      BY <2>2 DEF Listed
    <3>2. m \in 1 .. Len(Append(bwk[w].pending, d)) /\ Append(bwk[w].pending, d)[m] = c
      BY <1>2, <1>4, <3>1
    <3> QED BY <2>2, <3>2
  <2>3. CASE c = d /\ row[d].status \notin Completed
    <3> DEFINE m == Len(bwk[w].pending) + 1
    <3>1. m \in 1 .. Len(Append(bwk[w].pending, d)) /\ Append(bwk[w].pending, d)[m] = d
      BY <1>2, <1>4
    <3> QED BY <2>3, <3>1
  <2> QED BY <1>6, <2>1, <2>2, <2>3
<1>7. ASSUME NEW c \in Chunk, NEW k \in 1 .. Len(chunks), k <= n, chunks[k] = c
      PROVE  Applied(c) \/ \E m \in 1 .. Len(pending) : pending[m] = c
  <2>1. CASE k = n
    BY <1>5, <1>6, <1>7, <2>1
  <2>2. CASE k < n
    <3>1. Loaded(w, c)
      BY <1>7, <2>2 DEF Loaded
    <3>2. Applied(c) \/ Listed(w, c)
      BY <1>1, <3>1 DEF ToDo
    <3>3. Listed(w, c) => \E m \in 1 .. Len(pending) : pending[m] = c
      <4> HIDE DEF pending, d
      <4> QED BY <1>6
    <3> QED BY <3>2, <3>3
  <2>3. k = n \/ k < n
    BY <1>3, <1>7
  <2> QED BY <2>1, <2>2, <2>3
<1>8. SUFFICES ASSUME NEW c \in Chunk
      PROVE  /\ bwk'[w].pc = "load" /\ Loaded(w, c)' => Applied(c)' \/ Listed(w, c)'
             /\ bwk'[w].pc \in {"start", "split", "mark", "commit"} /\ InJob(bwk[w].job, c)' =>
                    Applied(c)' \/ Listed(w, c)'
             /\ bwk'[w].pc = "finish" /\ InJob(bwk[w].job, c)' => Applied(c)'
  BY DEF ToDo
<1>9. Applied(c) => Applied(c)'
  BY <1>1 DEF Applied
<1>10. ASSUME bwk'[w].pc # "finish", \E m \in 1 .. Len(pending) : pending[m] = c
       PROVE  Listed(w, c)'
  BY <1>4, <1>10 DEF Listed
<1>11. ASSUME bwk'[w].pc = "load", Loaded(w, c)' PROVE Applied(c)' \/ Listed(w, c)'
  <2>1. PICK k \in 1 .. Len(chunks) : k < n + 1 /\ chunks[k] = c
    BY <1>1, <1>4, <1>11 DEF Loaded
  <2>2. k <= n
    BY <1>2, <2>1
  <2> QED BY <1>7, <1>9, <1>10, <1>11, <2>1, <2>2
<1>12. ASSUME bwk'[w].pc # "load", InJob(bwk[w].job, c)'
       PROVE  Applied(c)' \/ (bwk'[w].pc # "finish" /\ Listed(w, c)')
  <2>1. PICK k \in 1 .. Len(chunks) : chunks[k] = c
    BY <1>1, <1>4, <1>12 DEF InJob
  <2>2. k <= n
    BY <1>3, <1>4, <1>12, <2>1
  <2>3. Applied(c) \/ \E m \in 1 .. Len(pending) : pending[m] = c
    BY <1>7, <2>1, <2>2
  <2>4. ASSUME bwk'[w].pc = "finish" PROVE ~ \E m \in 1 .. Len(pending) : pending[m] = c
    <3>1. pending = <<>>
      BY <1>4, <2>4
    <3> HIDE DEF pending
    <3> QED BY <3>1
  <2> QED BY <1>9, <1>10, <2>3, <2>4
<1> QED BY <1>4, <1>11, <1>12

LEMMA ToDoStep ==
    ASSUME BatchShape, RowsKept, TxCovers, CompletedOrInFlight, SessionsApart, BatchOwned,
           JobActors, [BatchNext]_allVars, NEW w \in Worker, ToDo(w)
    PROVE  ToDo(w)'
<1> DEFINE s == bwk[w].job
<1>t. bwk[w].pc # "idle" => s \in Session
  BY DEF BatchShape, BatchInLoops, BatchWorkerInLoop
<1>a. \A c \in Chunk : s \in Session /\ InJob(s, c) /\ Applied(c) => Applied(c)'
  BY CarriedHasRow, BatchAppliedStable
\* A slot that stays as it is, at a job that keeps its chunks.
<1>s. ASSUME bwk'[w] = bwk[w], bwk[w].pc # "idle" => bjob'[s].chunks = bjob[s].chunks
      PROVE  ToDo(w)'
  <2> SUFFICES ASSUME NEW c \in Chunk
      PROVE  /\ bwk'[w].pc = "load" /\ Loaded(w, c)' => Applied(c)' \/ Listed(w, c)'
             /\ bwk'[w].pc \in {"start", "split", "mark", "commit"} /\ InJob(bwk[w].job, c)' =>
                    Applied(c)' \/ Listed(w, c)'
             /\ bwk'[w].pc = "finish" /\ InJob(bwk[w].job, c)' => Applied(c)'
    BY DEF ToDo
  <2>1. Listed(w, c)' <=> Listed(w, c)
    BY <1>s DEF Listed
  <2>2. bwk[w].pc # "idle" => (Loaded(w, c)' <=> Loaded(w, c)) /\ (InJob(bwk[w].job, c)' <=> InJob(s, c))
    BY <1>s DEF Loaded, InJob
  <2>3. Loaded(w, c) => InJob(s, c)
    BY DEF Loaded, InJob
  <2> QED BY <1>s, <1>t, <1>a, <2>1, <2>2, <2>3 DEF ToDo
\* A slot that is free, or that has just taken a job.
<1>i. ASSUME \/ bwk'[w].pc = "idle"
             \/ bwk'[w].pc = "load" /\ bwk'[w].i = 1
      PROVE  ToDo(w)'
  <2> SUFFICES ASSUME NEW c \in Chunk PROVE ~(bwk'[w].pc = "load" /\ Loaded(w, c)')
    BY <1>i DEF ToDo
  <2> QED BY <1>i DEF Loaded
<1>1. CASE UNCHANGED <<breq, bjob, bwk>>
  BY <1>1, <1>s
<1>2. ASSUME NEW b \in BatchRequest, UNCHANGED bwk, UNCHANGED bjob \/ JobAdded(b)
      PROVE  ToDo(w)'
  <2>1. bwk[w].pc # "idle" => bjob[s].state = "active"
    BY DEF BatchOwned, HoldsBatch
  <2>2. bwk[w].pc # "idle" => bjob'[s] = bjob[s]
    BY <1>2, <1>t, <2>1 DEF JobAdded
  <2> QED BY <1>2, <1>s, <2>2
<1>3. ASSUME NEW v \in Worker, NEW u \in Session, SlotTakes(v, u) PROVE ToDo(w)'
  <2>1. w # v => bwk'[w] = bwk[w]
    BY <1>3 DEF SlotTakes, SlotMoved
  <2>2. \A r \in Session : bjob'[r].chunks = bjob[r].chunks
    BY <1>3 DEF SlotTakes
  <2>3. w = v => bwk'[w].pc = "load" /\ bwk'[w].i = 1
    BY <1>3 DEF SlotTakes
  <2> QED BY <1>t, <1>s, <1>i, <2>1, <2>2, <2>3
<1>4. ASSUME NEW v \in Worker, JobEnds(v) PROVE ToDo(w)'
  <2>1. w # v => bwk'[w] = bwk[w]
    BY <1>4 DEF JobEnds, SlotMoved
  <2>2. \A r \in Session : bjob'[r].chunks = bjob[r].chunks
    BY <1>4 DEF JobEnds
  <2>3. w = v => bwk'[w].pc = "idle"
    BY <1>4 DEF JobEnds
  <2> QED BY <1>t, <1>s, <1>i, <2>1, <2>2, <2>3
<1>5. ASSUME NEW v \in Worker, KeepsJob(v), ProcessStep(v) PROVE ToDo(w)'
  <2>1. CASE w # v
    <3>1. bwk'[w] = bwk[w] /\ UNCHANGED bjob
      BY <1>5, <2>1 DEF KeepsJob, SlotMoved
    <3> QED BY <3>1, <1>s
  <2>2. CASE w = v /\ BLoad(w)
    BY <2>2, LoadToDo
  <2>3. CASE w = v /\ BCommit(w)
    <3>1. bwk'[w].pc = "finish" /\ bwk'[w].job = s /\ bwk[w].pc = "commit"
      <4>1. 1 \in Nat \ {0} /\ BatchTypeOK
        BY DEF BatchShape
      <4>2. SlotStepped(w, "finish", 1)
        BY <4>1, <2>3, BStepFrame DEF BCommit
      <4> QED BY <2>3, <4>2 DEF BCommit, SlotStepped
    <3> SUFFICES ASSUME NEW c \in Chunk, InJob(bwk[w].job, c)' PROVE Applied(c)'
      BY <3>1 DEF ToDo
    <3>2. InJob(s, c)
      BY <1>5, <3>1 DEF KeepsJob, InJob
    <3>3. Applied(c) \/ Listed(w, c)
      BY <3>1, <3>2 DEF ToDo
    <3>4. Applied(c) => Applied(c)'
      BY <1>a, <1>t, <3>1, <3>2
    <3>5. ASSUME Listed(w, c) PROVE Applied(c)'
      <4>1. PICK k \in 1 .. Len(bwk[w].pending) : bwk[w].pending[k] = c
        BY <3>5 DEF Listed
      <4> QED BY <2>3, <4>1, CommitApplies
    <3> QED BY <3>3, <3>4, <3>5
  <2>4. CASE w = v /\ ~BLoad(w) /\ ~BCommit(w)
    <3>1. /\ bwk'[w].pending = bwk[w].pending /\ bwk'[w].job = s /\ UNCHANGED bjob
          /\ bwk[w].pc # "idle"
      BY <1>5, <2>4 DEF KeepsJob
    <3>2. \/ bwk'[w].pc \in {"catch", "throw"}
          \/ /\ bwk'[w].pc \in {"start", "split", "mark", "commit"}
             /\ bwk[w].pc \in {"start", "split", "mark", "commit"}
      <4>1. CASE BSplit(w)
        <5>1. BSplitEffect(w) /\ bwk[w].pc = "split"
          BY <4>1, BSplitDoes DEF BSplit
        <5> QED BY <5>1 DEF BSplitEffect
      <4>2. CASE BMarkProcessing(w)
        <5>1. /\ bwk[w].pc = "start"
              /\ IF IsLast(w) THEN BStep(w, "split", 1) ELSE BStep(w, "start", bwk[w].i + 1)
          BY <4>2 DEF BMarkProcessing
        <5>2. SlotStepped(w, "split", 1) \/ SlotStepped(w, "start", bwk[w].i + 1)
          BY <5>1, LoopFrame
        <5> QED BY <5>1, <5>2 DEF SlotStepped
      <4>3. CASE BMarkCompleted(w)
        <5>1. /\ bwk[w].pc = "mark"
              /\ IF IsLast(w) THEN BStep(w, "commit", 1) ELSE BStep(w, "split", bwk[w].i + 1)
          BY <4>3 DEF BMarkCompleted
        <5>2. SlotStepped(w, "commit", 1) \/ SlotStepped(w, "split", bwk[w].i + 1)
          BY <5>1, LoopFrame
        <5> QED BY <5>1, <5>2 DEF SlotStepped
      <4>4. CASE BMarkFailed(w)
        <5>1. /\ bwk[w].pc = "catch"
              /\ IF IsLast(w) THEN BStep(w, "throw", 1) ELSE BStep(w, "catch", bwk[w].i + 1)
          BY <4>4 DEF BMarkFailed
        <5>2. SlotStepped(w, "throw", 1) \/ SlotStepped(w, "catch", bwk[w].i + 1)
          BY <5>1, LoopFrame
        <5> QED BY <5>2 DEF SlotStepped
      <4>5. CASE BTxFails(w) \/ BOutboxFails(w)
        <5>1. 1 \in Nat \ {0} /\ BatchTypeOK
          BY DEF BatchShape
        <5>2. BStep(w, "catch", 1) \/ BStep(w, "throw", 1)
          BY <4>5 DEF BTxFails, BOutboxFails
        <5>3. SlotStepped(w, "catch", 1) \/ SlotStepped(w, "throw", 1)
          BY <5>1, <5>2, BStepFrame
        <5> QED BY <5>3 DEF SlotStepped
      <4>6. ~BCrash(w)
        <5>1. BCrash(w) => bwk'[w].pc = "idle"
          BY FreeSlot DEF BCrash
        <5> QED BY <1>5, <2>4, <5>1 DEF KeepsJob
      <4> QED BY <1>5, <2>4, <4>1, <4>2, <4>3, <4>4, <4>5, <4>6 DEF ProcessStep
    <3> SUFFICES ASSUME NEW c \in Chunk, InJob(bwk[w].job, c)',
                        bwk'[w].pc \in {"start", "split", "mark", "commit"}
                 PROVE  Applied(c)' \/ Listed(w, c)'
      BY <3>2 DEF ToDo
    <3>3. InJob(s, c) /\ s \in Session
      BY <1>t, <3>1 DEF InJob
    <3>4. Applied(c) \/ Listed(w, c)
      BY <3>2, <3>3 DEF ToDo
    <3>5. Listed(w, c) => Listed(w, c)'
      BY <3>1 DEF Listed
    <3> QED BY <1>a, <3>3, <3>4, <3>5
  <2> QED BY <2>1, <2>2, <2>3, <2>4
<1>6. ASSUME NEW u \in Session, JobLeaves(u), UNCHANGED bwk PROVE ToDo(w)'
  <2>1. bwk[w].pc # "idle" => bjob[s].state = "active"
    BY DEF BatchOwned, HoldsBatch
  <2>2. bwk[w].pc # "idle" => bjob'[s] = bjob[s]
    BY <1>6, <1>t, <2>1 DEF JobLeaves
  <2> QED BY <1>6, <1>s, <2>2
<1> QED BY <1>1, <1>2, <1>3, <1>4, <1>5, <1>6 DEF JobActors

LEMMA JobDoneStep ==
    ASSUME BatchShape, RowsKept, JobActors, JobDone, [BatchNext]_allVars,
           \A w \in Worker : ToDo(w)
    PROVE  JobDone'
<1> SUFFICES ASSUME NEW s \in Session, NEW c \in Chunk, bjob'[s].state = "completed", InJob(s, c)'
             PROVE  Applied(c)'
  BY DEF JobDone
<1>1. ASSUME InJob(s, c), Applied(c) PROVE Applied(c)'
  BY <1>1, CarriedHasRow, BatchAppliedStable
<1>2. CASE bjob'[s] = bjob[s]
  <2>1. InJob(s, c) /\ bjob[s].state = "completed"
    BY <1>2 DEF InJob
  <2> QED BY <2>1, <1>1 DEF JobDone
<1>3. ASSUME NEW w \in Worker, JobEnds(w), bjob'[s] # bjob[s] PROVE Applied(c)'
  <2>1. /\ s = bwk[w].job /\ bjob'[s].chunks = bjob[s].chunks /\ bwk[w].pc = "finish"
    BY <1>3 DEF JobEnds
  <2>2. InJob(s, c)
    BY <2>1 DEF InJob
  <2> QED BY <2>1, <2>2, <1>1 DEF ToDo
<1>4. \/ bjob'[s] = bjob[s]
      \/ bjob'[s].state \in {"waiting", "active", "none"}
      \/ \E w \in Worker : JobEnds(w)
  BY DEF JobActors, JobAdded, SlotTakes, JobLeaves, KeepsJob
<1> QED BY <1>2, <1>3, <1>4

LEMMA Done ==
    ASSUME OneSession, WorkersKeepJobs
    PROVE  BatchSpec => []DoneInv
<1>1. BatchInit => SessionsApart /\ BatchOwned /\ (\A w \in Worker : ToDo(w)) /\ JobDone
  <2> SUFFICES ASSUME BatchInit
               PROVE  SessionsApart /\ BatchOwned /\ (\A w \in Worker : ToDo(w)) /\ JobDone
    OBVIOUS
  <2>1. /\ \A b \in BatchRequest : breq[b].pending = <<>>
        /\ \A s \in Session : bjob[s].chunks = <<>> /\ bjob[s].state = "none"
        /\ \A w \in Worker : bwk[w].pc = "idle"
    BY IdleSlot DEF BatchInit, NoBatch
  <2>2. SessionsApart
    BY <2>1 DEF SessionsApart, OfSession
  <2>3. BatchOwned /\ JobDone /\ \A w \in Worker : ToDo(w)
    BY <2>1 DEF BatchOwned, JobDone, ToDo
  <2> QED BY <2>2, <2>3
<1>2. BatchInit /\ AccountedInv => DoneInv
  BY <1>1 DEF DoneInv
<1>3. DoneInv /\ AccountedInv' /\ [BatchNext]_allVars => DoneInv'
  <2> SUFFICES ASSUME DoneInv, AccountedInv', [BatchNext]_allVars PROVE DoneInv'
    OBVIOUS
  <2>1. BatchShape /\ RowsKept /\ TxCovers /\ CompletedOrInFlight
    BY BatchShapeStep DEF DoneInv, AccountedInv, TransactionInv
  <2>2. JobActors
    BY <2>1, JobActorsStep DEF DoneInv
  <2>3. SessionsApart' /\ BatchOwned'
    BY <2>1, <2>2, SessionsApartStep, BatchOwnedStep DEF DoneInv
  <2>4. \A w \in Worker : ToDo(w)'
    BY <2>1, <2>2, ToDoStep DEF DoneInv
  <2>5. JobDone'
    BY <2>1, <2>2, JobDoneStep DEF DoneInv
  <2> QED BY <2>3, <2>4, <2>5 DEF DoneInv
<1>4. WorkersLive
  BY DEF WorkersKeepJobs
<1> QED BY <1>2, <1>3, <1>4, Accounted, PTL DEF BatchSpec

\* As long as no worker dies, loses its lock or the outbox, and the chunks of a batch
\* are of one session, every chunk of a batch job that the queue counts as completed
\* is applied: what a retry finds completed, and leaves out, an earlier transaction
\* has really committed.
THEOREM BatchJobDoneIsApplied ==
    ASSUME OneSession, WorkersKeepJobs
    PROVE  BatchSpec => []JobDoneIsApplied
<1>1. DoneInv => JobDoneIsApplied
  <2> SUFFICES ASSUME DoneInv, NEW s \in Session, bjob[s].state = "completed",
                      NEW k \in 1 .. Len(bjob[s].chunks)
               PROVE  Applied(bjob[s].chunks[k])
    BY DEF JobDoneIsApplied
  <2>1. InJob(s, bjob[s].chunks[k])
    BY DEF InJob
  <2>2. BatchShape /\ JobDone
    BY DEF DoneInv, AccountedInv, TransactionInv
  <2>3. bjob[s].chunks[k] \in Chunk
    BY <2>1, <2>2, CarriedHasRow
  <2> QED BY <2>1, <2>2, <2>3 DEF JobDone
<1> QED BY <1>1, Done, PTL
=============================================================================

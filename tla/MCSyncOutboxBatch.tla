------------------------- MODULE MCSyncOutboxBatch -------------------------
(* Instances of SyncOutboxBatch for TLC: one session, two chunks, two workers. *)
EXTENDS SyncOutboxBatch

CONSTANTS c1, c2, h1, h2, h3, p1, b1, b2, r1, r2, s1, w1, w2

\* h1 updates r1, h2 inserts r2 and updates r1 again; h3 is a catalogue payload.
MCTouches == h1 :> {r1} @@ h2 :> {r1, r2} @@ h3 :> {r2}
MCInit == r1 :> 1 @@ r2 :> 0
MCBase == [h \in Payload |-> MCInit]
MCSession == [c \in Chunk |-> s1]

Item1 == [chunk |-> c1, payload |-> h1]
Item2 == [chunk |-> c2, payload |-> h2]

\* A batch of two chunks, one of them pushed alone as well.
MCBatch == b1 :> <<Item1, Item2>>
MCSingle == {<<p1, c1, h1>>}
MCNone == {}

\* The second batch carries the first chunk with another body.
MCClash == b1 :> <<Item1, Item2>> @@ b2 :> <<[chunk |-> c1, payload |-> h3]>>

\* The worker slots are interchangeable.
WorkerSymmetry == Permutations(Worker)
=============================================================================

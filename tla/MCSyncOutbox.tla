---------------------------- MODULE MCSyncOutbox ----------------------------
(* Instances of SyncOutbox for TLC: two chunks, three records, three payloads. *)
EXTENDS SyncOutbox, TLC

CONSTANTS c1, c2, h1, h2, h3, p1, p2, r1, r2, r3, w1, w2

\* h1 updates r1, which the server has at version 1, and inserts r2; h2 competes
\* for r1; h3 is a catalogue payload, which only touches r3, without versions.
MCTouches == h1 :> {r1, r2} @@ h2 :> {r1} @@ h3 :> {r3}
MCInit == [r \in Record |-> IF r = r1 THEN 1 ELSE 0]
MCBase == [h \in Payload |-> MCInit]

\* The same chunk pushed twice, the second time with the same body or another.
MCRepush == {<<p1, c1, h1>>, <<p2, c1, h1>>, <<p2, c1, h2>>}

\* Two chunks that carry the same base version of r1, or one of them a catalogue.
MCCompete == {<<p1, c1, h1>>, <<p2, c2, h2>>, <<p2, c2, h3>>}

\* Either of the two.
MCPush == MCRepush \cup MCCompete

\* The worker slots are interchangeable.
WorkerSymmetry == Permutations(Worker)
=============================================================================

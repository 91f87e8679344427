-------------------------- MODULE MCOptimisticSync --------------------------
(* Instances of OptimisticSync for TLC: three clients, two operators. *)
EXTENDS OptimisticSync, TLC

CONSTANTS a, b, d, q1, q2, r1, r2

\* a and b edit r1, d edits it too and inserts r2.
MCRecordsOf == [c \in Client |-> IF c = d THEN {r1, r2} ELSE {r1}]
MCAuthor == [r \in Record \ Stored |-> d]
=============================================================================

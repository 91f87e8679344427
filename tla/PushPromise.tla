----------------------------- MODULE PushPromise -----------------------------
(***************************************************************************)
(* What the asynchronous push promises, without queue, workers, locks or    *)
(* outbox statuses: the first payload pushed for a chunk is the one that    *)
(* counts, applying it is one atomic compare-and-set of the versions of its *)
(* records, and a client hears "completed" only after that has happened.    *)
(* SyncOutbox is shown to implement it.                                     *)
(***************************************************************************)
EXTENDS Naturals

CONSTANTS Chunk, Payload, Record, Nil,
          Touches,      \* Touches[h]: the records of payload h
          BaseVersion,  \* BaseVersion[h][r]: the version h expects of record r
          InitVersion,  \* InitVersion[r]: initial version of r, 0 when absent
          Blind         \* payloads that are written without looking at versions

VARIABLES
    chosen,       \* the payload registered for each chunk, Nil before
    version,      \* version of each record
    accepts,      \* accepts[c][r]: how often chunk c has written record r
    conflictLog,  \* conflictLog[c]: records of c found in conflict
    told          \* chunks reported completed to a client

vars == <<chosen, version, accepts, conflictLog, told>>

Init ==
    /\ chosen = [c \in Chunk |-> Nil]
    /\ version = InitVersion
    /\ accepts = [c \in Chunk |-> [r \in Record |-> 0]]
    /\ conflictLog = [c \in Chunk |-> {}]
    /\ told = {}

Register(c, h) ==
    /\ chosen[c] = Nil
    /\ chosen' = [chosen EXCEPT ![c] = h]
    /\ UNCHANGED <<version, accepts, conflictLog, told>>

\* A stored record is written exactly when it still has the expected version.
\* A record that did not exist when the system started may be accepted whatever
\* its version: the code has nothing to lock before the row exists.
MayAccept(h, acc) ==
    /\ acc \subseteq Touches[h]
    /\ h \in Blind => acc = Touches[h]
    /\ h \notin Blind =>
        \A r \in Touches[h] : InitVersion[r] > 0 =>
            (r \in acc <=> version[r] = BaseVersion[h][r])

Apply(c, acc) ==
    /\ chosen[c] # Nil
    /\ MayAccept(chosen[c], acc)
    /\ accepts' = [accepts EXCEPT ![c] = [r \in Record |-> IF r \in acc THEN @[r] + 1 ELSE @[r]]]
    /\ conflictLog' = [conflictLog EXCEPT ![c] = @ \cup (Touches[chosen[c]] \ acc)]
    /\ IF chosen[c] \in Blind
       THEN version' = version
       ELSE /\ version' \in [Record -> Nat]
            /\ \A r \in Record : IF r \notin acc THEN version'[r] = version[r]
                                 ELSE InitVersion[r] > 0 => version'[r] = version[r] + 1
    /\ UNCHANGED <<chosen, told>>

Tell(c) ==
    /\ chosen[c] # Nil
    /\ \A r \in Touches[chosen[c]] : accepts[c][r] > 0 \/ r \in conflictLog[c]
    /\ told' = told \cup {c}
    /\ UNCHANGED <<chosen, version, accepts, conflictLog>>

Next == \E c \in Chunk :
    \/ \E h \in Payload : Register(c, h)
    \/ \E acc \in SUBSET Record : Apply(c, acc)
    \/ Tell(c)

Spec == Init /\ [][Next]_vars

=============================================================================

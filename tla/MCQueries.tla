----------------------------- MODULE MCQueries -----------------------------
(* Small instances of Queries, and so of Blockchain, for TLC.               *)
EXTENDS Queries

CONSTANTS t1, t2, c1, c2

MCTxs == {t1, t2}
MCCallbacks == {c1}
MCSchedules == [t \in MCTxs |-> IF t = t1 THEN {c1} ELSE {}]
TwoCallbacks == {c1, c2}
BothSchedules == [t \in MCTxs |-> IF t = t1 THEN {c1} ELSE {c2}]

\* States that differ in the history of starts only are one: no action reads it, nor
\* does a property of the run with faults but for its type.
WithoutStarts == <<pending, blocks, latest, autoMine, entropy, indexes>>

=============================================================================

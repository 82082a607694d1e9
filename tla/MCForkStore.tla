---------------------------- MODULE MCForkStore ----------------------------
(* Small instances of ForkStore for TLC.                                    *)
EXTENDS ForkStore, TLC

CONSTANTS p1, p2, r1

TwoProcesses == {p1, p2}
OneProcess == {p1}
MCRegisters == {r1}

\* The first process is given the latest block or a height, the second one a height
\* below that, at which the first may have forked before.
MCForkHeights == [p \in Processes |-> IF p = p1 THEN {0, 2} ELSE {1}]
MCMaxHeight == [p \in Processes |-> IF p = p1 THEN 3 ELSE 2]
MCRollbackHeights == [p \in Processes |-> IF p = p1 THEN {1} ELSE {}]
MCReadHeights == [p \in Processes |-> IF p = p1 THEN {0, 2, 3} ELSE {0, 2}]
MCQueriedHeights == [p \in Processes |-> IF p = p1 THEN {3} ELSE {}]

\* The register changes in every block of the network.
MCRemote == [r \in MCRegisters |-> [h \in UNION {0..t : t \in Tips} |-> <<"remote", r, h>>]]

=============================================================================

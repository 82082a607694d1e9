---------------------------- MODULE MCStreaming ----------------------------
(* Small instances of Streaming for TLC.                                    *)
EXTENDS Streaming

CONSTANTS t1, t2, c1, s1

TwoTxs == {t1, t2}
FirstSchedules == [t \in Txs |-> IF t = t1 THEN {c1} ELSE {}]

=============================================================================

-------------------------- MODULE MCSnapshotReload --------------------------
(* A small instance of SnapshotReload for TLC.                              *)
EXTENDS SnapshotReload

CONSTANTS t1, t2

MCTxs == {t1, t2}
NoCallbacks == {}
NoSchedules == [t \in MCTxs |-> {}]

=============================================================================

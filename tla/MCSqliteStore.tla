--------------------------- MODULE MCSqliteStore ---------------------------
(* Small instances of SqliteStore for TLC.                                  *)
EXTENDS SqliteStore

CONSTANTS t1, c1, none

MCTxs == {t1}
MCCallbacks == {c1}
NoCallbacks == {}
OneSnapshot == {"s1"}

=============================================================================

----------------------------- MODULE MCDebugger -----------------------------
(* Small instances of Debugger for TLC.                                     *)
EXTENDS Debugger

CONSTANTS k1, k2

TwoClients == {k1, k2}
TwoRequests == {1, 2}

=============================================================================

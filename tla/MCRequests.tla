----------------------------- MODULE MCRequests -----------------------------
(* Small instances of Requests for TLC.                                     *)
EXTENDS Requests

CONSTANTS t1, t2, t3, g1, g2, a, b, m, none

ThreeTxs == {t1, t2, t3}
TwoTickers == {g1, g2}
TwoCreators == {a, b}
OneMiner == {m}
\* Both creators ask for the same, as with no keys and no contracts.
SameContent == [c \in Creators |-> "client"]

TickingOnly == {t1, t2, t3, g1, g2, "shutdown"}
Creating == {a, b, t1, g1}
Mining == {a, m, t1, g1, g2}
MCCasts == {TickingOnly, Creating, Mining}

=============================================================================

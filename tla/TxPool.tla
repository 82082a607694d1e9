------------------------------- MODULE TxPool -------------------------------
(***************************************************************************)
(* What the emulator promises the clients that submit transactions,        *)
(* without heights, execution, events or ledgers: a pool of accepted       *)
(* transactions and the log of sealed batches, one per block.              *)
(***************************************************************************)
EXTENDS Naturals, Sequences, Functions

CONSTANT Txs

VARIABLES
    pool,   \* accepted transactions, in the order of submission
    log,    \* log[h]: the transactions sealed in the block at height h
    held    \* the pool was sealed and is still to be dropped

vars == <<pool, log, held>>

Sealed == UNION {Range(log[h]) : h \in DOMAIN log}

Fresh(t) == t \notin Range(pool) /\ t \notin Sealed

\* A batch that can be sealed: the pool, or the pool and one transaction more,
\* which is accepted and sealed by the same call.
Batches == {pool} \cup {Append(pool, t) : t \in {u \in Txs : Fresh(u)}}

Init == pool = <<>> /\ log = <<>> /\ held = FALSE

Accept(t) ==
    /\ Fresh(t)
    /\ pool' = Append(pool, t)
    /\ UNCHANGED <<log, held>>

\* The batch is sealed as one block; the pool is emptied, or held back when
\* the call failed after the block was stored.
Seal(batch) ==
    /\ ~held
    /\ log' = Append(log, batch)
    /\ \/ pool' = <<>> /\ held' = FALSE
       \/ pool' = batch /\ held' = TRUE

Drop ==
    /\ pool' = <<>>
    /\ held' = FALSE
    /\ UNCHANGED log

Next ==
    \/ \E t \in Txs : Accept(t)
    \/ \E batch \in Batches : Seal(batch)
    \/ Drop

Spec == Init /\ [][Next]_vars

=============================================================================

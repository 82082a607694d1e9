---------------------------- MODULE BlocksTicker ----------------------------
(***************************************************************************)
(* Block production on a timer (emulator/blockTicker.go) as the server     *)
(* runs it (server/server.go): AddToGroup adds the one BlocksTicker twice, *)
(* so two goroutines run its Start loop on the same ticker and the same    *)
(* done channel, and shutting down calls its Stop twice.  A goroutine      *)
(* calls ExecuteBlock and then CommitBlock, each under Blockchain.mu but   *)
(* not both together: clients and the other goroutine come in between.     *)
(*                                                                         *)
(* The blockchain is reduced to what the ticker's calls depend on: the     *)
(* transactions of the pending block, the execution index and the sealed   *)
(* transactions.  No call fails for a reason outside of this state; module *)
(* Blockchain has the failures.                                            *)
(***************************************************************************)
EXTENDS Naturals, Sequences, FiniteSets, Functions

CONSTANTS
    Txs,        \* transactions that clients submit
    Tickers     \* the goroutines, one per group.Add(s.blocks)

ASSUME TickersAssumption == IsFiniteSet(Tickers) /\ Tickers # {}

VARIABLES
    txs,        \* pending block: transactions in the order of submission
    index,      \* pending block: number of transactions executed
    sealed,     \* transactions of the committed blocks, in the order of the chain
    accepted,   \* history: transactions that clients were told are accepted
    executions, \* history: transactions in the order in which they were executed
    pc,         \* where each goroutine is in its loop
    tick,       \* ticker.C holds a tick (its buffer has room for one)
    done,       \* the done channel holds a token (its buffer has room for one)
    stopping,   \* the group is shutting down
    stops       \* how many of its calls of Stop have returned

chain == <<txs, index, sealed, accepted, executions>>
ticker == <<pc, tick, done, stopping, stops>>
vars == <<chain, ticker>>

-----------------------------------------------------------------------------
(* The blockchain, as the ticker and the clients call it                   *)

ExecutionStarted == index > 0
ExecutionComplete == index >= Len(txs)
Empty == Len(txs) = 0

AddTransaction(t) ==
    /\ ~ExecutionStarted
    /\ t \notin Range(txs) /\ t \notin Range(sealed)
    /\ txs' = Append(txs, t)
    /\ accepted' = Append(accepted, t)
    /\ UNCHANGED <<index, sealed, executions>>

\* executeBlock: the transactions that remain; nothing when all are executed.
ExecuteBlock ==
    /\ index' = Len(txs)
    /\ executions' = executions \o SubSeq(txs, index + 1, Len(txs))
    /\ UNCHANGED <<txs, sealed, accepted>>

\* Mutant: a block is committed whatever was executed of it.
CommitAlways == TRUE

\* Mutant: a block whose execution has begun is refused.
CommitOnlyEmpty == Empty

\* commitBlock refuses a block before its execution, unless empty, and in the
\* middle of it.
CommitAllowed == /\ ExecutionStarted \/ Empty
                 /\ ExecutionStarted => ExecutionComplete

\* A refused commit changes nothing; the ticker ignores its error.
CommitBlock ==
    /\ sealed' = IF CommitAllowed THEN sealed \o txs ELSE sealed
    /\ txs' = IF CommitAllowed THEN <<>> ELSE txs
    /\ index' = IF CommitAllowed THEN 0 ELSE index
    /\ UNCHANGED <<accepted, executions>>

-----------------------------------------------------------------------------
(* The goroutines                                                          *)

\* time.Ticker: a tick that finds the buffer full is dropped.
Tick ==
    /\ ~tick
    /\ tick' = TRUE
    /\ UNCHANGED <<chain, pc, done, stopping, stops>>

\* case <-t.ticker.C
TakeTick(g) ==
    /\ pc[g] = "select" /\ tick
    /\ tick' = FALSE
    /\ pc' = [pc EXCEPT ![g] = "execute"]
    /\ UNCHANGED <<chain, done, stopping, stops>>

CallExecuteBlock(g) ==
    /\ pc[g] = "execute"
    /\ ExecuteBlock
    /\ pc' = [pc EXCEPT ![g] = "commit"]
    /\ UNCHANGED <<tick, done, stopping, stops>>

CallCommitBlock(g) ==
    /\ pc[g] = "commit"
    /\ CommitBlock
    /\ pc' = [pc EXCEPT ![g] = "select"]
    /\ UNCHANGED <<tick, done, stopping, stops>>

\* case <-t.done
TakeDone(g) ==
    /\ pc[g] = "select" /\ done
    /\ done' = FALSE
    /\ pc' = [pc EXCEPT ![g] = "returned"]
    /\ UNCHANGED <<chain, tick, stopping, stops>>

\* The server is stopped: the group calls Stop of its routines, one by one.
Shutdown ==
    /\ ~stopping
    /\ stopping' = TRUE
    /\ UNCHANGED <<chain, pc, tick, done, stops>>

\* Mutant: a token that finds the buffer full is dropped.
StopWithoutBlocking ==
    /\ stopping /\ stops < Cardinality(Tickers)
    /\ done' = TRUE
    /\ stops' = stops + 1
    /\ UNCHANGED <<chain, pc, tick, stopping>>

\* Stop: blocks while the buffer is full.
Stop ==
    /\ stopping /\ stops < Cardinality(Tickers)
    /\ ~done
    /\ done' = TRUE
    /\ stops' = stops + 1
    /\ UNCHANGED <<chain, pc, tick, stopping>>

-----------------------------------------------------------------------------

Init ==
    /\ txs = <<>> /\ index = 0 /\ sealed = <<>>
    /\ accepted = <<>> /\ executions = <<>>
    /\ pc = [g \in Tickers |-> "select"]
    /\ tick = FALSE /\ done = FALSE
    /\ stopping = FALSE /\ stops = 0

Next ==
    \/ \E t \in Txs : AddTransaction(t) /\ UNCHANGED ticker
    \/ Tick
    \/ \E g \in Tickers : \/ TakeTick(g) \/ TakeDone(g)
                          \/ CallExecuteBlock(g) \/ CallCommitBlock(g)
    \/ Shutdown
    \/ Stop

\* The timer fires and the scheduler runs every goroutine that can run.  A Go
\* select that finds both cases ready picks one at random, so a goroutine that
\* finds a token again and again takes it.  Clients need not submit, and the
\* server need not be stopped.
Fairness ==
    /\ WF_vars(Tick)
    /\ WF_vars(\E g \in Tickers : TakeTick(g))
    /\ WF_vars(Stop)
    /\ \A g \in Tickers : /\ WF_vars(CallExecuteBlock(g))
                          /\ WF_vars(CallCommitBlock(g))
                          /\ SF_vars(TakeDone(g))

Spec == Init /\ [][Next]_vars /\ Fairness

-----------------------------------------------------------------------------
(* Properties                                                              *)

\* However the two goroutines and the clients interleave, every accepted
\* transaction is sealed once and in the order of acceptance, after it was
\* executed exactly once.
EachOnceInOrder ==
    /\ sealed \o txs = accepted
    /\ executions = sealed \o SubSeq(txs, 1, index)

\* An accepted transaction is sealed at some later time, although a commit that
\* comes between an addition and its execution is refused and not repeated.
AcceptedIsSealed ==
    \A t \in Txs : t \in Range(txs) ~> (t \in Range(sealed) \/ stopping)

\* Shutting down ends: every call of Stop returns and both goroutines return,
\* although they share one channel with room for one token.
ShutdownCompletes ==
    stopping ~> (stops = Cardinality(Tickers) /\ \A g \in Tickers : pc[g] = "returned")

=============================================================================

----------------------------- MODULE Blockchain -----------------------------
(***************************************************************************)
(* The emulator's Blockchain object (emulator/blockchain.go) and its       *)
(* pending block (emulator/pendingBlock.go): clients add transactions to   *)
(* the pending block, execute them, and commit the block on top of the     *)
(* chain in storage.  Every operation of this module runs under            *)
(* Blockchain.mu in the code and is one atomic step; an operation that     *)
(* can fail half way has one disjunct per place where it returns, with     *)
(* the changes it made before returning.                                   *)
(*                                                                         *)
(* Abstracted: a register state is the set of user transactions applied to *)
(* it and the states of the scheduled callbacks; an event stands for its   *)
(* emitter; a block's identifier (a hash of its header) is the tuple of    *)
(* the header fields that tell blocks apart.  Rejected calls change        *)
(* nothing and are the steps that are not enabled.                         *)
(***************************************************************************)
EXTENDS Naturals, Sequences, FiniteSets, Functions

CONSTANTS
    Txs,            \* transactions that clients may submit
    Callbacks,      \* scheduled transactions that user transactions may create
    Schedules,      \* Schedules[t]: the callbacks t creates when it succeeds
    ScheduledTransactionsEnabled,   \* the configuration flag of that name
    MaxViewIncrease,
    Faults,         \* the places where the environment may fail a call
    MaxHeight,      \* bound: no block above this height gets transactions or is committed
    MaxEvents       \* bound: a commit does not fail with more events pending

Process == "process"    \* the transaction that collects due callbacks
Chunk == "chunk"        \* the system chunk transaction that closes a block
Bootstrap == "bootstrap"    \* the EVM set-up in the bootstrap of the ledger

\* Where an error of the virtual machine or of the database can surface:
\* vm.Run and Merge of a user transaction, the scheduled transactions and the
\* system chunk of a commit, storage.CommitBlock, and the calls after it; and a
\* scheduled transaction that runs and ends with an error of its own.
FaultPoints == {"vm", "merge", "scheduled", "chunk", "store", "index", "reverts"}

ASSUME ConstantsAssumption ==
    /\ Schedules \in [Txs -> SUBSET Callbacks]
    /\ ScheduledTransactionsEnabled \in BOOLEAN
    /\ MaxViewIncrease \in Nat \ {0}
    /\ Faults \subseteq FaultPoints
    /\ MaxHeight \in Nat
    /\ MaxEvents \in Nat

\* The scheduler contract numbers the callbacks: each is created by one
\* transaction, and none is taken for another emitter of events.
ASSUME IdentifiersAssumption ==
    /\ \A t, u \in Txs : Schedules[t] \cap Schedules[u] # {} => t = u
    /\ {Process, Chunk, Bootstrap} \cap Callbacks = {}

VARIABLES
    pending,    \* Blockchain.pendingBlock
    blocks,     \* storage: height -> committed block with all that belongs to it
    latest,     \* storage: latest block height
    autoMine,   \* conf.AutoMine
    entropy,    \* entropyProvider.LatestBlock
    starts      \* history: the latest heights on which a process was started

vars == <<pending, blocks, latest, autoMine, entropy, starts>>

-----------------------------------------------------------------------------
(* Ledger, blocks and pending block                                        *)

\* A transaction that ran leaves a result, also when it reverted.
Completed == {"ok", "reverted"}
NoResults == [t \in Txs |-> "none"]

EmptyLedger == [applied |-> {}, cb |-> [c \in Callbacks |-> "none"], ran |-> {}]

ZeroID == <<>>
BlockID(b) == <<b.height, b.view, b.txs>>

\* The bootstrap of the ledger leaves events, but neither transactions nor results.
GenesisBlock ==
    [height |-> 0, view |-> 0, parent |-> ZeroID, txs |-> <<>>,
     results |-> NoResults, sys |-> <<>>, events |-> <<Bootstrap>>,
     ledger |-> EmptyLedger, random |-> ZeroID]

\* Mutant: the execution index is carried over to the next block.
PendingKeepingIndex(prev, v) ==
    [height |-> prev.height + 1, view |-> prev.view + v, parent |-> BlockID(prev),
     txs |-> <<>>, index |-> Len(prev.txs), results |-> NoResults, events |-> <<>>,
     ledger |-> prev.ledger, finalized |-> FALSE]

\* Mutant: the parent of the previous block is taken for the parent.
PendingOnGrandparent(prev, v) ==
    [height |-> prev.height + 1, view |-> prev.view + v, parent |-> prev.parent,
     txs |-> <<>>, index |-> 0, results |-> NoResults, events |-> <<>>,
     ledger |-> prev.ledger, finalized |-> FALSE]

\* newPendingBlock: sequentially after prev, on prev's ledger.
PendingOn(prev, v) ==
    [height |-> prev.height + 1, view |-> prev.view + v, parent |-> BlockID(prev),
     txs |-> <<>>, index |-> 0, results |-> NoResults, events |-> <<>>,
     ledger |-> prev.ledger, finalized |-> FALSE]

NewPendingBlocks(prev) == {PendingOn(prev, v) : v \in 1..MaxViewIncrease}

ExecutionStarted(p) == p.index > 0
ExecutionComplete(p) == p.index >= Len(p.txs)
Empty(p) == Len(p.txs) = 0
ContainsTransaction(p, t) == t \in Range(p.txs)

\* storage.TransactionByID finds t.
Stored(t) == \E h \in DOMAIN blocks : t \in Range(blocks[h].txs)

-----------------------------------------------------------------------------
(* Adding transactions                                                     *)

\* Mutant: storage is not asked for the transaction.
AcceptableWithoutStorageCheck(p, t) == ~ExecutionStarted(p) /\ ~ContainsTransaction(p, t)

\* The checks of addTransaction that depend on the state.
Acceptable(p, t) ==
    /\ ~ExecutionStarted(p)
    /\ ~ContainsTransaction(p, t)
    /\ ~Stored(t)

Added(p, t) == [p EXCEPT !.txs = Append(@, t)]

-----------------------------------------------------------------------------
(* Executing transactions                                                  *)

AppliedTo(ledger, S) ==
    [ledger EXCEPT !.applied = @ \cup S,
                   !.cb = [c \in Callbacks |->
                             IF \E t \in S : c \in Schedules[t] THEN "scheduled" ELSE @[c]]]

\* Mutant: what a reverted transaction wrote is merged too.
ExecutedMergingReverted(p, m, out) ==
    LET seg == SubSeq(p.txs, p.index + 1, m)
        ran == Range(seg)
    IN  [p EXCEPT !.index = m,
                  !.results = [t \in Txs |-> IF t \in ran THEN out[t] ELSE @[t]],
                  !.events = @ \o seg,
                  !.ledger = AppliedTo(@, ran)]

\* The transactions with positions index + 1 to m ran to the end,
\* with outcome out[t] each: events, ledger and result are recorded.
Executed(p, m, out) ==
    LET seg == SubSeq(p.txs, p.index + 1, m)
        ran == Range(seg)
    IN  [p EXCEPT !.index = m,
                  !.results = [t \in Txs |-> IF t \in ran THEN out[t] ELSE @[t]],
                  !.events = @ \o seg,
                  !.ledger = AppliedTo(@, {t \in ran : out[t] = "ok"})]

\* The next transaction failed fatally: its index is consumed, there is no
\* result.  When Merge failed its events are already recorded.
FailedAt(p, fault) ==
    [p EXCEPT !.index = @ + 1,
              !.events = IF fault = "merge" THEN Append(@, p.txs[p.index + 1]) ELSE @]

\* A finalized ledger state answers every read and every merge with an error.
TxFaults(p) == IF p.finalized THEN {"vm"} ELSE Faults \cap {"vm", "merge"}

Outcomes == [Txs -> Completed]

\* The states executeBlock leaves when all remaining transactions ran.
CompleteRuns(p) ==
    {Executed(p, Len(p.txs), out) : out \in {o \in Outcomes : p.finalized => Empty(p)}}

\* The states it leaves when it stopped at a fatal error, the transactions up
\* to position m having run.
AbortedRuns(p) ==
    {FailedAt(Executed(p, m, out), fault) :
        m \in {n \in p.index .. (Len(p.txs) - 1) : p.finalized => n = p.index},
        out \in Outcomes,
        fault \in TxFaults(p)}

-----------------------------------------------------------------------------
(* Committing the pending block                                            *)

\* The guards at the top of commitBlock, for both errors.
CommitAllowed(p) ==
    /\ ExecutionStarted(p) \/ Empty(p)
    /\ ExecutionStarted(p) => ExecutionComplete(p)

\* Mutant: callbacks that were executed are found due again.
DueListsWithExecuted(p) ==
    LET ready == {c \in Callbacks : p.ledger.cb[c] # "none"}
    IN  IF ScheduledTransactionsEnabled
        THEN {s \in UNION {[1..n -> ready] : n \in 0..Cardinality(ready)} : IsInjective(s)}
        ELSE {<<>>}

\* The callbacks that the process transaction can find due, in the order of
\* its events: which ones depends on their timestamps.
DueLists(p) ==
    LET ready == {c \in Callbacks : p.ledger.cb[c] = "scheduled"}
    IN  IF ScheduledTransactionsEnabled
        THEN {s \in UNION {[1..n -> ready] : n \in 0..Cardinality(ready)} : IsInjective(s)}
        ELSE {<<>>}

\* The process transaction marks the due callbacks as executed; the first k of
\* them then run, each in an execute transaction.
CallbacksRun(ledger, due, k) ==
    [ledger EXCEPT !.cb = [c \in Callbacks |-> IF c \in Range(due) THEN "executed" ELSE @[c]],
                   !.ran = @ \cup Range(SubSeq(due, 1, k))]

\* executeScheduledTransactions after k execute transactions.
AfterCallbacks(p, due, k) ==
    IF ScheduledTransactionsEnabled
    THEN [p EXCEPT !.events = @ \o (<<Process>> \o SubSeq(due, 1, k)),
                   !.ledger = CallbacksRun(@, due, k)]
    ELSE p

AfterChunk(p, due) ==
    [AfterCallbacks(p, due, Len(due)) EXCEPT !.events = Append(@, Chunk)]

\* The states a failing executeScheduledTransactions leaves: before the process
\* transaction ran, or after k execute transactions; the event of the one that
\* failed is recorded when it is Merge that failed.
ScheduledFailures(p, due) ==
    {p, [p EXCEPT !.events = Append(@, Process)]}
    \cup {AfterCallbacks(p, due, k) : k \in 0..(Len(due) - 1)}
    \cup {[AfterCallbacks(p, due, k) EXCEPT !.events = Append(@, due[k + 1])] :
            k \in 0..(Len(due) - 1)}

\* The states a failing executeSystemChunkTransaction leaves.
ChunkFailures(p, due) ==
    {AfterCallbacks(p, due, Len(due)), AfterChunk(p, due)}

SystemTransactions(due) ==
    IF ScheduledTransactionsEnabled THEN <<Process>> \o due \o <<Chunk>> ELSE <<Chunk>>

\* What commitBlock hands to storage.
BlockOf(p, due) ==
    LET q == AfterChunk(p, due)
    IN  [height |-> p.height, view |-> p.view, parent |-> p.parent, txs |-> p.txs,
         results |-> p.results, sys |-> SystemTransactions(due), events |-> q.events,
         ledger |-> q.ledger, random |-> entropy]

\* Mutant: the ledger state of a block handed to storage stays writable.
FinalizeNothing(p) == p

Finalize(p) == [p EXCEPT !.finalized = TRUE]

\* Mutant: the counts of transactions and results are not compared.
CountsNotCompared(p) == TRUE

\* storage.CommitBlock refuses a block unless every transaction has a result.
CountsMatch(p) ==
    Len(p.txs) = Cardinality({t \in Range(p.txs) : p.results[t] # "none"})

\* storage.CommitBlock and StoreBlock: the block becomes the latest one.
Store(b) ==
    /\ blocks' = [h \in DOMAIN blocks \cup {b.height} |->
                    IF h = b.height THEN b ELSE blocks[h]]
    /\ latest' = IF b.height >= latest THEN b.height ELSE latest

\* Mutant: the entropy provider is never moved to the new block.
SealBlockKeepingEntropy(p, due) ==
    /\ CountsMatch(p)
    /\ Store(BlockOf(p, due))
    /\ pending' \in NewPendingBlocks(BlockOf(p, due))
    /\ UNCHANGED entropy

\* The block is stored and the next pending block starts on top of it.
SealBlock(p, due) ==
    /\ CountsMatch(p)
    /\ Store(BlockOf(p, due))
    /\ pending' \in NewPendingBlocks(BlockOf(p, due))
    /\ entropy' = BlockID(p)

\* The block is stored, then an index or the ledger cannot be written or read:
\* commitBlock returns before it replaces the pending block.
FailAfterStore(p, due) ==
    /\ "index" \in Faults
    /\ CountsMatch(p)
    /\ Store(BlockOf(p, due))
    /\ pending' = Finalize(AfterChunk(p, due))
    /\ UNCHANGED entropy

\* An error before anything is stored.  Each retry can add events.
FailBeforeStore(p, due) ==
    /\ Len(p.events) <= MaxEvents
    /\ \/ /\ "scheduled" \in Faults /\ ScheduledTransactionsEnabled
          /\ pending' \in ScheduledFailures(p, due)
       \/ /\ "chunk" \in Faults
          /\ pending' \in ChunkFailures(p, due)
       \/ /\ "store" \in Faults \/ ~CountsMatch(p)
          /\ pending' = Finalize(AfterChunk(p, due))
    /\ UNCHANGED <<blocks, latest, entropy>>

\* commitBlock on pending block p.  A finalized block fails in its first read.
Commit(p) ==
    /\ p.height <= MaxHeight
    /\ \/ /\ CommitAllowed(p) /\ ~p.finalized
          /\ \E due \in DueLists(p) :
                \/ SealBlock(p, due)
                \/ FailAfterStore(p, due)
                \/ FailBeforeStore(p, due)
       \/ /\ ~CommitAllowed(p) \/ p.finalized
          /\ pending' = p
          /\ UNCHANGED <<blocks, latest, entropy>>

\* executeAndCommitBlock on pending block p.  A block that is executed already
\* is not committed: executeBlock returns the exhausted error.
ExecuteAndCommit(p) ==
    \/ /\ ExecutionComplete(p) /\ ~Empty(p)
       /\ pending' = p
       /\ UNCHANGED <<blocks, latest, entropy>>
    \/ /\ ~ExecutionComplete(p) \/ Empty(p)
       /\ \E q \in CompleteRuns(p) : Commit(q)
    \/ /\ pending' \in AbortedRuns(p)
       /\ UNCHANGED <<blocks, latest, entropy>>

-----------------------------------------------------------------------------
(* Operations                                                              *)

AddTransaction(t) ==
    /\ pending.height <= MaxHeight /\ Acceptable(pending, t)
    /\ pending' = Added(pending, t)
    /\ UNCHANGED <<blocks, latest, autoMine, entropy, starts>>

SendTransaction(t) ==
    /\ pending.height <= MaxHeight /\ Acceptable(pending, t)
    /\ \/ /\ autoMine
          /\ ExecuteAndCommit(Added(pending, t))
       \/ /\ ~autoMine
          /\ pending' = Added(pending, t)
          /\ UNCHANGED <<blocks, latest, entropy>>
    /\ UNCHANGED <<autoMine, starts>>

ExecuteBlock ==
    /\ ~ExecutionComplete(pending)
    /\ pending' \in CompleteRuns(pending) \cup AbortedRuns(pending)
    /\ UNCHANGED <<blocks, latest, autoMine, entropy, starts>>

ExecuteNextTransaction ==
    /\ ~ExecutionComplete(pending)
    /\ \/ /\ ~pending.finalized
          /\ \E out \in Outcomes : pending' = Executed(pending, pending.index + 1, out)
       \/ \E fault \in TxFaults(pending) : pending' = FailedAt(pending, fault)
    /\ UNCHANGED <<blocks, latest, autoMine, entropy, starts>>

CommitBlock ==
    /\ Commit(pending)
    /\ UNCHANGED <<autoMine, starts>>

ExecuteAndCommitBlock ==
    /\ ExecuteAndCommit(pending)
    /\ UNCHANGED <<autoMine, starts>>

ResetPendingBlock ==
    /\ pending' \in NewPendingBlocks(blocks[latest])
    /\ UNCHANGED <<blocks, latest, autoMine, entropy, starts>>

\* The process stops and is started again on the same store: New builds
\* everything but the chain anew, the entropy provider too.
Restart ==
    /\ pending' \in NewPendingBlocks(blocks[latest])
    /\ entropy' = ZeroID
    /\ starts' = starts \cup {latest}
    /\ UNCHANGED <<blocks, latest, autoMine>>

EnableAutoMine ==
    /\ autoMine' = TRUE
    /\ UNCHANGED <<pending, blocks, latest, entropy, starts>>

DisableAutoMine ==
    /\ autoMine' = FALSE
    /\ UNCHANGED <<pending, blocks, latest, entropy, starts>>

\* New on an empty store: configureNewLedger commits the genesis block.
Init ==
    /\ blocks = [h \in {0} |-> GenesisBlock]
    /\ latest = 0
    /\ pending \in NewPendingBlocks(GenesisBlock)
    /\ autoMine = FALSE
    /\ entropy = ZeroID
    /\ starts = {0}

Next ==
    \/ \E t \in Txs : AddTransaction(t) \/ SendTransaction(t)
    \/ ExecuteBlock
    \/ ExecuteNextTransaction
    \/ CommitBlock
    \/ ExecuteAndCommitBlock
    \/ ResetPendingBlock
    \/ Restart
    \/ EnableAutoMine
    \/ DisableAutoMine

Spec == Init /\ [][Next]_vars

-----------------------------------------------------------------------------
(* Properties                                                              *)

BlockIDs == {ZeroID} \cup (Nat \X Nat \X Seq(Txs))
Emitters == Txs \cup Callbacks \cup {Process, Chunk, Bootstrap}
Results == [Txs -> Completed \cup {"none"}]
Ledgers == [applied : SUBSET Txs,
            cb : [Callbacks -> {"none", "scheduled", "executed"}],
            ran : SUBSET Callbacks]
Blocks == [height : Nat, view : Nat, parent : BlockIDs, txs : Seq(Txs),
           results : Results, sys : Seq(Emitters), events : Seq(Emitters),
           ledger : Ledgers, random : BlockIDs]
PendingBlocks == [height : Nat, view : Nat, parent : BlockIDs, txs : Seq(Txs),
                  index : Nat, results : Results, events : Seq(Emitters),
                  ledger : Ledgers, finalized : BOOLEAN]

\* Every variable has its type; the execution index never passes the last
\* transaction of the pending block.
TypeOK ==
    /\ latest \in Nat
    /\ DOMAIN blocks \subseteq Nat
    /\ blocks \in [DOMAIN blocks -> Blocks]
    /\ pending \in PendingBlocks
    /\ pending.index \in 0..Len(pending.txs)
    /\ autoMine \in BOOLEAN
    /\ entropy \in BlockIDs
    /\ starts \subseteq Nat

\* The chain in storage has no gap: every height up to the latest holds a
\* block that names the block below as its parent and has a greater view, and
\* the pending block continues the chain, also after a commit that failed half
\* way, a reset or a restart.
ChainLinked ==
    /\ DOMAIN blocks = 0..latest
    /\ \A h \in 0..latest : blocks[h].height = h
    /\ \A h \in 1..latest :
          /\ blocks[h].parent = BlockID(blocks[h - 1])
          /\ blocks[h].view \in (blocks[h - 1].view + 1)..(blocks[h - 1].view + MaxViewIncrease)
    /\ \/ pending.height = latest + 1
       \/ pending.height = latest /\ pending.finalized
    /\ pending.height > 0 /\ pending.parent = BlockID(blocks[pending.height - 1])
    /\ pending.view \in (blocks[pending.height - 1].view + 1)
                         ..(blocks[pending.height - 1].view + MaxViewIncrease)

\* A transaction is sealed at most once in the whole chain, and what a client
\* can still commit from the pending block is not sealed already.
SealedAtMostOnce ==
    /\ \A g, h \in DOMAIN blocks :
          \A i \in 1..Len(blocks[g].txs), j \in 1..Len(blocks[h].txs) :
             blocks[g].txs[i] = blocks[h].txs[j] => g = h /\ i = j
    /\ ~pending.finalized => \A t \in Range(pending.txs) : ~Stored(t)

\* A sealed transaction has the result of its execution: no block is stored in
\* which a transaction was skipped by a fatal error, and no result belongs to a
\* transaction of another block.
SealedHasResult ==
    \A h \in DOMAIN blocks : \A t \in Txs :
        (blocks[h].results[t] # "none") <=> (t \in Range(blocks[h].txs))

\* The ledger at a height is the work of the transactions sealed up to it that
\* succeeded: nothing of a reverted, an aborted or a discarded execution is in
\* it, and nothing of a successful one is missing.
LedgerIsHistory ==
    \A h \in DOMAIN blocks :
        blocks[h].ledger.applied =
            {t \in Txs : \E g \in DOMAIN blocks : g <= h /\ blocks[g].results[t] = "ok"}

\* A block in storage is never replaced or removed by the operations on the
\* pending block, whatever fails.
ChainIsAppendOnly ==
    [][\A h \in DOMAIN blocks : h \in DOMAIN blocks' /\ blocks'[h] = blocks[h]]_vars

\* The status that getTransactionResult reports.
Status(t) ==
    IF ContainsTransaction(pending, t) THEN "pending"
    ELSE IF Stored(t) THEN "sealed" ELSE "unknown"

\* A client that was told a transaction is sealed is never told otherwise.
SealedIsFinal == [][\A t \in Txs : Status(t) = "sealed" => Status(t)' = "sealed"]_vars

\* The events of a block are those of its transactions and then of its system
\* transactions, each execution once and in the order of execution; the genesis
\* block has those of the bootstrap.
EventsOncePerExecution ==
    \A h \in DOMAIN blocks :
        blocks[h].events = IF h = 0 THEN <<Bootstrap>> ELSE blocks[h].txs \o blocks[h].sys

\* A callback that the ledger holds to be executed did run, and its result is
\* found under exactly one block.
CallbacksAccountedFor ==
    \A h \in DOMAIN blocks : \A c \in Callbacks :
        blocks[h].ledger.cb[c] = "executed" =>
            /\ c \in blocks[h].ledger.ran
            /\ \E g \in 0..h : /\ c \in Range(blocks[g].sys)
                               /\ \A f \in (0..h) \ {g} : c \notin Range(blocks[f].sys)

\* The random source of a block is the identifier of the block below it, except
\* for the first block that a process commits, which has none: the provider of a
\* new process knows no block.  (A commit that fails behind the store leaves the
\* provider one block behind; runs that check this have no such fault.)
RandomSourceIsFresh ==
    \A h \in 1..latest :
        blocks[h].random = IF h - 1 \in starts THEN ZeroID ELSE blocks[h].parent

-----------------------------------------------------------------------------
(* What clients are promised                                               *)

Pool == INSTANCE TxPool
        WITH pool <- pending.txs,
             log  <- [h \in 1..latest |-> blocks[h].txs],
             held <- pending.finalized /\ pending.height = latest

\* The blockchain implements the transaction pool: batches are sealed whole and
\* in the order of submission, a sealed batch is never changed, and nothing is
\* sealed again after a commit that failed behind the store.
ImplementsTxPool == Pool!Spec

=============================================================================

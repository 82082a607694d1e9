------------------------------ MODULE Queries ------------------------------
(***************************************************************************)
(* What clients read from the emulator: the query methods of Blockchain    *)
(* (emulator/blockchain.go), the lookups of the in-memory store behind     *)
(* them (storage/memstore/memstore.go) and the two adapters in front of    *)
(* them (adapters/access.go, adapters/sdk.go), over the states of module   *)
(* Blockchain.                                                             *)
(*                                                                         *)
(* Two indexes of scheduled transactions are state of their own: they are  *)
(* written after the block is stored, entry by entry, so that a commit can *)
(* fail between them.  So are the errors in the results of the system      *)
(* transactions, which module Blockchain leaves out.  All other maps of    *)
(* the store are written with the block and are read off from it.          *)
(*                                                                         *)
(* A collection is identified by its transactions, of which its identifier *)
(* is the hash.  A query that finds nothing returns the empty set, any other the set of  *)
(* its answer.  A callback also stands for the transaction that executes   *)
(* it; the account that a transaction creates is named by the transaction. *)
(***************************************************************************)
EXTENDS Blockchain

\* Identifiers are hashes: the transactions of clients are told apart from those
\* of the system.
ASSUME NamesAssumption == Txs \cap (Callbacks \cup {Process, Chunk, Bootstrap}) = {}

VARIABLES
    scheduledTransactionIndex,      \* callback -> identifier of its block
    scheduledTransactionBlockIndex, \* its transaction -> the same
    failedSystemTransactions        \* <<height, transaction>>: the results with an error

indexes == <<scheduledTransactionIndex, scheduledTransactionBlockIndex, failedSystemTransactions>>

-----------------------------------------------------------------------------
(* Writing the indexes                                                     *)

Indexed(index, S, b) == [c \in Callbacks |-> IF c \in S THEN BlockID(b) ELSE index[c]]

\* The two loops of commitBlock, of which the first wrote the callbacks in S1
\* and the second those in S2.
WriteIndexes(b, S1, S2) ==
    /\ scheduledTransactionIndex' = Indexed(scheduledTransactionIndex, S1, b)
    /\ scheduledTransactionBlockIndex' = Indexed(scheduledTransactionBlockIndex, S2, b)

\* Mutant: the second index is not written.
IndexBlockFirstOnly(all, b, complete) ==
    \E S1 \in SUBSET all : (complete => S1 = all) /\ WriteIndexes(b, S1, {})

\* After block b with the callbacks in all is stored.  A commit that fails there
\* has written a part of the first index, or all of it and a part of the second.
IndexBlock(all, b, complete) ==
    \E S1 \in SUBSET all : \E S2 \in SUBSET all :
        /\ S2 # {} => S1 = all
        /\ complete => S1 = all /\ S2 = all
        /\ WriteIndexes(b, S1, S2)

\* The system transactions of block b that can have failed with an error of their
\* own, which goes into the result: a callback, or the process transaction, which
\* then has found no callback due.  An error of the system chunk ends the commit.
SystemFailures(b) ==
    {F \in SUBSET (Range(b.sys) \ {Chunk}) :
        /\ F # {} => "reverts" \in Faults
        /\ Process \in F => Range(b.sys) \cap Callbacks = {}}

\* The results of the system transactions of block b are stored with the block.
StoreSystemResults(b) ==
    \E F \in SystemFailures(b) :
        failedSystemTransactions' = failedSystemTransactions \cup ({b.height} \X F)

\* A step that stores a block stores the results and indexes it.
Index ==
    IF latest' # latest
    THEN /\ StoreSystemResults(blocks'[latest'])
         /\ IndexBlock(Range(blocks'[latest'].sys) \cap Callbacks, blocks'[latest'],
                       pending'.height = latest' + 1)
    ELSE UNCHANGED indexes

QueriesNext == Next /\ Index

QueriesInit ==
    /\ Init
    /\ scheduledTransactionIndex = [c \in Callbacks |-> ZeroID]
    /\ scheduledTransactionBlockIndex = [c \in Callbacks |-> ZeroID]
    /\ failedSystemTransactions = {}

QueriesSpec == QueriesInit /\ [][QueriesNext]_<<vars, indexes>>

-----------------------------------------------------------------------------
(* Lookups of the store                                                    *)

BlockByID(id) == {blocks[g] : g \in {h \in DOMAIN blocks : BlockID(blocks[h]) = id}}
BlockByHeight(h) == {blocks[g] : g \in {h} \cap DOMAIN blocks}

\* The in-memory store has an empty ledger for a height it does not know.
LedgerByHeight(h) == IF h \in DOMAIN blocks THEN blocks[h].ledger ELSE EmptyLedger

\* A block with transactions has one collection of them, an empty one has none.
FullCollectionByID(id) == {c \in {b.txs : b \in Range(blocks)} : c # <<>> /\ c = id}

\* The genesis block has no record of system transactions.
SystemTransactionsForBlockID(id) == {b.sys : b \in {x \in BlockByID(id) : x.sys # <<>>}}

\* The events of one emitter: an event stands for its emitter, so that they are as
\* many copies of it as there are places where it occurs.
EventsOf(s, e) == [i \in 1..Cardinality({j \in DOMAIN s : s[j] = e}) |-> e]

\* A height without a block has none.
EventsByHeight(h, e) == IF h \in DOMAIN blocks THEN EventsOf(blocks[h].events, e) ELSE <<>>

SealedResult(x, b, code) ==
    [status |-> "sealed", tx |-> x, block |-> BlockID(b), height |-> b.height, code |-> code]

TransactionResultByID(x) ==
    {SealedResult(x, blocks[h], blocks[h].results[x]) :
        h \in {g \in DOMAIN blocks : x \in Txs /\ blocks[g].results[x] # "none"}}

\* The error code of a system transaction.
SystemCode(b, x) == IF <<b.height, x>> \in failedSystemTransactions THEN "reverted" ELSE "ok"

\* Mutant: the result of a system transaction is kept under its own identifier
\* only, so that the last block that has it wins.
SystemResultOfAnyBlock(id, x) ==
    {SealedResult(x, b, SystemCode(b, x)) :
        b \in {y \in Range(blocks) : /\ x \in Range(y.sys)
                                     /\ \A z \in Range(blocks) : x \in Range(z.sys) => z.height <= y.height}}

\* The composite key of block and transaction: the process transaction and the
\* system chunk have the same identifier in every block.
SystemTransactionResultByID(id, x) ==
    {SealedResult(x, b, SystemCode(b, x)) : b \in {y \in BlockByID(id) : x \in Range(y.sys)}}

-----------------------------------------------------------------------------
(* Queries of the blockchain                                               *)

\* GetLatestBlock; the other lookups of blocks and collections are those of the
\* store.
GetLatestBlock == BlockByHeight(latest)

Pending == [status |-> "pending"]
Unknown == [status |-> "unknown"]
OrUnknown(found) == IF found = {} THEN Unknown ELSE CHOOSE r \in found : TRUE

\* getTransaction: the pending block, then storage, then the static system
\* transactions.
GetTransaction(x) ==
    {y \in {x} : \/ ContainsTransaction(pending, y)
                 \/ \E h \in DOMAIN blocks : y \in Range(blocks[h].txs) \/ y \in Range(blocks[h].sys)
                 \/ y \in {Process, Chunk}}

getSystemTransactionResult(id, x) == OrUnknown(SystemTransactionResultByID(id, x))

\* getTransactionResult: the pending block, then the results by transaction,
\* then the index of scheduled transactions.
GetTransactionResult(x) ==
    IF ContainsTransaction(pending, x) THEN Pending
    ELSE IF x \in Callbacks /\ scheduledTransactionBlockIndex[x] # ZeroID
         THEN getSystemTransactionResult(scheduledTransactionBlockIndex[x], x)
         ELSE OrUnknown(TransactionResultByID(x))

\* The transactions of the collections that the block names, of which an empty block
\* has none, and then those of the system.
GetTransactionsByBlockID(id) ==
    {b.txs \o sys : b \in {y \in BlockByID(id) : \A x \in Range(y.txs) : GetTransaction(x) # {}},
                    sys \in SystemTransactionsForBlockID(id)}

GetTransactionResultsByBlockID(id) ==
    {[i \in 1..Len(b.txs) |-> GetTransactionResult(b.txs[i])]
     \o [i \in 1..Len(sys) |-> getSystemTransactionResult(id, sys[i])] :
        b \in BlockByID(id), sys \in SystemTransactionsForBlockID(id)}

GetSystemTransactionResult(x, id) ==
    {getSystemTransactionResult(id, x) :
        sys \in {s \in SystemTransactionsForBlockID(id) : x \in Range(s)}}

\* The same query with the zero identifier for the transaction: the last system
\* transaction of the block.
GetLastSystemTransactionResult(id) ==
    {getSystemTransactionResult(id, sys[Len(sys)]) : sys \in SystemTransactionsForBlockID(id)}

\* GetScheduledTransaction and GetScheduledTransactionResult: from the global
\* index to the block, and from its record to the transaction.
GetScheduledTransactionResult(c) ==
    LET id == scheduledTransactionIndex[c]
    IN  {getSystemTransactionResult(id, c) :
            sys \in {s \in SystemTransactionsForBlockID(id) : c \in Range(s)}}

\* What the ledger of a height knows of the account that t creates.
GetRegisterValues(t, h) == t \in LedgerByHeight(h).applied
GetAccountAtBlockHeight(t, h) == GetRegisterValues(t, h)
GetAccount(t) == \E b \in GetLatestBlock : GetAccountAtBlockHeight(t, b.height)

\* Whether a script on the state of a block sees the work of t.  A script on an
\* unknown block is an error.
executeScriptAtBlockID(t, id) == {GetRegisterValues(t, b.height) : b \in BlockByID(id)}
ExecuteScriptAtBlockHeight(t, h) ==
    UNION {executeScriptAtBlockID(t, BlockID(b)) : b \in BlockByHeight(h)}
ExecuteScript(t) == UNION {executeScriptAtBlockID(t, BlockID(b)) : b \in GetLatestBlock}

\* The events of the listed blocks up to the first identifier without a block.
GetEventsForBlockIDs(e, ids) ==
    LET known(i) == \A j \in 1..i : BlockByID(ids[j]) # {}
    IN  [i \in {j \in DOMAIN ids : known(j)} |->
            [block |-> ids[i],
             events |-> EventsByHeight((CHOOSE b \in BlockByID(ids[i]) : TRUE).height, e)]]

\* Mutant: the end of the range is left out.
HeightRangeWithoutEnd(e, from, to) ==
    [h \in {g \in from..to : g < to /\ from..g \subseteq DOMAIN blocks} |-> EventsByHeight(h, e)]

\* The events of the blocks in the range up to the first height without a block.
GetEventsForHeightRange(e, from, to) ==
    [h \in {g \in from..to : from..g \subseteq DOMAIN blocks} |-> EventsByHeight(h, e)]

-----------------------------------------------------------------------------
(* The access adapter                                                      *)

\* convertError: a query that found nothing is answered with a code.
Answer(found, code) ==
    IF found = {} THEN [code |-> code] ELSE [code |-> "ok", value |-> CHOOSE x \in found : TRUE]

Ok(value) == [code |-> "ok", value |-> value]

\* A block is always reported as sealed.
SealedBlock(b) == [block |-> BlockID(b), parent |-> b.parent, status |-> "sealed"]
AdapterGetBlockByID(id) == Answer({SealedBlock(b) : b \in BlockByID(id)}, "not found")
AdapterGetBlockByHeight(h) == Answer({SealedBlock(b) : b \in BlockByHeight(h)}, "not found")
AdapterGetLatestBlock == Answer({SealedBlock(b) : b \in GetLatestBlock}, "internal")

AdapterGetFullCollectionByID(id) == Answer(FullCollectionByID(id), "not found")
AdapterGetTransaction(x) == Answer(GetTransaction(x), "not found")

\* With a block identifier, the system transactions of that block come first.
AdapterGetTransactionResult(x, id) ==
    LET system == GetSystemTransactionResult(x, id)
    IN  IF id # ZeroID /\ system # {} THEN CHOOSE r \in system : TRUE ELSE GetTransactionResult(x)

\* An account that does not exist at the height has a code of its own.  At the
\* latest block the converted error is converted again, and its kind is lost.
AdapterGetAccountAtLatestBlock(t) == Answer({x \in {t} : GetAccount(x)}, "internal")
AdapterGetAccountAtBlockHeight(t, h) ==
    Answer({x \in {t} : GetAccountAtBlockHeight(x, h)}, "not found")

\* The balance of an account is read with the account.
AdapterGetAccountBalanceAtBlockHeight(t, h) == AdapterGetAccountAtBlockHeight(t, h)

\* A script on an unknown block is the fault of the caller.
AdapterExecuteScriptAtLatestBlock(t) == Answer(ExecuteScript(t), "invalid argument")
AdapterExecuteScriptAtBlockHeight(t, h) ==
    Answer(ExecuteScriptAtBlockHeight(t, h), "invalid argument")
AdapterExecuteScriptAtBlockID(t, id) == Answer(executeScriptAtBlockID(t, id), "invalid argument")

AdapterGetEventsForHeightRange(e, from, to) == Ok(GetEventsForHeightRange(e, from, to))

AdapterGetSystemTransactionResult(x, id) == Answer(GetSystemTransactionResult(x, id), "not found")
AdapterGetScheduledTransactionResult(c) == Answer(GetScheduledTransactionResult(c), "not found")

\* The error for an unknown block is wrapped, so that its kind is not recognised.
AdapterGetTransactionsByBlockID(id) == Answer(GetTransactionsByBlockID(id), "internal")
AdapterGetTransactionResultsByBlockID(id) ==
    Answer(GetTransactionResultsByBlockID(id), "internal")

AdapterGetTransactionResultByIndex(id, i) ==
    Answer({results[i + 1] : results \in {r \in GetTransactionResultsByBlockID(id) : Len(r) > i}},
           "not found")

-----------------------------------------------------------------------------
(* The SDK adapter                                                         *)

\* An error of the blockchain is passed on as it is.
Passed(found) == Answer(found, "error")

SDKGetBlockHeaderByID(id) == Passed({SealedBlock(b) : b \in BlockByID(id)})
SDKGetBlockByID(id) == Answer({SealedBlock(b) : b \in BlockByID(id)}, "internal")
SDKGetBlockByHeight(h) == Answer({SealedBlock(b) : b \in BlockByHeight(h)}, "internal")
SDKGetLatestBlock == Answer({SealedBlock(b) : b \in GetLatestBlock}, "internal")
SDKGetBlockHeaderByHeight(h) == SDKGetBlockByHeight(h)
SDKGetLatestBlockHeader == SDKGetLatestBlock
SDKGetCollectionByID(id) == Passed(FullCollectionByID(id))
SDKGetTransaction(x) == Passed(GetTransaction(x))

\* FlowTransactionResultToSDK: the message of a failure becomes an error of the
\* result, without its code.
SDKResult(r) ==
    IF r.status = "sealed" /\ r.code # "ok" THEN [r EXCEPT !.code = "error"] ELSE r

SDKGetTransactionResult(x) == SDKResult(GetTransactionResult(x))

SDKGetAccountAtLatestBlock(t) == Passed({x \in {t} : GetAccount(x)})
SDKGetAccountAtBlockHeight(t, h) == Passed({x \in {t} : GetAccountAtBlockHeight(x, h)})

\* A script on the latest block, or on one with a given identifier, is a lookup of
\* the height of the block and a script at that height.
SDKExecuteScriptAtBlockHeight(t, h) == Passed(ExecuteScriptAtBlockHeight(t, h))
SDKExecuteScriptAtLatestBlock(t) ==
    Passed(UNION {ExecuteScriptAtBlockHeight(t, b.height) : b \in GetLatestBlock})
SDKExecuteScriptAtBlockID(t, id) ==
    Passed(UNION {ExecuteScriptAtBlockHeight(t, b.height) : b \in BlockByID(id)})

SDKGetTransactionsByBlockID(id) == Passed(GetTransactionsByBlockID(id))
SDKGetTransactionResultsByBlockID(id) ==
    Passed({[i \in DOMAIN rs |-> SDKResult(rs[i])] : rs \in GetTransactionResultsByBlockID(id)})

SDKGetEventsForBlockIDs(e, ids) == Ok(GetEventsForBlockIDs(e, ids))
SDKGetEventsForHeightRange(e, from, to) == Ok(GetEventsForHeightRange(e, from, to))

-----------------------------------------------------------------------------
(* Properties                                                              *)

\* A commit failed behind the store and its block is still the pending block.
Held(b) == pending.finalized /\ pending.height = b.height

\* Every block is found by height and by identifier and names the block below.
\* Asking for its results, all of them or one by transaction and block,
\* gives the result of every transaction of this block in the order of execution,
\* user transactions first, and never a result of another block, although the
\* system transactions have the same identifiers in every block and fail in one and
\* not in another.  Only while a commit that failed behind the store is held do user
\* transactions of its block read as pending.  An empty block has no collection.
\* (The query without a transaction answers with the last system transaction where
\* the comments on it speak of the first; this asks for one of them.)
BlockResultsComplete ==
    \A h \in DOMAIN blocks \ {0} :
        LET b == blocks[h]
            id == BlockID(b)
            all == b.txs \o b.sys
            expected == [i \in 1..Len(all) |->
                           IF i > Len(b.txs) THEN SealedResult(all[i], b, SystemCode(b, all[i]))
                           ELSE IF Held(b) THEN Pending
                           ELSE SealedResult(all[i], b, b.results[all[i]])]
        IN  /\ AdapterGetBlockByHeight(h) = Ok(SealedBlock(b))
            /\ AdapterGetBlockByID(b.parent) = AdapterGetBlockByHeight(h - 1)
            /\ AdapterGetFullCollectionByID(b.txs) =
                  (IF b.txs = <<>> THEN [code |-> "not found"] ELSE Ok(b.txs))
            /\ AdapterGetTransactionsByBlockID(id) = Ok(all)
            /\ AdapterGetTransactionResultsByBlockID(id) = Ok(expected)
            /\ \E i \in (Len(b.txs) + 1)..Len(all) : GetLastSystemTransactionResult(id) = {expected[i]}
            /\ \A i \in 1..Len(all) :
                  /\ AdapterGetTransaction(all[i]) = Ok(all[i])
                  /\ AdapterGetTransactionResult(all[i], id) = expected[i]
            /\ h = latest => AdapterGetLatestBlock = AdapterGetBlockByID(id)

\* A client that is told a transaction succeeded in a block finds its effect in
\* the accounts and scripts of that block and of the latest block and not in the
\* block before, and finds no effect of a transaction that is reverted, pending
\* or unknown.  (Which code a missing account has is part of the answer: the one
\* query that converts its error twice reports it as internal.)
ResultsMatchState ==
    \A t \in Txs :
        LET r == GetTransactionResult(t)
            seen == IF r.status = "sealed" /\ r.code = "ok" THEN Ok(t) ELSE [code |-> "not found"]
        IN  /\ r.status = "sealed" =>
                  /\ AdapterGetAccountAtBlockHeight(t, r.height) = seen
                  /\ AdapterGetAccountBalanceAtBlockHeight(t, r.height) = seen
                  /\ AdapterExecuteScriptAtBlockID(t, r.block) = Ok(r.code = "ok")
                  /\ AdapterExecuteScriptAtBlockHeight(t, r.height - 1) = Ok(FALSE)
                  /\ SDKGetAccountAtBlockHeight(t, r.height).code = (IF r.code = "ok" THEN "ok" ELSE "error")
                  /\ SDKExecuteScriptAtBlockID(t, r.block) = Ok(r.code = "ok")
                  /\ SDKExecuteScriptAtBlockHeight(t, r.height - 1) = Ok(FALSE)
            /\ (\A h \in DOMAIN blocks : ~Held(blocks[h])) =>
                  /\ AdapterGetAccountAtLatestBlock(t) =
                        (IF seen.code = "ok" THEN seen ELSE [code |-> "internal"])
                  /\ AdapterExecuteScriptAtLatestBlock(t) = Ok(seen.code = "ok")
                  /\ SDKExecuteScriptAtLatestBlock(t) = Ok(seen.code = "ok")
                  /\ SDKGetAccountAtLatestBlock(t).code = "ok" <=> seen.code = "ok"

\* A client that follows the events over any range of heights sees the event of
\* a transaction or callback once if its result names a block in the range, under
\* that block, and otherwise not at all.  (Without a fault that repeats a part of
\* a commit.)
EventsMatchResults ==
    \A x \in Txs \cup Callbacks :
        LET r == GetTransactionResult(x)
            ids == [i \in 1..(latest + 1) |-> BlockID(blocks[i - 1])]
            byID == SDKGetEventsForBlockIDs(x, ids).value
            expected(h) == IF r.status = "sealed" /\ r.height = h THEN <<x>> ELSE <<>>
        IN  /\ \A i \in DOMAIN ids : byID[i] = [block |-> ids[i], events |-> expected(i - 1)]
            /\ \A from \in 0..latest, to \in 0..(latest + 1) :
                  LET found == AdapterGetEventsForHeightRange(x, from, to).value
                  IN  /\ DOMAIN found = (from..to) \cap (0..latest)
                      /\ \A h \in DOMAIN found : found[h] = expected(h)
                      /\ SDKGetEventsForHeightRange(x, from, to) = Ok(found)

\* What both adapters answer for one block, its transactions and their results.
AnswersAgree(b) ==
    LET id == BlockID(b)
        h == b.height
        all == b.txs \o b.sys
        code(x) == IF x \in Txs THEN b.results[x] ELSE SystemCode(b, x)
        byBlock == SDKGetTransactionResultsByBlockID(id).value
    IN  /\ SDKGetBlockByHeight(h) = AdapterGetBlockByID(id)
        /\ SDKGetBlockByID(id) = SDKGetBlockHeaderByHeight(h)
        /\ SDKGetBlockHeaderByID(b.parent) = AdapterGetBlockByHeight(h - 1)
        /\ h = latest => SDKGetLatestBlock = SDKGetBlockByID(id) /\ SDKGetLatestBlockHeader = SDKGetLatestBlock
        /\ SDKGetCollectionByID(b.txs) = (IF b.txs = <<>> THEN [code |-> "error"] ELSE Ok(b.txs))
        /\ SDKGetTransactionsByBlockID(id) = Ok(all)
        /\ \A i \in 1..Len(all) :
              LET result == SealedResult(all[i], b, code(all[i]))
              IN  /\ AdapterGetTransactionResultByIndex(id, i - 1) = Ok(result)
                  /\ byBlock[i] = SDKResult(result)
                  /\ IF all[i] \in Txs
                     THEN /\ SDKGetTransaction(all[i]) = Ok(all[i])
                          /\ SDKGetTransactionResult(all[i]) = SDKResult(result)
                     ELSE AdapterGetSystemTransactionResult(all[i], id) = Ok(result)
        /\ AdapterGetTransactionResultByIndex(id, Len(all)).code = "not found"

\* All ways to the same thing agree.  Those to a callback that was executed (its
\* scheduled identifier, its transaction, its transaction and block) lead to the same
\* sealed result, and those to a block and its results (by position, by transaction,
\* through either adapter) to what the chain holds.
\* (Without failures behind the store, which leave an index incomplete.)
LookupsAgree ==
    \A h \in DOMAIN blocks \ {0} :
        LET b == blocks[h]
        IN  /\ AnswersAgree(b)
            /\ \A c \in Range(b.sys) \cap Callbacks :
                  LET result == SealedResult(c, b, SystemCode(b, c))
                  IN  /\ AdapterGetScheduledTransactionResult(c) = Ok(result)
                      /\ GetTransactionResult(c) = result
                      /\ AdapterGetTransactionResult(c, BlockID(b)) = result

=============================================================================

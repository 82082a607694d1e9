# Flow Emulator in TLA+

A verification project for the Flow Emulator: TLA+ modules of the parts that keep state, TLC
configurations that check them on small instances, and TLAPS proofs of what matters most.
`PROJECT.json` maps every definition to the source lines it models and lists the runs, the
mutants that show each property can fail, the findings, the hazards and the theorems.

## 1. The system

The emulator is one process that stands in for a Flow network. Clients (gRPC, REST, an admin
HTTP API, or a Go program that embeds the package) submit transactions, ask for blocks to be
produced, read the chain, and roll it back or load a snapshot of it.

| component | state | operations | properties that make it correct |
|---|---|---|---|
| Blockchain and pending block (`emulator/blockchain.go`, `pendingBlock.go`) | pending block (transactions, execution index, results, events, ledger state), configuration, entropy provider; one `RWMutex` | add, send, execute, execute next, commit, execute and commit, reset, restart; reload after rollback or snapshot | the chain is linked and append-only; a transaction is sealed once, whole, with its result; the ledger is what the sealed transactions did |
| Scheduled transactions (`scheduled_transactions.go`, part of `commitBlock`) | in the ledger: callbacks and their state; in storage: two indexes | process and execute transactions of each commit | an executed callback ran once and its result is found |
| Blocks ticker (`blockTicker.go`, `server/server.go`) | a timer channel, a done channel, goroutines | tick, execute, commit, stop | accepted transactions are sealed once and eventually; shutdown ends |
| Default store with SQLite or Redis (`storage/store.go`, `storage/sqlite`, `storage/redis`) | eleven tables: rows (key, version, height, value), or in Redis sorted sets by version; the open file; `CurrentHeight` in memory | commit as single statements, rollback, create and load snapshot, open | blocks are whole; the latest height names a block; reads at a height see that chain only |
| Fork store (`storage/remote`) and gRPC retry (`utils/grpc.go`) | fork height and overlay in the database, cache on disk (shared by processes) or in memory; attempts of a call | choose or find the fork height, store it, read through overlay, cache and network, commit, rollback | local writes win, all else is the network at the fork height; a database keeps its fork; there is no gap between the network's blocks and local ones; reads end |
| In-memory store (`storage/memstore`) | maps | commit, lookups | as the SQLite store, without restart |
| Server start and shutdown, contract deployment (`server/server.go`, `emulator/contracts.go`) | configuration, the group of routines | deploy contracts, create and fund accounts, commit a reference block, start, stop | what is announced exists; shutdown ends |
| Admin API (`server/utils`) | none | new block, rollback, snapshots, each a sequence of blockchain calls | a response describes a state that the request left or a later one; a snapshot is created once |
| Access adapter (`adapters/access.go`) | none | queries with the error code of their answer; block and status subscriptions | all ways to a result lead to the same one; a reported status is true |
| SDK adapter (`adapters/sdk.go`) | none | queries with the kind of their error; account creation as a sequence of calls | as the access adapter; an address is given to one client only |
| Streaming (`server/access/streamBackend.go`) | a broadcaster and one cursor per subscription | subscribe, next | every block once, in order and with its own data |
| Debugger (`server/debugger`) | listener, connections, one session and one send queue per connection | start, stop, accept, 17 kinds of protocol requests and all others, which are ignored | stopping ends; a request of a known kind is answered; a client that leaves does no harm |
| Liveness checks (`server/utils`) | check-in times | | |
| Servers, configuration, codecs, reports | | I/O and formatting | |

**How they interact.** All of `Blockchain`'s pending-block operations hold `Blockchain.mu`, so each
is one atomic step of the models. Three kinds of calls do not: rollback, snapshots and the reload
that ends them; enabling and disabling AutoMine; and a few unsafe reads. The store is called
inside the lock and is synchronous, but it is not transactional: one `CommitBlock` is a dozen SQL
statements. The ticker, the admin API and the SDK adapter call several locked operations in a row
with other clients in between. Storage outlives the process; the pending block, the entropy provider and
`CurrentHeight` do not.

**What is hard here.** Calls that fail half way and leave the pending block in a state its author did
not have in mind (a fatal transaction error, a failed system chunk, a commit that fails behind the
store); state kept in memory that the database does not know (`CurrentHeight`, the entropy
provider); a crash between two statements; rows that outlive a rollback; a cache without versions;
two goroutines on one channel; a queue that is closed while somebody may still send. `PROJECT.json` lists these as hazards, each at its line.

## 2. Modules

| module | models | kind |
|---|---|---|
| `TxPool` | what clients are promised: a pool and a log of sealed batches | abstract specification |
| `Blockchain` | `Blockchain`, `pendingBlock`, `commitBlock` with scheduled transactions and the system chunk, the in-memory store | component |
| `BlockchainProofs`, `TxPoolProofs` | theorems about `Blockchain`; `Blockchain` implements `TxPool` | proofs |
| `Queries` | `Blockchain` with the scheduled transaction indexes, the lookups of the in-memory store, the queries of `Blockchain` and of both adapters | component, extends `Blockchain` |
| `Streaming` | subscriptions to blocks, execution data and events, and transaction statuses, while the chain grows | composition, liveness, extends `Queries` |
| `QueriesProofs` | theorems about `Queries` and `Streaming` | proofs |
| `SnapshotReload` | `Blockchain` composed with the unlocked reload of `CreateSnapshot` | composition |
| `BlocksTicker` | both ticker goroutines, the channels and the server's shutdown, over a reduced blockchain | component, liveness |
| `Requests` | requests of the SDK adapter and the admin API that are sequences of calls, and the server's start, with the ticker or with automatic mining | composition, extends `BlocksTicker` |
| `BlocksTickerProofs`, `RequestsProofs` | theorems about both | proofs |
| `SqliteStore` | the default store over SQLite and over Redis: tables, rows, queries and statements; commit, rollback, snapshots and the requests for them, kill, restart | component |
| `SqliteStoreProofs` | theorems about `SqliteStore` | proofs |
| `ForkStore` | start, overlay, cache, remote reads with retries, commits and rollbacks of the fork store | component, liveness |
| `ForkStoreProofs` | theorems about `ForkStore` | proofs |
| `Debugger` | the debug server, its connections, requests and send queues, and their end | component, liveness |
| `DebuggerProofs` | theorems about `Debugger` | proofs |
| `MC*` | instances for TLC | |

### Blockchain

`pending` is `Blockchain.pendingBlock` (`index`, `results`, `events`, `ledger`, and `finalized` for a
ledger state whose `Finalize` was called: flow-go's execution state then answers every read and
merge with an error). `blocks` and `latest` are the store. One action per exported operation.
An operation that can return early has one disjunct per place: `Faults` says where the virtual
machine or the database may fail: in `vm.Run` ("vm") or `Merge` ("merge") of a user transaction,
in the scheduled transactions, in the system chunk, in `storage.CommitBlock` ("store"), and after
it ("index"); "reverts" is a system or scheduled transaction that runs and ends with an error of its own,
which the commit records and does not fail by. Rejected calls change nothing and are not enabled, or are stuttering steps.

Abstractions: a ledger is the set of user transactions applied to it and the state of each callback;
an event stands for its emitter (`Bootstrap` for the set-up of the ledger, whose events are stored with the genesis block);
a block identifier is the tuple of height, view and transactions. The history variable `starts` holds the heights on which
a process was started: the block after such a height is the only one that may have no random source.
Which callbacks the process transaction finds due depends on timestamps, so every list of
scheduled callbacks is possible, also one with a callback that the same block scheduled: the model
allows more than the code. Views grow by 1 to `MaxViewIncrease`, as the code draws them at random;
only the run `snapshot_while_mining` lets them grow by more than 1, the proofs are for every increase.

### Queries

`QueriesSpec` is `Blockchain` with the two index maps that `commitBlock` writes entry by entry behind
`storage.CommitBlock`, and with the system transactions whose stored result has an error (`failedSystemTransactions`); `Index` says what a step adds to them, also when the commit fails between two
entries. Queries change nothing: each is an operator, named after the method. A query holds the read lock,
so it sees one state; `GetRegisterValues` holds none and reads one height of the store only.
Operators that begin with `Adapter` are the methods of the access adapter: they pair the value with the
status code that `convertError` chooses. It looks at the outermost type of an error, so that a not-found
error that was wrapped on the way is answered as Internal; the operators keep this. `GetAccountAtLatestBlock`
converts its error twice (`access.go:265-268`) and so answers Internal for an account that is not there, where the same query at a
height answers NotFound. A block without transactions has no collection (`pendingBlock.go:115-118`): asking for one is NotFound.
Operators that begin with `SDK` are those of the SDK adapter, with the kind of error the caller can tell apart;
the properties compare both adapters with the chain. `GetSystemTransaction` with the zero identifier answers with the last system transaction of the block, as
its code does (`blockchain.go:2020-2028`); the comments at `blockchain.go:1965` and `2007` say the first.

### Streaming

A subscription is a record: its kind, the next height, what was delivered, the notifier's token, and the
partial response its streamer is building. A streamer (flow-go code, modelled from its use) waits for a
token, then reads height by height until a block is missing. The handlers in `src/` read the block, the
result of each transaction, the events of EVM transactions and the events of EVM blocks in separate calls, each with its own
read lock: each is a step, with all operations of the blockchain in between. A block with user transactions
has a chunk, which carries the events of its results and of the EVM block; any other block, the genesis block with the events
of the bootstrap among them, gets a chunk with the events of both types (`DataResponse`). `Publish` puts a token into every
registered notifier that holds none, after a commit that reached its end. `StopAll` is a restart.

*Fairness.* Weak fairness of each streamer: its goroutine is scheduled while it can run. Clients owe
nothing; a client that does not receive is one whose subscription is closed (`Cancel`).

### SnapshotReload

`CreateSnapshot` calls `ReloadBlockchain`, which reads the latest block and later replaces the
pending block, without the lock: two steps, with all operations of `Blockchain` in between.

### BlocksTicker

The server adds the one ticker object to its group twice, so two goroutines run `Start` on the same
channels and `Stop` is called twice. The group (graceland, a library) is external: on shutdown it
calls `Stop` of each of its routines, one after the other. The two calls that a tick makes are two
steps. History variables `accepted` and `executions` record what clients were told and what ran.

*Fairness.* The timer fires (weak fairness of `Tick`), the Go scheduler runs goroutines that can run
(weak fairness of the calls, of `Stop`, and of some goroutine taking the tick), and a `select` with
two ready cases picks one at random, so that a goroutine that finds the token again and again takes
it (strong fairness of `TakeDone`). Clients and the operator owe nothing.

### Requests

A client's request is a sequence of steps, one per call that takes the lock: `CreateAccount` reads the service
key's number, builds and sends a transaction, executes and commits, and searches the results for its own;
`ExecuteScriptAtLatestBlock` asks for the latest block and then runs at its height; `/emulator/newBlock`
commits and then asks for the latest block. Before it serves anybody, `NewEmulatorServer` deploys contracts
and creates and funds accounts, each with a transaction of the service account (`DeployContract`,
`CreateStartupAccount`, `FundStartupAccount`). A server without a block time has no ticker and mines on every
transaction sent (`autoMine`). A transaction is known by its content, the number of the service key and its
reference block, so that two clients who ask for the same at the same time build the same transaction; the
second is then refused as a duplicate. Empty blocks are not counted; a height is the number of transactions sealed up to it.
Fairness is that of `BlocksTicker`; a client may stop in the middle of its request.

### SqliteStore

A row is (key, version, height, value) with the unique constraint of `createTables.sql`; `Upsert` and
`Get` are the two SQL statements. `Get` returns the set of values the query may return: it orders by
version only, so rows of the same key and version at different heights are not ordered. On Redis a versioned
key is a sorted set with the version as score and the value as member: writing a value that is in
the set moves it (`ZADD`), and there is neither rollback nor snapshot. A call is a list of statements, executed
one per step; `Stop` may come between any two, and `torn` records in which call it came, and a rollback to a height without a block;
`MaxTorn` bounds how many kinds of call are cut short. `Reload` is `configureLedger`: continue on the latest block,
or bootstrap. Bootstrapping over existing registers may fail. A block carries at most one item, a user or
a scheduled transaction. The index from a scheduled transaction to its block is not rolled back, and its query takes one row
without an order (`LIMIT 1`): one that ran again after a rollback may be looked up under the removed block, and is then not
found. `ScheduledResultsFound` says that this is all: no row leads to a result of a run that was rolled back, and one that ran once is found. `creating` holds the requests of `SnapshotCreate` that found a name free and have not
created it yet. `BlocksAreWhole` says that a torn call is the only way to a block of which a part is missing,
`CommitIsAtomic` that not even this is one.

### ForkStore

A start (`StartFirst`, `StartAgain`) chooses the fork height: the one in the database if there is one, else the
one given, else the latest block of the network less a buffer, subtracted in an unsigned type of `Width`
heights. The first time it stores the fork height and the latest height in two writes. Only then it opens a cache
(`OpenCache`): on disk when a height was given, which also removes old files, and otherwise, or when the disk fails, in memory.
A process that is killed between the two writes leaves a database on which the next start bootstraps a genesis block
(`Bootstrap`). Then the server commits a reference block. A read that misses overlay and cache waits for the network, whose
calls are repeated up to `MaxAttempts` times. Scripts and transactions read under the blockchain's lock (`Read`), and commits wait
for them; `GetRegisterValues` reads without it, and neither it nor rollbacks nor the other processes that share the cache wait for
anybody. Such a read can be overtaken by a rollback and a commit that writes its register; it then returns the network's value. The network grows. The history variables are `forks`, the fork heights
that were stored in a database, and `mixed`, the caches into which a value from below the fork was written.

*Fairness.* Every call of the node returns, with a value or an error: weak fairness of each `Reply`. (The code
gives its calls no deadline; a node that never answers blocks the reader and every commit behind it.)

### Debugger

`Debugger.Start`, `Stop` (its four effects are four steps, because Start and the accept loop run meanwhile), the
accept loop (an error of `Accept` before `quit` is closed is fatal, whatever its cause), `handleConnection` of each client, one goroutine per request, the goroutine that writes the
queue, and the two goroutines of `run`. `Blockchain.debugger` is never assigned: `emulator.New` sets it to nil
(`blockchain.go:91`) and `StartDebugger` returns it. Hence no program ever stops, and every request that calls a
method of the debugger ends the process by a nil dereference; the requests that need a stop answer "invalid
request". A launch whose program is not a string panics; a request of a kind that the switch does not know returns without
a reply ("ignored"). `launched` is looked at (`HandlerRuns`) and set (`HandlerSetsLaunched`) in two steps, so that two
requests may both run the program. The fields of a session are not locked; their accesses are taken to happen one after the other.
The kind of a request is chosen when its goroutine runs. `process` says what ended the process.

*Fairness.* Weak fairness of the start and accept loop, of `Stop` once it has begun, of each connection and of each request: goroutines that can
run do. A message is taken from the queue, so a client is assumed to read what it is sent; one that does not blocks the writer, as the
code sets no deadline. Nothing is assumed of scripts, of the goroutines that watch for stops, of clients otherwise, and of the operator.

## 3. Runs

Passing runs (TLC explores the whole state space of the instance):

| run | checks | shows |
|---|---|---|
| `blockchain_faults` | `TypeOK`, `ChainLinked`, `SealedAtMostOnce`, `SealedHasResult`, `LedgerIsHistory`, `ChainIsAppendOnly`, `SealedIsFinal`, `ImplementsTxPool`, `BlockResultsComplete`, `ResultsMatchState` | all operations with all faults that can end a call early, two transactions, one callback, two blocks: whatever fails where, the chain stays linked and append-only, a transaction is sealed once with its result, the ledger is the history, the pool specification is implemented, and queries by transaction and by block give complete results that agree with the state scripts and accounts read |
| `blockchain_scheduled` | `EventsOncePerExecution`, `CallbacksAccountedFor`, `RandomSourceIsFresh`, `LookupsAgree`, `EventsMatchResults` | two callbacks, three blocks, restarts, system transactions with errors, faults except those between the scheduled transactions and the store and behind it (see below): every execution leaves its events once, every block but the first of a process draws its randomness from its parent, and event queries, the three ways to a callback and the answers of both adapters agree |
| `streaming` | `DeliveredIsTheChain`, `EveryBlockIsDelivered`, `StatusSubscriptionEnds` | one subscription of any kind, opened at any time, two transactions, one callback, two blocks, a store that may fail: what is delivered is the chain without gap or repetition, with the events that belong to each block and those of the genesis block, nothing committed is left undelivered, and a status subscription for a sealed transaction ends |
| `requests` | `EachOnceInOrder`, `AddressIsOwn`, `NotFoundIsSealed`, `ClientsSeeTheirOwn`, `AcceptedIsSealed`, `ShutdownCompletes` | a start with one contract and one account, then two clients that create the same account, one that mines, senders, two ticker goroutines and the shutdown in several casts, or automatic mining: accepted transactions are executed and sealed once, in order and eventually; an address goes to one client; a result that is not found belongs to a sealed transaction; a client never sees a chain without its own block; shutdown ends |
| `sqlite_store` | `TypeOK`, `BlocksAreWhole`, `HeadIsLatest`, `LedgerReadsTheChain`, `ResultsMatchTheChain`, `ScheduledResultsFound`, `LatestIsStored`, `SnapshotsAreCreatedOnce` | SQLite and Redis, three blocks, rollbacks to every height, one snapshot that two overlapping requests create, a kill between any two statements: the latest height names a block on which the pending block is built, and if no call was cut short the chain is whole, and registers and results are of that chain only, also where an index row of a removed block is met |
| `fork_reads` | `ReadsAreConsistent`, `LocalBlocksFollowTheFork`, `ForkIsPinned`, `ReadsEnd` | two processes that may share a cache, a network that grows from block 0 to 2, starts with and without a fork height, killed at any point, a disk cache that may fail to open, rollbacks below the fork, two attempts per call, reads with and without the lock: reads at the fork or behind it return local writes or the fork's value, a database keeps its fork, local blocks join the network's without a gap, and reads end |
| `debugger` | `StopIsNotFatal`, `OrderlyEndIsHarmless`, `RequestsAreAnswered`, `StopEndsServer` | two connections with three connections and requests together, started and stopped at any moment: Stop is never taken for a failure, a client that closes its connection in an orderly way does no harm, a request of a known kind is answered and a launched and configured program is run unless the process has ended, and Stop ends the server unless it missed a connection whose client stays |

Runs that find a disagreement between the code and what its comments or README say (each is a
finding in `PROJECT.json` with the quotation):

| run | violated | because |
|---|---|---|
| `snapshot_while_mining` | `ChainIsAppendOnly` | the unlocked reload puts back a pending block for a height that was committed meanwhile |
| `commit_not_atomic` | `CommitIsAtomic` | a crash inside `CommitBlock` leaves a part of the latest block |
| `snapshot_base_state` | `SnapshotsKeepTheirState` | a loaded snapshot is the live database |
| `status_of_pending` | `ReportedSealedIsSealed` | a status subscription takes the answer for a pending or unknown transaction for a sealed execution |
| `fork_history` | `BlocksBehindForkAreConsistent` | a read below the fork fills the cache that later blocks read |

Deviations that the models have and that no run is spent on:

- *Blockchain.* The first block of a process draws its randomness from the zero identifier. Callbacks that ran before
  a failing system chunk are sealed by the next commit without results or index. A commit that fails behind the
  store has stored a block that subscribers are not told of before the next one.
- *Stores.* `CurrentHeight` is not updated by `LoadSnapshot`, so that a rollback right after it is judged by the old
  chain. The two index tables of scheduled transactions are not rolled back, so that a callback that ran again
  may be looked up under a removed block and not found. A kill between the deletion of rows and
  the new latest height of a rollback leaves a latest height without a block; the next start bootstraps a second
  genesis block. On Redis a register that gets an old value again loses its value at the earlier height.
- *Fork.* A first start that is cut short between its two writes is continued by a genesis block at height 0
  on the network's registers. A fork at height 0 counts as none, and the next start forks again. A rollback to a height
  of the remote chain is accepted. `BlockByID` with the identifier of a network block looks for a local block of its
  height first and returns that one (`remote/store.go:391-407`; blocks are heights here).
- *Requests.* With automatic mining `CreateAccount` of the SDK adapter always fails to find its result, because the
  first of its calls has sealed the transaction; the account exists (`NotFoundIsSealed`). It also fails, and the
  account exists, when the commit behind it is refused. `sanitizeConfig` sets the chain before `NewEmulatorServer` tests
  whether it is unset, so that the detection of the remote chain there is not reached.
- *Queries.* A missing account is NotFound at a height and Internal at the latest block. The comments on the default system
  transaction say the first one, the code takes the last.
- *Debugger.* README.md:357-361 of the repository documents the pragma `#debugger()`; the code looks for `debug`, and
  a transaction with it calls the nil debugger. A connection that breaks closes its queue without waiting for handlers,
  although the comment at `debugsession.go:60-66` says that sends are waited for; a handler that sends then ends the
  process. The goroutines of `run` are never waited for. Requests of unknown kinds are not answered. Two requests can run a program twice. A connection accepted around Stop, or lost when two append
  themselves to the unlocked slice, is never closed by Stop.

The passing runs leave these cases out by their constants (`Faults`), or their properties except them by a
history variable (`torn`, `forks`, `mixed`) and say so in their comments; all others are included.

**Bounds.** `MaxHeight`, `MaxEvents`, `MaxBlocks`, `MaxTorn`, `MaxCreates`, `MaxAttempts`, `MaxWork`, `MaxViewIncrease`, `Casts`, `Tips`,
`ReadHeights`, `QueriedHeights`, `RollbackHeights`, `DiskFailures`, `Readers` and the sets of model values. Two transactions suffice for order, duplicates and a
block executed half way; two blocks for a pending block on a block of its own making after every failure;
three where a callback is scheduled, run and looked up in different blocks. `MaxEvents` only stops the repetition of failing commits, each of which
may add events. Errors of system transactions ("reverts") are in `blockchain_scheduled`, where `LookupsAgree` compares them with the answers; in
`blockchain_faults` they would multiply the states beyond what is feasible, and `BlockResultsComplete` has them by its theorem. That run takes states that differ only in
`starts` for one (`WithoutStarts`), which none of its properties reads. The store needs three blocks: two, a rollback, and one again at a height that was freed; two requests
for one snapshot overlap in every way that more would. One subscription suffices: subscriptions meet only through the chain, which they do not change, and
through the broadcaster, which treats each alone. `Casts` names the clients, senders and goroutines that take part
together; two creators with a sender and a goroutine, a creator and a miner
with a sender and both goroutines, and senders and both goroutines with the shutdown. In `fork_reads` the network shows the tips 0 and 2 with a buffer of 1 and
heights of a type with 8 values: the subtraction wraps at the first and gives a block at the second. One process rolls back to
height 1, below its fork at 2, has its disk fail and is asked for register values without the lock at height 3, where its local writes are; locked reads
cover the heights below, at and behind the fork. A
debug session needs two requests for launch and configuration to overlap, and a second connection for the unlocked slice; `MaxWork` = 3 is one connection
with two requests, or two connections of which one sends a request.

## 4. Proofs

`BlockchainProofs` proves, for all sets of transactions and callbacks, all schedules, all sets of
faults and all bounds, from `ConstantsAssumption` (the types of the constants) and `IdentifiersAssumption` (the
scheduler contract numbers its callbacks, so that two transactions never create the same one):

- `TypeCorrect`: `Spec => []TypeOK`;
- `ChainIsLinked`: `Spec => []ChainLinked`;
- `StoredBlocksStay`: `Spec => ChainIsAppendOnly`;
- `AtMostOnce`: `Spec => []SealedAtMostOnce`;
- `SealedWithResult`: `Spec => []SealedHasResult`;
- `LedgerFollowsHistory`: `Spec => []LedgerIsHistory`;
- `SealedStatusIsFinal`: `Spec => SealedIsFinal`;
- `EventsAreOrdered`: `Spec => []EventsOncePerExecution`, and `CallbacksRunOnce`: `Spec => []CallbacksAccountedFor`,
  for `Faults` without a failing scheduled transaction or system chunk (`SystemNeverFails`);
- `RandomSourceFollowsTheChain`: `Spec => []RandomSourceIsFresh`, for `Faults` without a failure behind the store: every block draws
  its randomness from its parent, and only the first block after a start has no source.

The hypotheses of the last three are those of the run `blockchain_scheduled`; section 3 lists what happens without them.

*Argument.* `StepShape` reduces every step to one of three shapes: the pending block is kept (with more
executed, one transaction added, or finalized), renewed on the latest block, or stored and then
renewed or finalized. The shapes follow from lemmas that say what each helper (`Executed`,
`AfterCallbacks`, ...) keeps. The inductive invariant `ChainInv` is `TypeOK /\ ChainLinked`; the part
of `ChainLinked` that carries the induction is that a pending block is one above the latest height, or
is finalized at it: a commit that failed behind the store has finalized its ledger state, so that it
can never be stored again, and this is why the stored block is not overwritten. `PoolInv` adds that the
transactions of the pending block are pairwise different, and that none of a block that can still be
committed is in storage.

`LedgerInv` is what makes results and ledger agree: what the ledger of the pending block has applied is that of the block below
and the successful transactions of the pending block, results belong to executed transactions (those below the index) only, and every
transaction below the index has a result unless one was lost to a fatal error. In that case the number of results is smaller
than the number of transactions for as long as the block lives, because the transactions are pairwise different
(`PoolInv`), and `CommitBlock`, which compares the two numbers, refuses it: this is why each transaction of a stored block has a result.
`OrderInv` (events are those of the executed prefix), `CallbackInv` (a callback that a ledger knows was created
by a transaction applied to it, and one that ran stays executed in all later ledgers) and `EntropyInv` (the provider
holds the latest block's identifier, or none if and only if a process was started on that block) carry the last three theorems.

`TxPoolProofs` proves `BlockchainImplementsTxPool`: `Spec => ImplementsTxPool`, under the same
assumption. The pool is the pending block's transactions, the log the transactions of the stored blocks
above genesis, and the pool is held back exactly when the pending block is finalized at the latest height.
A kept block is `Accept` or a stutter, because a finalized block stays finalized and `ChainInv` leaves it
no other height; a renewed one is `Drop`; a stored one is `Seal` of what `Acceptable` let in.

`QueriesProofs` proves what clients read, for all sets of transactions, callbacks and subscriptions and all bounds, with
`NamesAssumption` in addition: the identifier of a client's transaction is none of the system's (they are hashes).

- `BlockResultsAreComplete`: `QueriesSpec => []BlockResultsComplete`, with the errors of system transactions and without a collection for
  an empty block;
- `ResultsMatchTheState`: `QueriesSpec => []ResultsMatchState`, both for all `Faults`;
- `AllLookupsAgree`: `QueriesSpec => []LookupsAgree`, `EventsFollowResults`: `QueriesSpec => []EventsMatchResults`, and
  `DeliveredFollowsTheChain`: `StreamingSpec => []DeliveredIsTheChain`, for `Faults` without a failing system transaction and without a
  failure behind the store (`NothingFails`), as in the runs `blockchain_scheduled` and `streaming`.

`ReadInv` adds two facts to the invariants of the blockchain. `PendingInv`: a transaction of the pending block is in storage only if the
pending block is the held block of a failed commit, and then all transactions of that block are still in it. The queries ask the
pending block first, so that this is what decides between "pending" and the stored result: the answers for a held block are all "pending", those
for every other block all sealed. `SystemInv`: every block above genesis ends with the system chunk, which it has once, as it has each callback, so that the
composite key of block and transaction finds one result. The lemmas `BlockFound`, `ResultFound`, `SystemFound` and `ResultsOfBlock` then say what each
lookup returns, and the adapters' answers follow. `SoundInv` adds the invariants behind `EventsAreOrdered`, `CallbacksRunOnce` and
`RandomSourceFollowsTheChain`; `IndexInv` says that both indexes lead from a callback to its block, which a later block does not overwrite because a callback runs in one block only.

`StreamInv` is about a streamer between its calls: the cursor is behind what was delivered, all of which is in the chain, and in the
middle of a response the block it has read is the one at the cursor and the results it has read are the first of that block.
A result read later is that of the same block because stored blocks stay and results are final, and the two types of events, read by height after the results in
two calls, are those of the same block for the same reason; for the genesis block they are those of the bootstrap (`EventsOncePerExecution`). The blockchain's steps keep `StreamInv` because the chain only grows (`BlocksStay`); `StreamingRefine` shows that to them subscriptions do not exist.

`BlocksTickerProofs` proves `TickerSealsInOrder`: `Spec => []EachOnceInOrder`, for any number of ticker
goroutines (`TickersAssumption` is not needed for safety). The property is inductive together with
the types of the chain's variables; the step that matters is that a commit which is not refused finds the
execution index at the end of the block, whoever executed it. Its lemmas are about any transactions, so that
`RequestsProofs` can use them.

`RequestsProofs` proves, for all sets of clients, contents, casts and start-up work:

- `RequestsSealInOrder`: `RequestsSpec => []EachOnceInOrder`. Each step of a request is a call of the blockchain
  or leaves the chain alone; `ExecuteAndCommit` executes what is left of the block and seals all of it;
- `NotFoundMeansSealed`: `RequestsSpec => []NotFoundIsSealed`. `KeptInv` says that the transaction a creator has
  sent is pending or sealed until it calls `ExecuteAndCommitBlock`, and sealed from then on: whoever took it out of the
  pending block sealed it, and the call fails only on a block that is executed already, which is an error and not "not found".
- `AddressesAreOwn`: `RequestsSpec => []AddressIsOwn`, and `OwnWritesAreRead`: `RequestsSpec => []ClientsSeeTheirOwn`.
  `OwnInv` says that a transaction accepted from a creator is in the pending block or sealed and belongs to no other
  creator and to none of the start-up's accounts: the second of two equal transactions is refused as a duplicate as long as the first
  is pending or sealed. An address means that the transaction
  is sealed and took effect; the height read by a script, and the block a miner is told of, are at or above the client's
  own. That an effect, once there, stays needs a fact about a recursive function, what the execution of a whole block does
  (`Effects`): `EffectsGrow` proves it by the least counterexample, with `WFMin` over the numbers, in place of an
  induction theorem.

`ForkStoreProofs` proves, from `ForkAssumption`, for any network, processes, readers and heights:

- `ReadsSeeTheFork`: `Spec => []ReadsAreConsistent`. `ForkInv` adds that a cache into which nothing from below the
  fork was written holds values of its fork height only, and that a read that waits for the network under the lock has no
  local row. The second is kept because a commit waits for the locked reads of its process and a rollback, which does
  not wait, only removes rows. A read without the lock has no such promise: it is answered with the expected value or with the network's,
  and what it puts into the cache is the network's in any case. Once a value from below the fork was written the first does not help: that is the run `fork_history`;
- `ForkStaysPinned`: `Spec => []ForkIsPinned`. `PinInv`: only a database without a fork height is written, and a
  process past its two writes has the stored height;
- `LocalBlocksAreOnTop`: `Spec => []LocalBlocksFollowTheFork`. `ChainInv` (of this module) adds that there are no blocks before there is a
  latest height, none of both before a fork height, and that a running process knows its latest height,
  which is why a rollback never leaves a block above it.

`SqliteStoreProofs` proves, from `StoreAssumption`, for both databases, all sets of transactions and of snapshot names, any number of
blocks, requests and kills:

- `StoreTypes`: `Spec => []TypeOK`;
- `HeadFollowsStore`: `Spec => []HeadIsLatest`;
- `LatestBlockIsStored`: `Spec => []LatestIsStored`;
- `SnapshotsCreatedOnce`: `Spec => SnapshotsAreCreatedOnce`;
- `StoredBlocksAreWhole`: `Spec => []BlocksAreWhole`;
- `RegistersFollowTheChain`: `Spec => []LedgerReadsTheChain`;
- `ResultsFollowTheChain`: `Spec => []ResultsMatchTheChain`;
- `ScheduledResultsAreFound`: `Spec => []ScheduledResultsFound`.

`StoreInv` describes the rows that name the latest block and those that hold blocks (one value per height, in every file), what the
statements of the running call still write of them, and, while no rollback was cut short or went above the chain,
that every file that names a latest height holds the block there. The order of the statements matters: a commit
writes its block first and then the latest height, so that the invariant holds between them.

The last four rest on `WholeInv`, which holds as long as no call was cut short (`torn = {}`). It says which rows a file has, in terms of a chain of blocks
(`IsChain`: one per height, linked, no identifier and no transaction twice): in the tables that a rollback cleans, exactly the
rows of the chain's blocks (`OnlyChain`, `AllOfChain`); in the two tables that it does not clean, also rows of removed blocks,
which never name a block of the chain with something else in it (`Leftovers`), because block identifiers are not used twice, and an index row names
a block in which the callback did run (`Indexed`). During a commit the
chain already has the new block, and what is missing of it is what the statements left will write; each statement adds
its row and replaces no row of another block, because the key of a row tells whose it is. The one key that all blocks
share is that of the register `Flag`, which SQLite keeps per height; Redis keeps the latest only
(`Forgotten`), and this is why `LedgerReadsTheChain` says less of Redis. `ChainIsRead` then turns the rows into what the queries return.

`DebuggerProofs` proves, for any sets of clients and requests and any bound, without an assumption:

- `StopNeverFatal`: `Spec => []StopIsNotFatal`. `StopInv`: the listener is closed under an accept loop only
  by Stop, which has closed `quit` before;
- `ClientLeavingIsHarmless`: `Spec => []OrderlyEndIsHarmless`. `QueueInv`: a closed queue belongs to a connection that
  broke, or to one that has returned and whose requests are all over (what `sendWg` waits for), so that none of them sends.

*Only model-checked:* liveness (`AcceptedIsSealed`, `ShutdownCompletes`,
`EveryBlockIsDelivered`, `StatusSubscriptionEnds`, `ReadsEnd`, `RequestsAreAnswered`, `StopEndsServer`), which is out of the prover's reach.
Every invariant and every action property of the passing runs is also a theorem.

## 5. Plan

Done: `Blockchain` with `TxPool` and their proofs, `Queries` with both adapters, `Streaming`, `SnapshotReload`,
`BlocksTicker`, `Requests`, `SqliteStore` with Redis and overlapping snapshot requests, `ForkStore` with its start,
and `Debugger`. Left:

1. Rollback in `Streaming`: a cursor above the chain. No document says what a subscription promises then.
2. Scripts that run concurrently under the read lock and write fields used by reports.

## 6. Not modelled

Cadence and the flow-go virtual machine (external: outcomes are free choices); what
a script computes; codecs, conversion between API types, error texts;
configuration, listeners, logging, reports, pragmas; the checkpoint store, which fills an SQLite store
once; liveness checks, which the program never starts on its own; the code of the debugger behind a stop (frames,
scopes, variables, evaluation), because no stop is delivered; the length of the pauses between retries, which
is time; the archive of contracts and other reads of the admin API. `PROJECT.json` has the list with reasons.

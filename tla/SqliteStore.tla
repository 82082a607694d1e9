---------------------------- MODULE SqliteStore ----------------------------
(***************************************************************************)
(* The default store (storage/store.go) over its two databases, SQLite     *)
(* (storage/sqlite/store.go) and Redis (storage/redis/store.go), and the   *)
(* operations of the blockchain that replace the chain under it: commit,   *)
(* rollback to a height, snapshots as the admin server creates and loads   *)
(* them (server/utils/emulator.go), and starting again on the same data.   *)
(* A database is its tables and a table is its rows, so that what a lookup *)
(* returns is computed by the code's query.  Each statement or command is  *)
(* a step of its own: the process can be killed between any two.           *)
(*                                                                         *)
(* Abstracted: a block carries at most one item, a user transaction or a   *)
(* scheduled one, and executing the item writes the register of that name; *)
(* every block toggles the register Flag; the other registers that         *)
(* bootstrapping writes are the one named Empty.  Block identifiers        *)
(* (hashes) are numbers that are never used twice.  One call changes the   *)
(* chain at a time; requests to create a snapshot overlap.                 *)
(***************************************************************************)
EXTENDS Integers, Sequences, FiniteSets

CONSTANTS
    Backends,       \* the databases the emulator may be started with
    Txs,            \* user transactions
    Callbacks,      \* scheduled transactions
    Empty,          \* the item of a block without one
    SnapshotNames,
    RollbackUsed,   \* whether clients call /emulator/rollback
    MaxTorn,        \* bound: no call is cut short once so many kinds of them were
    MaxBlocks,      \* bound: how many blocks are produced in all
    MaxCreates      \* bound: requests to create one snapshot at a time

Main == "main"      \* the database that New opens
Flag == "flag"      \* the register that every block writes
Files == {Main} \cup SnapshotNames
Items == Txs \cup Callbacks

ASSUME StoreAssumption ==
    /\ Empty \notin Items /\ Txs \cap Callbacks = {} /\ Main \notin SnapshotNames
    /\ Backends \subseteq {"sqlite", "redis"} /\ Flag \notin Items \cup {Empty}
    /\ RollbackUsed \in BOOLEAN
    /\ MaxTorn \in Nat /\ MaxBlocks \in Nat /\ MaxCreates \in Nat

Tables == {"global", "ledger", "blocks", "blockIndex", "events", "transactions",
           "collections", "transactionResults", "systemTransactions",
           "scheduledTransactionIndex", "scheduledTransactionBlockIndex"}

VARIABLES
    backend,        \* the database in use
    files,          \* the database files; one that was not created has no rows
    saved,          \* snapshot name -> what CreateSnapshot wrote under that name
    creating,       \* snapshot name -> requests that found the name free
    active,         \* Store.db: the file that is open
    currentHeight,  \* Store.CurrentHeight: in memory only
    phase,          \* what the process is doing
    todo,           \* the statements that the running call has yet to execute
    head,           \* the block that the pending block is built on
    produced,       \* number of block identifiers used so far
    torn            \* history: calls in the middle of which the process was killed,
                    \* and a rollback to a height where there is no block

vars == <<backend, files, saved, creating, active, currentHeight, phase, todo, head, produced, torn>>

db == files[active]

-----------------------------------------------------------------------------
(* Rows and statements                                                     *)

NoRows == [t \in Tables |-> {}]

Statement(table, key, version, value) ==
    [table |-> table, key |-> key, version |-> version, value |-> value]

\* SetBytesWithVersion: insert, or update on conflict; the row is stamped with
\* the current height, except in the global table.
Upsert(d, s, height) ==
    LET h == IF s.table = "global" THEN 0 ELSE height
        others == {r \in d[s.table] :
                     ~(r.key = s.key /\ r.version = s.version /\ r.height = h)}
        row == [key |-> s.key, version |-> s.version, height |-> h, value |-> s.value]
    IN  [d EXCEPT ![s.table] = others \cup {row}]

\* Mutant: the write of a value that the register had before is dropped.
AddOnly(d, s) ==
    IF s.table = "ledger" /\ \E r \in d[s.table] : r.key = s.key /\ r.value = s.value
    THEN d
    ELSE LET others == IF s.table = "ledger" THEN d[s.table]
                       ELSE {r \in d[s.table] : r.key # s.key}
             row == [key |-> s.key, version |-> s.version, height |-> 0, value |-> s.value]
         IN  [d EXCEPT ![s.table] = others \cup {row}]

\* Redis.  SET keeps one value per key.  ZADD, used for the registers, keeps a value
\* once per key, with the version of its last write as its score.
RedisSet(d, s) ==
    LET others == {r \in d[s.table] :
                     r.key # s.key \/ (s.table = "ledger" /\ r.value # s.value)}
        row == [key |-> s.key, version |-> s.version, height |-> 0, value |-> s.value]
    IN  [d EXCEPT ![s.table] = others \cup {row}]

Write(d, s, height) == IF backend = "redis" THEN RedisSet(d, s) ELSE Upsert(d, s, height)

\* GetBytesAtVersion: the values a query may return.  Rows of the same key and
\* version that differ in height are not ordered by the query.
Get(d, table, key, version) ==
    LET found == {r \in d[table] : r.key = key /\ r.version <= version}
    IN  {r.value : r \in {x \in found : \A y \in found : y.version <= x.version}}

Found(d, table, key) == Get(d, table, key, 0) # {}

LatestRows(d) == Get(d, "global", "latest", 0)
LatestBlockHeight(d) == CHOOSE h \in LatestRows(d) : TRUE
LatestBlocks(d) ==
    IF LatestRows(d) = {} THEN {} ELSE Get(d, "blocks", LatestBlockHeight(d), 0)

\* DELETE ... where height > h, for the tables that RollbackToBlockHeight names.
RolledBackTables == {"ledger", "blocks", "blockIndex", "events", "transactions",
                     "collections", "transactionResults"}

\* Mutant: the rows of the height itself go too.
DeleteFrom(d, h) ==
    [t \in Tables |-> IF t \in RolledBackTables THEN {r \in d[t] : r.height < h} ELSE d[t]]

\* Mutant: the results of the blocks removed stay.
DeleteButResults(d, h) ==
    [t \in Tables |-> IF t \in RolledBackTables \ {"transactionResults"}
                      THEN {r \in d[t] : r.height <= h} ELSE d[t]]

DeleteAbove(d, h) ==
    [t \in Tables |-> IF t \in RolledBackTables THEN {r \in d[t] : r.height <= h} ELSE d[t]]

-----------------------------------------------------------------------------
(* Committing a block                                                      *)

Genesis == [id |-> 0, height |-> 0, parent |-> -1, item |-> Empty]

\* Mutant: the latest height is written before the block.
StoreLatestFirst(d, b) ==
    <<Statement("global", "latest", 0, b.height), Statement("blocks", b.height, 0, b),
      Statement("blockIndex", b.id, 0, b.height)>>

\* StoreBlock; the latest height is read before the block is written.
StoreBlock(d, b) ==
    <<Statement("blocks", b.height, 0, b), Statement("blockIndex", b.id, 0, b.height)>>
    \o (IF LatestRows(d) = {} \/ b.height >= LatestBlockHeight(d)
        THEN <<Statement("global", "latest", 0, b.height)>> ELSE <<>>)

StoreItem(b) ==
    CASE b.item \in Txs ->
            <<Statement("collections", b.item, 0, b.id),
              Statement("transactions", b.item, 0, b.id),
              Statement("transactionResults", <<b.item>>, 0, b.id),
              Statement("ledger", b.item, b.height, b.id)>>
      [] b.item \in Callbacks ->
            <<Statement("transactions", b.item, 0, b.id),
              Statement("transactionResults", <<b.id, b.item>>, 0, b.id),
              Statement("ledger", b.item, b.height, b.id)>>
      [] b = Genesis -> <<Statement("ledger", Empty, 0, b.id)>>
      [] OTHER -> <<>>

FlagAt(height) == height % 2

\* DefaultStore.CommitBlock.  The genesis block has no system transactions.
CommitStatements(d, b) ==
    StoreBlock(d, b)
    \o (IF b = Genesis THEN <<>> ELSE <<Statement("systemTransactions", b.id, 0, b.item)>>)
    \o StoreItem(b)
    \o <<Statement("ledger", Flag, b.height, FlagAt(b.height)),
         Statement("events", b.height, 0, b.id)>>

\* Mutant: only the index by scheduled transaction ID is written.
IndexOneOnly(b) ==
    IF b.item \in Callbacks
    THEN <<Statement("scheduledTransactionIndex", b.item, 0, b.id)>> ELSE <<>>

\* What Blockchain.commitBlock indexes after storage.CommitBlock returned.
IndexStatements(b) ==
    IF b.item \in Callbacks
    THEN <<Statement("scheduledTransactionIndex", b.item, 0, b.id),
           Statement("scheduledTransactionBlockIndex", b.item, 0, b.id)>>
    ELSE <<>>

\* A transaction is refused when storage has it; the ledger knows the callbacks
\* that have run.
Executable(item) ==
    CASE item \in Txs -> ~Found(db, "transactions", item)
      [] item \in Callbacks -> Get(db, "ledger", item, head.height) = {}
      [] OTHER -> TRUE

Commit(item) ==
    /\ phase = "ready" /\ produced < MaxBlocks /\ Executable(item)
    /\ LET b == [id |-> produced + 1, height |-> head.height + 1, parent |-> head.id,
                 item |-> item]
       IN  /\ head' = b
           /\ currentHeight' = b.height
           /\ todo' = CommitStatements(db, b) \o IndexStatements(b)
    /\ produced' = produced + 1
    /\ phase' = "commit"
    /\ UNCHANGED <<backend, files, saved, creating, active, torn>>

\* The next statement of the running call.  A commit is over after its last
\* one; a rollback then reloads the blockchain.
Execute ==
    /\ todo # <<>>
    /\ files' = [files EXCEPT ![active] = Write(@, Head(todo), currentHeight)]
    /\ todo' = Tail(todo)
    /\ phase' = IF Len(todo) > 1 THEN phase
                ELSE IF phase = "rollback" THEN "reload" ELSE "ready"
    /\ UNCHANGED <<backend, saved, creating, active, currentHeight, head, produced, torn>>

-----------------------------------------------------------------------------
(* Loading the chain from the store, rollback and snapshots                *)

\* Bootstrapping over registers that exist already may fail.
BootstrapOutcomes(d) == IF d["ledger"] = {} THEN {TRUE} ELSE BOOLEAN

\* ReloadBlockchain: continue on the latest block, or bootstrap when there is
\* none.  When that fails the process does not come up, or, if it is running,
\* keeps its pending block.
Reload ==
    /\ phase \in {"start", "reload"}
    /\ \/ /\ LatestBlocks(db) # {}
          /\ head' \in LatestBlocks(db)
          /\ phase' = "ready"
          /\ UNCHANGED <<todo, currentHeight>>
       \/ /\ LatestBlocks(db) = {}
          /\ \E ok \in BootstrapOutcomes(db) :
                /\ head' = IF ok THEN Genesis ELSE head
                /\ currentHeight' = IF ok THEN 0 ELSE currentHeight
                /\ todo' = IF ok THEN CommitStatements(db, Genesis) ELSE <<>>
                /\ phase' = IF ok THEN "commit" ELSE IF phase = "start" THEN "down" ELSE "ready"
    /\ UNCHANGED <<backend, files, saved, creating, active, produced, torn>>

\* Mutant: the call is left before SetBlockHeight.
RollbackLeavingNoStatement(h) ==
    /\ RollbackUsed /\ backend = "sqlite" /\ phase = "ready" /\ currentHeight > h
    /\ files' = [files EXCEPT ![active] = DeleteAbove(@, h)]
    /\ phase' = "rollback"
    /\ UNCHANGED <<backend, saved, creating, active, currentHeight, todo, head, produced, torn>>

\* RollbackToBlockHeight: one SQL transaction, then SetBlockHeight.  The height is
\* compared with CurrentHeight, which LoadSnapshot leaves at the height of the chain
\* before: after it, a height above the chain may be accepted.  Redis has no rollback.
RollbackToBlockHeight(h) ==
    /\ RollbackUsed /\ backend = "sqlite" /\ phase = "ready" /\ currentHeight > h
    /\ files' = [files EXCEPT ![active] = DeleteAbove(@, h)]
    /\ currentHeight' = h
    /\ todo' = <<Statement("global", "latest", 0, h)>>
    /\ phase' = "rollback"
    /\ torn' = IF Found(db, "blocks", h) THEN torn ELSE torn \cup {"rollback"}
    /\ UNCHANGED <<backend, saved, creating, active, head, produced>>

NoRequests == [n \in SnapshotNames |-> 0]

\* SnapshotCreate asks for the names first, and refuses one that is taken.
SnapshotCreate(name) ==
    /\ backend = "sqlite" /\ phase = "ready" /\ files[name] = NoRows
    /\ creating[name] < MaxCreates
    /\ creating' = [creating EXCEPT ![name] = @ + 1]
    /\ UNCHANGED <<backend, files, saved, active, currentHeight, phase, todo, head, produced, torn>>

\* Mutant: an existing file is replaced.
CreateSnapshotOver(name) ==
    /\ phase = "ready" /\ creating[name] > 0
    /\ creating' = [creating EXCEPT ![name] = @ - 1]
    /\ files' = [files EXCEPT ![name] = db]
    /\ saved' = [saved EXCEPT ![name] = db]
    /\ phase' = "reload"
    /\ UNCHANGED <<backend, active, currentHeight, todo, head, produced, torn>>

\* VACUUM INTO: refused by SQLite when the file exists, as it does when another
\* request for the name was faster.
CreateSnapshot(name) ==
    /\ phase = "ready" /\ creating[name] > 0
    /\ creating' = [creating EXCEPT ![name] = @ - 1]
    /\ \/ /\ files[name] = NoRows
          /\ files' = [files EXCEPT ![name] = db]
          /\ saved' = [saved EXCEPT ![name] = db]
          /\ phase' = "reload"
       \/ /\ files[name] # NoRows
          /\ UNCHANGED <<files, saved, phase>>
    /\ UNCHANGED <<backend, active, currentHeight, todo, head, produced, torn>>

\* Mutant: the blockchain is not reloaded.
LoadKeepingPendingBlock(name) ==
    /\ phase = "ready" /\ files[name] # NoRows
    /\ active' = name
    /\ UNCHANGED <<backend, files, saved, creating, currentHeight, phase, todo, head, produced, torn>>

\* The snapshot's file becomes the store's database.
LoadSnapshot(name) ==
    /\ phase = "ready" /\ files[name] # NoRows
    /\ active' = name
    /\ phase' = "reload"
    /\ UNCHANGED <<backend, files, saved, creating, currentHeight, todo, head, produced, torn>>

\* The process ends between two calls, or in the middle of one.
Stop ==
    /\ phase # "down"
    /\ todo = <<>> \/ Cardinality(torn) < MaxTorn
    /\ phase' = "down"
    /\ todo' = <<>>
    /\ torn' = torn \cup (IF todo = <<>> THEN {} ELSE {phase})
    /\ creating' = NoRequests
    /\ UNCHANGED <<backend, files, saved, active, currentHeight, head, produced>>

\* sqlite.New or redis.New opens the main database, then emulator.New loads the chain.
New ==
    /\ phase = "down"
    /\ active' = Main
    /\ currentHeight' = 0
    /\ phase' = "start"
    /\ UNCHANGED <<backend, files, saved, creating, todo, head, produced, torn>>

Init ==
    /\ backend \in Backends
    /\ files = [f \in Files |-> NoRows]
    /\ saved = [n \in SnapshotNames |-> NoRows]
    /\ creating = NoRequests
    /\ active = Main
    /\ currentHeight = 0
    /\ phase = "down"
    /\ todo = <<>>
    /\ head = Genesis
    /\ produced = 0
    /\ torn = {}

Next ==
    \/ \E item \in Items \cup {Empty} : Commit(item)
    \/ Execute
    \/ Reload
    \/ \E h \in 0..MaxBlocks : RollbackToBlockHeight(h)
    \/ \E name \in SnapshotNames :
         SnapshotCreate(name) \/ CreateSnapshot(name) \/ LoadSnapshot(name)
    \/ Stop
    \/ New

Spec == Init /\ [][Next]_vars

-----------------------------------------------------------------------------
(* Properties                                                              *)

Blocks == [id : Nat, height : Nat, parent : Int, item : Items \cup {Empty}]

\* Every variable has its type and statements are left only inside a call.
TypeOK ==
    /\ DOMAIN files = Files /\ \A f \in Files : DOMAIN files[f] = Tables
    /\ active \in Files /\ currentHeight \in Nat /\ produced \in 0..MaxBlocks
    /\ phase \in {"down", "start", "reload", "ready", "commit", "rollback"}
    /\ phase \in {"commit", "rollback"} <=> todo # <<>>
    /\ head \in Blocks /\ torn \subseteq {"commit", "rollback"}
    /\ creating \in [SnapshotNames -> 0..MaxCreates]

\* The block at height h, and the blocks that a reader finds up to height h.
StoredBlock(h) == CHOOSE b \in Get(db, "blocks", h, 0) : TRUE
ChainTo(h) == {StoredBlock(g) : g \in {k \in 0..h : Found(db, "blocks", k)}}

\* The rows of block b that every reader of the block relies on.
Whole(b) ==
    /\ Get(db, "blockIndex", b.id, 0) = {b.height}
    /\ Get(db, "events", b.height, 0) = {b.id}
    /\ b # Genesis => Get(db, "systemTransactions", b.id, 0) = {b.item}
    /\ b.item # Empty => /\ Get(db, "ledger", b.item, b.height) = {b.id}
                         /\ Found(db, "transactions", b.item)

\* Between calls each height up to the head holds exactly one block, on top of
\* the block below, with its index, events, transactions and registers: a block
\* is in the store as a whole or not at all.
CommitIsAtomic ==
    phase = "ready" =>
        \A h \in 0..head.height :
            /\ Cardinality(Get(db, "blocks", h, 0)) = 1
            /\ StoredBlock(h).height = h /\ Whole(StoredBlock(h))
            /\ h > 0 => StoredBlock(h).parent = StoredBlock(h - 1).id

\* The same for a store in which no call was cut short.
BlocksAreWhole == torn = {} => CommitIsAtomic

\* Between calls the pending block is built on the block that the store names as
\* the latest one: the next commit extends the chain that is persisted, also after
\* a commit that was cut short.
HeadIsLatest == phase = "ready" /\ "rollback" \notin torn => LatestBlocks(db) = {head}

\* The latest height names a stored block at every moment, so that a process that
\* was killed finds a block to continue on.  The exceptions are a rollback that has
\* deleted the rows and not yet set the latest height, and one above the chain.
LatestIsStored ==
    LatestRows(db) # {} /\ phase # "rollback" /\ "rollback" \notin torn => LatestBlocks(db) # {}

\* The heights at which registers can be read back.  A Redis sorted set forgets when
\* a value was written before: only the latest state is kept.
ReadableHeights == IF backend = "sqlite" THEN 0..head.height ELSE {head.height}

\* A register read at a height has the value that the chain wrote last up to that
\* height: nothing written by a block that was rolled back shows through, no read of
\* the past sees a later block, and a value that returns is read again.
LedgerReadsTheChain ==
    phase = "ready" /\ torn = {} =>
        \A h \in ReadableHeights :
            /\ Get(db, "ledger", Flag, h) = {FlagAt(h)}
            /\ \A item \in Items : Get(db, "ledger", item, h)
                                      = {b.id : b \in {c \in ChainTo(h) : c.item = item}}

\* A user transaction has a result exactly when it is in the chain, and the result
\* is the one of the block that holds it; one that was rolled back can be sent again.
ResultsMatchTheChain ==
    phase = "ready" /\ torn = {} =>
        \A t \in Txs :
            Get(db, "transactionResults", <<t>>, 0)
                = {b.id : b \in {c \in ChainTo(head.height) : c.item = t}}

\* getTransactionResult for a scheduled transaction of the chain goes from the index
\* to a block and to the result there.  The indexes are not rolled back, so that one
\* which ran again at another height has several rows, of which the query takes any:
\* one leads to its result and the others to none, never to that of a run that was
\* rolled back.  One that ran in a single block of this database is always found.
ScheduledResultsFound ==
    phase = "ready" /\ torn = {} =>
        \A b \in ChainTo(head.height) :
            b.item \in Callbacks =>
                LET ids == Get(db, "scheduledTransactionBlockIndex", b.item, 0)
                    runs == {r.key : r \in {x \in db["systemTransactions"] : x.value = b.item}}
                IN  /\ b.id \in ids /\ Found(db, "transactionResults", <<b.id, b.item>>)
                    /\ \A id \in ids \ {b.id} : ~Found(db, "transactionResults", <<id, b.item>>)
                    /\ runs = {b.id} => ids = {b.id}

\* What a snapshot holds changes only while it is the store's database: of two
\* requests that both found its name free, one creates it and the other changes nothing.
SnapshotsAreCreatedOnce ==
    [][\A n \in SnapshotNames :
         files[n] # NoRows /\ files'[n] # files[n] => active = n]_vars

\* A snapshot that is loaded has the state it was created with.
SnapshotsKeepTheirState ==
    [][\A n \in SnapshotNames : LoadSnapshot(n) => files[n] = saved[n]]_vars

=============================================================================

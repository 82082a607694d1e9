----------------------------- MODULE ForkStore -----------------------------
(***************************************************************************)
(* The store of a forked network (storage/remote/store.go), its start as   *)
(* the server does it, and the retries of its calls (utils/grpc.go).       *)
(* Blocks and registers that were written locally are in the overlay, the  *)
(* SQLite store of the emulator; all others come from the remote node,     *)
(* registers as of the fork height and through a cache.  The database of a *)
(* process outlives it; the cache is on disk, shared by the processes that *)
(* fork at the same block, when the user has named a fork height, and else *)
(* in memory.  A read that misses overlay and cache goes to the network,   *)
(* and everybody else runs meanwhile.                                      *)
(*                                                                         *)
(* The remote node is external: it has the blocks 0..tip, and Remote[r][h] *)
(* is its value of register r at height h.  A process whose start fails    *)
(* may be started again.  A rollback is one step here; module SqliteStore  *)
(* has its parts.                                                          *)
(***************************************************************************)
EXTENDS Integers, FiniteSets

CONSTANTS
    Processes,      \* emulator processes, each with a database of its own
    Readers,        \* bound: the reads that are under way at once
    Registers,
    Remote,
    ForkHeights,    \* process -> the fork heights it is given; 0 for the latest block
    BlockBuffer,    \* how far below the latest block a process then forks
    Width,          \* number of heights that the type of a height can hold
    MaxAttempts,    \* of one call of the node
    Tips,           \* bound: the latest blocks of the network that somebody sees
    MaxHeight,      \* bound: process -> its local height
    ReadHeights,    \* bound: process -> the heights of the reads of scripts and transactions
    DiskFailures,   \* bound: the processes for which the disk cache may fail to open
    RollbackHeights,\* bound: process -> the heights it is asked to roll back to
    QueriedHeights, \* bound: process -> the heights that GetRegisterValues is asked for
    None

ASSUME ForkAssumption ==
    /\ ForkHeights \in [Processes -> SUBSET Nat]
    /\ BlockBuffer \in Nat /\ MaxHeight \in [Processes -> Nat]
    /\ Width \in Nat \ {0}
    /\ Tips \subseteq Nat /\ 0 \in Tips
    /\ MaxAttempts \in Nat \ {0}
    /\ ReadHeights \in [Processes -> SUBSET Nat] /\ DiskFailures \subseteq Processes
    /\ RollbackHeights \in [Processes -> SUBSET Nat]
    /\ QueriedHeights \in [Processes -> SUBSET Nat]
    /\ DOMAIN Remote = Registers
    /\ \A r \in Registers : DOMAIN Remote[r] = UNION {0..t : t \in Tips}

VARIABLES
    tip,            \* latest block of the network
    forkRow,        \* process -> fork height in its database, 0 if there is none
    latest,         \* process -> latest height in its database, or NoRow
    blocks,         \* process -> heights of the blocks in its database
    overlay,        \* process -> rows of its ledger table
    phase,          \* process -> how far its start has come
    forkHeight,     \* process -> Store.forkHeight
    currentHeight,  \* process -> Store.CurrentHeight, in memory only
    cacheDir,       \* process -> whether Store.forkCacheDir is set
    file,           \* process -> the cache that it has open
    cache,          \* rows of all caches
    fetch,          \* reader -> the call of the node it waits for, or None
    answers,        \* the last read that was answered
    forks,          \* history: process -> fork heights stored in its database
    mixed           \* history: caches with a value from below the fork

database == <<forkRow, latest, blocks, overlay, forks>>
memory == <<phase, forkHeight, currentHeight, cacheDir, file>>
caches == <<cache, mixed>>
vars == <<tip, database, memory, caches, fetch, answers>>

NoRow == -1

-----------------------------------------------------------------------------
(* Starting                                                                *)

DiskFile(F) == [owner |-> None, fork |-> F]
MemoryFile(p, F) == [owner |-> p, fork |-> F]

\* Old caches are removed, whoever made them.  (One that a process has open it
\* keeps, although its name is gone.)
Removable == {w.file : w \in cache} \ {file[p] : p \in Processes}
Prune(old) ==
    /\ old \subseteq {f \in Removable : f.owner = None}
    /\ cache' = {w \in cache : w.file \notin old}
    /\ mixed' = mixed \ old

\* The fork height is known.  A directory for the cache is set only when a height
\* was given.
Starts(p, given, F, next) ==
    /\ forkHeight' = [forkHeight EXCEPT ![p] = F]
    /\ cacheDir' = [cacheDir EXCEPT ![p] = given > 0]
    /\ phase' = [phase EXCEPT ![p] = next]
    /\ answers' = {}
    /\ UNCHANGED <<tip, database, currentHeight, file, caches, fetch>>

\* The subtraction is that of an unsigned type.
StartHeight(given) == IF given > 0 THEN given ELSE (tip - BlockBuffer) % Width

\* Mutant: the header of the fork block is not asked for.
IsAnyHeight(h) == TRUE

\* GetBlockHeaderByHeight finds a block.
IsNetworkBlock(h) == h \in 0..tip

\* New on a database without a fork height, up to the two writes.
StartFirst(p, given) ==
    /\ phase[p] = "down" /\ forkRow[p] = 0
    /\ IsNetworkBlock(StartHeight(given))
    /\ Starts(p, given, StartHeight(given), "fork")

\* Mutant: the height that was given goes before the one that was stored.
StartAsGiven(p, given) ==
    /\ phase[p] = "down" /\ forkRow[p] > 0
    /\ IsNetworkBlock(StartHeight(given))
    /\ Starts(p, given, StartHeight(given), "fork")

\* New on a database with a fork height: that height, whatever is given.
StartAgain(p, given) ==
    /\ phase[p] = "down" /\ forkRow[p] > 0
    /\ IsNetworkBlock(forkRow[p])
    /\ Starts(p, given, forkRow[p], "cache")

StoreForkedBlockHeight(p) ==
    /\ phase[p] = "fork"
    /\ forkRow' = [forkRow EXCEPT ![p] = forkHeight[p]]
    /\ forks' = [forks EXCEPT ![p] = @ \cup {forkHeight[p]}]
    /\ phase' = [phase EXCEPT ![p] = "height"]
    /\ UNCHANGED <<tip, latest, blocks, overlay, forkHeight, currentHeight, cacheDir, file, caches, fetch, answers>>

SetBlockHeight(p) ==
    /\ phase[p] = "height"
    /\ latest' = [latest EXCEPT ![p] = forkHeight[p]]
    /\ currentHeight' = [currentHeight EXCEPT ![p] = forkHeight[p]]
    /\ phase' = [phase EXCEPT ![p] = "cache"]
    /\ UNCHANGED <<tip, forkRow, blocks, overlay, forks, forkHeight, cacheDir, file, caches, fetch, answers>>

\* The end of New: the cache of the block of the fork on disk, after old ones were
\* removed (initializeCacheStore), or one in memory: when no directory is set, and
\* when the disk fails.
OpenCache(p) ==
    /\ phase[p] = "cache"
    /\ phase' = [phase EXCEPT ![p] = "opened"]
    /\ \/ /\ cacheDir[p]
          /\ file' = [file EXCEPT ![p] = DiskFile(forkHeight[p])]
          /\ \E old \in SUBSET Removable : Prune(old)
       \/ /\ cacheDir[p] => p \in DiskFailures
          /\ file' = [file EXCEPT ![p] = MemoryFile(p, forkHeight[p])]
          /\ UNCHANGED caches
    /\ answers' = {}
    /\ UNCHANGED <<tip, database, forkHeight, currentHeight, cacheDir, fetch>>

Local(p, S, h) == {[reg |-> r, version |-> h, value |-> <<"local", p, h>>] : r \in S}

\* A block with height h that writes the registers in S.
Write(p, S, h) ==
    /\ overlay' = [overlay EXCEPT ![p] = {w \in @ : ~(w.reg \in S /\ w.version = h)} \cup Local(p, S, h)]
    /\ blocks' = [blocks EXCEPT ![p] = @ \cup {h}]
    /\ latest' = [latest EXCEPT ![p] = h]
    /\ currentHeight' = [currentHeight EXCEPT ![p] = h]
    /\ UNCHANGED <<forkRow, forks>>

Rows(p, r, h) == {w \in overlay[p] : w.reg = r /\ w.version <= h}
LocalValue(rows) == CHOOSE v \in {w.value : w \in rows} :
                      \E w \in rows : w.value = v /\ \A u \in rows : u.version <= w.version
Cached(p, r) == {c \in cache : c.file = file[p] /\ c.reg = r}

Row(p, r, v) == [file |-> file[p], reg |-> r, value |-> v]
Mixes(p, h) == IF h < forkHeight[p] THEN {file[p]} ELSE {}

\* A database with a fork height and without a latest height, from a start that was
\* cut short: a genesis block is bootstrapped at height 0 over the registers that
\* the network has there, or that fails.
Bootstrap(p, R, S, ok) ==
    /\ phase[p] = "opened" /\ latest[p] = NoRow
    /\ cache' = cache \cup {Row(p, r, Remote[r][0]) : r \in {q \in R : Cached(p, q) = {}}}
    /\ mixed' = mixed \cup (IF R = {} THEN {} ELSE Mixes(p, 0))
    /\ \/ ok /\ Write(p, S, 0) /\ UNCHANGED <<phase, forkHeight, cacheDir, file>>
       \/ ~ok /\ phase' = [phase EXCEPT ![p] = "failed"]
              /\ UNCHANGED <<database, forkHeight, currentHeight, cacheDir, file>>
    /\ answers' = {}
    /\ UNCHANGED <<tip, fetch>>

\* BlockByHeight, for a height that is not above the latest one.
HasBlock(p, h) == h \in blocks[p] \/ IsNetworkBlock(h)

\* The latest block is found, and the server commits a block on it, so that there
\* is a block to refer to.
CommitReferenceBlock(p, S) ==
    /\ phase[p] = "opened" /\ latest[p] # NoRow /\ HasBlock(p, latest[p])
    /\ latest[p] < MaxHeight[p]
    /\ Write(p, S, latest[p] + 1)
    /\ phase' = [phase EXCEPT ![p] = "running"]
    /\ answers' = {}
    /\ UNCHANGED <<tip, forkHeight, cacheDir, file, caches, fetch>>

\* The process ends, at any point of its start or later.
Stop(p) ==
    /\ phase[p] # "down"
    /\ phase' = [phase EXCEPT ![p] = "down"]
    /\ forkHeight' = [forkHeight EXCEPT ![p] = 0]
    /\ currentHeight' = [currentHeight EXCEPT ![p] = 0]
    /\ cacheDir' = [cacheDir EXCEPT ![p] = FALSE]
    /\ file' = [file EXCEPT ![p] = None]
    /\ cache' = {w \in cache : w.file.owner # p}
    /\ mixed' = {f \in mixed : f.owner # p}
    /\ fetch' = [g \in Readers |-> IF fetch[g] # None /\ fetch[g].process = p THEN None ELSE fetch[g]]
    /\ answers' = {}
    /\ UNCHANGED <<tip, database>>

-----------------------------------------------------------------------------
(* Reading registers                                                       *)

Lower(h, k) == IF h < k THEN h ELSE k

\* For blocks behind the fork the network is asked at the fork height.
FetchedValue(p, r, h) == Remote[r][Lower(h, forkHeight[p])]

Answer(p, r, h, locked, v) ==
    {[process |-> p, reg |-> r, height |-> h, locked |-> locked, value |-> v]}

Waits(p, r, h, locked, n) ==
    [process |-> p, reg |-> r, height |-> h, locked |-> locked, attempt |-> n]

FromOverlay(p, r, h, locked) ==
    /\ answers' = Answer(p, r, h, locked, LocalValue(Rows(p, r, h)))
    /\ UNCHANGED fetch

FromCache(p, r, h, locked) ==
    /\ answers' = UNION {Answer(p, r, h, locked, c.value) : c \in Cached(p, r)}
    /\ UNCHANGED fetch

FromNetwork(g, p, r, h, locked) ==
    /\ fetch' = [fetch EXCEPT ![g] = Waits(p, r, h, locked, 1)]
    /\ answers' = {}

\* Mutant: the cache is asked before the overlay.
LookupCacheFirst(g, p, r, h, locked) ==
    /\ fetch[g] = None /\ phase[p] = "running"
    /\ \/ Cached(p, r) # {} /\ FromCache(p, r, h, locked)
       \/ Cached(p, r) = {} /\ Rows(p, r, h) # {} /\ FromOverlay(p, r, h, locked)
       \/ Cached(p, r) = {} /\ Rows(p, r, h) = {} /\ FromNetwork(g, p, r, h, locked)
    /\ UNCHANGED <<tip, database, memory, caches>>

\* The read function of LedgerByHeight up to the call of the remote node: the
\* overlay first, then the cache, which knows no heights.
Lookup(g, p, r, h, locked) ==
    /\ fetch[g] = None /\ phase[p] = "running"
    /\ \/ Rows(p, r, h) # {} /\ FromOverlay(p, r, h, locked)
       \/ Rows(p, r, h) = {} /\ Cached(p, r) # {} /\ FromCache(p, r, h, locked)
       \/ Rows(p, r, h) = {} /\ Cached(p, r) = {} /\ FromNetwork(g, p, r, h, locked)
    /\ UNCHANGED <<tip, database, memory, caches>>

\* A script or a transaction reads under the blockchain's lock, at a block that is
\* there.  Readers share the lock: several reads of a process may wait for the
\* network.
Read(g, p, r, h) == h \in 0..latest[p] /\ Lookup(g, p, r, h, TRUE)

\* GetRegisterValues, which takes neither the lock nor a look at the latest height.
GetRegisterValues(g, p, r, h) == Lookup(g, p, r, h, FALSE)

Ends(g) == fetch' = [fetch EXCEPT ![g] = None]

\* The remote node has answered.  The value replaces what the cache holds;
\* when the cache cannot be written that is only logged.
Fetched(g, written) ==
    /\ fetch[g] # None
    /\ LET f == fetch[g]
           v == FetchedValue(f.process, f.reg, f.height)
       IN  /\ answers' = Answer(f.process, f.reg, f.height, f.locked, v)
           /\ cache' = IF written THEN (cache \ Cached(f.process, f.reg)) \cup {Row(f.process, f.reg, v)}
                       ELSE cache
           /\ mixed' = IF written THEN mixed \cup Mixes(f.process, f.height) ELSE mixed
    /\ Ends(g)
    /\ UNCHANGED <<tip, database, memory>>

\* Mutant: the attempts are counted again from the first.
RetryForever(g) ==
    /\ fetch[g] # None
    /\ fetch' = [fetch EXCEPT ![g].attempt = (@ % MaxAttempts) + 1]
    /\ answers' = {}
    /\ UNCHANGED <<tip, database, memory, caches>>

\* retryInterceptor: after an error that may pass the call is repeated.
Retry(g) ==
    /\ fetch[g] # None /\ fetch[g].attempt < MaxAttempts
    /\ fetch' = [fetch EXCEPT ![g] = Waits(@.process, @.reg, @.height, @.locked, @.attempt + 1)]
    /\ answers' = {}
    /\ UNCHANGED <<tip, database, memory, caches>>

\* The last attempt has failed, or any with an error that does not pass: the
\* reader gets the error, and nothing is cached.
Fail(g) ==
    /\ fetch[g] # None
    /\ Ends(g)
    /\ answers' = {}
    /\ UNCHANGED <<tip, database, memory, caches>>

-----------------------------------------------------------------------------
(* Blocks                                                                  *)

\* Blocks are committed under the blockchain's lock: no read of the same process that
\* holds the lock is waiting.
Commit(p, S) ==
    /\ phase[p] = "running" /\ latest[p] < MaxHeight[p]
    /\ \A g \in Readers : fetch[g] # None /\ fetch[g].locked => fetch[g].process # p
    /\ Write(p, S, latest[p] + 1)
    /\ answers' = {}
    /\ UNCHANGED <<tip, phase, forkHeight, cacheDir, file, caches, fetch>>

\* RollbackToBlockHeight, inherited from the SQLite store.  It does not take
\* the lock: a read may be waiting for the network.  It knows no fork: heights
\* of the remote chain are accepted too.
RollbackToBlockHeight(p, h) ==
    /\ phase[p] = "running" /\ currentHeight[p] > h
    /\ overlay' = [overlay EXCEPT ![p] = {w \in @ : w.version <= h}]
    /\ blocks' = [blocks EXCEPT ![p] = {b \in @ : b <= h}]
    /\ latest' = [latest EXCEPT ![p] = h]
    /\ currentHeight' = [currentHeight EXCEPT ![p] = h]
    /\ answers' = {}
    /\ UNCHANGED <<tip, forkRow, forks, phase, forkHeight, cacheDir, file, caches, fetch>>

\* The network goes on.
NetworkGrows ==
    /\ \E t \in Tips : t > tip /\ tip' = t
    /\ answers' = {}
    /\ UNCHANGED <<database, memory, caches, fetch>>

-----------------------------------------------------------------------------

Init ==
    /\ tip = 0
    /\ forkRow = [p \in Processes |-> 0]
    /\ latest = [p \in Processes |-> NoRow]
    /\ blocks = [p \in Processes |-> {}]
    /\ overlay = [p \in Processes |-> {}]
    /\ phase = [p \in Processes |-> "down"]
    /\ forkHeight = [p \in Processes |-> 0]
    /\ currentHeight = [p \in Processes |-> 0]
    /\ cacheDir = [p \in Processes |-> FALSE]
    /\ file = [p \in Processes |-> None]
    /\ cache = {}
    /\ fetch = [g \in Readers |-> None]
    /\ answers = {}
    /\ forks = [p \in Processes |-> {}]
    /\ mixed = {}

Start(p) ==
    \/ \E given \in ForkHeights[p] : StartFirst(p, given) \/ StartAgain(p, given)
    \/ StoreForkedBlockHeight(p) \/ SetBlockHeight(p) \/ OpenCache(p)
    \/ \E R, S \in SUBSET Registers, ok \in BOOLEAN : Bootstrap(p, R, S, ok)
    \/ \E S \in SUBSET Registers : CommitReferenceBlock(p, S)

Reply(g) == (\E written \in BOOLEAN : Fetched(g, written)) \/ Retry(g) \/ Fail(g)

Next ==
    \/ NetworkGrows
    \/ \E p \in Processes :
          \/ Start(p) \/ Stop(p)
          \/ \E S \in SUBSET Registers : Commit(p, S)
          \/ \E h \in RollbackHeights[p] : RollbackToBlockHeight(p, h)
          \/ \E g \in Readers, r \in Registers, h \in ReadHeights[p] : Read(g, p, r, h)
          \/ \E g \in Readers, r \in Registers, h \in QueriedHeights[p] : GetRegisterValues(g, p, r, h)
    \/ \E g \in Readers : Reply(g)

\* Every call of the node returns, with a value or with an error.
Fairness == \A g \in Readers : WF_vars(Reply(g))

Spec == Init /\ [][Next]_vars /\ Fairness

-----------------------------------------------------------------------------
(* Properties                                                              *)

\* The value of the forked network, fixed at the fork height for later blocks.
NetworkValue(a) == Remote[a.reg][Lower(a.height, forkHeight[a.process])]

\* What a read must return: the last local write up to the height, and else
\* that of the network.
Expected(a) ==
    IF Rows(a.process, a.reg, a.height) # {}
    THEN LocalValue(Rows(a.process, a.reg, a.height)) ELSE NetworkValue(a)

\* As long as no value from below the fork got into its cache, every read of a
\* process is answered with that value, whoever filled the cache before and with
\* which read, after local writes, rollbacks, restarts and removals of the cache,
\* at the fork too.  A read without the lock may be overtaken: the register is
\* written at its height while it waits for the network, and it returns the value of
\* the network, which was the right one when it began, and no other.
ReadsAreConsistent ==
    \A a \in answers :
        file[a.process] \notin mixed /\ a.height >= forkHeight[a.process] =>
            a.value = Expected(a) \/ (~a.locked /\ a.value = NetworkValue(a))

\* Blocks behind the fork always see the data of the fork height.
BlocksBehindForkAreConsistent ==
    \A a \in answers : a.locked /\ a.height > forkHeight[a.process] => a.value = Expected(a)

\* All blocks after the fork height were produced by the emulator: the local blocks
\* are the upper end of the chain, without a gap, and all below them are blocks
\* of the network up to the fork, also after a rollback that went below the fork
\* and after a start that was cut short.  (Not for a fork at height 0, which the
\* next start takes for none.)
LocalBlocksFollowTheFork ==
    \A p \in Processes : 0 \notin forks[p] /\ latest[p] # NoRow =>
        /\ \A h \in blocks[p] : h..latest[p] \subseteq blocks[p] /\ h <= latest[p]
        /\ \A h \in 0..latest[p] : h \in blocks[p] \/ (h <= tip /\ h <= forkRow[p])

\* A process keeps the fork of its database: whatever fork height it is given at a
\* later start and however far the network has come, it does not fork again.
\* (Not for a fork at height 0.)
ForkIsPinned ==
    \A p \in Processes : 0 \notin forks[p] /\ forks[p] # {} /\ phase[p] # "down" =>
        forks[p] = {forkHeight[p]}

\* A read that waits for the node is answered or fails, however often the node is
\* not available: nobody waits for ever for a read that holds the lock.
ReadsEnd == \A g \in Readers : fetch[g] # None ~> fetch[g] = None

=============================================================================

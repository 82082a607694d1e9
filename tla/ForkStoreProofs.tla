-------------------------- MODULE ForkStoreProofs ---------------------------
(***************************************************************************)
(* The fork store, for every number of processes and reads, every network  *)
(* and every bound: what reads return, that a database keeps its fork, and *)
(* that the local blocks are the upper end of the chain.                   *)
(***************************************************************************)
EXTENDS ForkStore, TLAPS

-----------------------------------------------------------------------------
(* Reads                                                                   *)

\* The phases of a start before the cache is opened.
Early == {"down", "fork", "height", "cache"}

\* The functions of processes, and the cache a process has open is that of its fork.
FilesMatch ==
    /\ DOMAIN overlay = Processes /\ DOMAIN phase = Processes
    /\ DOMAIN file = Processes /\ DOMAIN forkHeight = Processes
    /\ DOMAIN fetch = Readers
    /\ \A p \in Processes : /\ forkHeight[p] \in Nat
                            /\ phase[p] \notin Early => file[p].fork = forkHeight[p]

\* A cache that is not mixed holds nothing but the data of its fork height.
CacheIsOfTheFork ==
    \A c \in cache : c.file \notin mixed => c.value = Remote[c.reg][c.file.fork]

\* A read with the lock that waits for the network has no local row, and gets none
\* while it waits: a commit of its process waits for it, a rollback only removes rows.
WaitingMissed ==
    \A g \in Readers : fetch[g] # None =>
        /\ fetch[g].process \in Processes /\ fetch[g].height \in Nat
        /\ phase[fetch[g].process] = "running"
        /\ fetch[g].locked => Rows(fetch[g].process, fetch[g].reg, fetch[g].height) = {}

ForkInv == FilesMatch /\ CacheIsOfTheFork /\ WaitingMissed /\ ReadsAreConsistent

LEMMA AtTheFork ==
  ASSUME NEW h \in Nat, NEW k \in Nat, h >= k
  PROVE  Lower(h, k) = k
  BY DEF Lower

\* A process that was down has found out where it forks.
LEMMA StartsKeepsInv ==
  ASSUME ForkInv, NEW p \in Processes, NEW given, NEW F \in Nat, NEW next \in Early,
         phase[p] = "down", Starts(p, given, F, next)
  PROVE  ForkInv'
  <1>1. /\ forkHeight' = [forkHeight EXCEPT ![p] = F] /\ phase' = [phase EXCEPT ![p] = next]
        /\ UNCHANGED <<overlay, file, cache, mixed, fetch>> /\ answers' = {}
    BY DEF Starts, database, caches
  <1>2. FilesMatch'
    BY <1>1 DEF ForkInv, FilesMatch, Early
  <1>3. CacheIsOfTheFork'
    BY <1>1 DEF ForkInv, CacheIsOfTheFork
  <1>4. WaitingMissed'
    BY <1>1 DEF ForkInv, FilesMatch, WaitingMissed, Rows
  <1> QED BY <1>1, <1>2, <1>3, <1>4 DEF ForkInv, ReadsAreConsistent

\* It opens the cache of that fork; removed caches take their rows along.
LEMMA OpenCacheKeepsInv ==
  ASSUME ForkInv, NEW p \in Processes, OpenCache(p)
  PROVE  ForkInv'
  <1>1. /\ phase[p] = "cache" /\ phase' = [phase EXCEPT ![p] = "opened"]
        /\ UNCHANGED <<overlay, forkHeight, fetch>> /\ answers' = {}
    BY DEF OpenCache, database
  <1>2. \E f : f.fork = forkHeight[p] /\ file' = [file EXCEPT ![p] = f]
    BY DEF OpenCache, DiskFile, MemoryFile
  <1>3. \E old : cache' = {w \in cache : w.file \notin old} /\ mixed' = mixed \ old
    <2>1. CASE UNCHANGED caches
      <3>1. cache' = {w \in cache : w.file \notin {}} /\ mixed' = mixed \ {}
        BY <2>1 DEF caches
      <3> QED BY <3>1
    <2>2. CASE \E old \in SUBSET Removable : Prune(old)
      BY <2>2 DEF Prune
    <2> QED BY <2>1, <2>2 DEF OpenCache
  <1>4. FilesMatch'
    BY <1>1, <1>2 DEF ForkInv, FilesMatch
  <1>5. CacheIsOfTheFork'
    BY <1>3 DEF ForkInv, CacheIsOfTheFork
  <1>6. WaitingMissed'
    BY <1>1 DEF ForkInv, FilesMatch, WaitingMissed, Rows
  <1> QED BY <1>1, <1>4, <1>5, <1>6 DEF ForkInv, ReadsAreConsistent

\* A step of the start that leaves registers and caches alone.
LEMMA PhaseKeepsInv ==
  ASSUME ForkInv, NEW p \in Processes, NEW next \in Early, phase[p] # "running",
         phase' = [phase EXCEPT ![p] = next],
         UNCHANGED <<overlay, forkHeight, file, cache, mixed, fetch, answers>>
  PROVE  ForkInv'
  <1>1. FilesMatch'
    BY DEF ForkInv, FilesMatch
  <1>2. CacheIsOfTheFork'
    BY DEF ForkInv, CacheIsOfTheFork
  <1>3. WaitingMissed'
    BY DEF ForkInv, FilesMatch, WaitingMissed, Rows
  <1>4. ReadsAreConsistent'
    BY DEF ForkInv, ReadsAreConsistent, Expected, NetworkValue, Rows
  <1> QED BY <1>1, <1>2, <1>3, <1>4 DEF ForkInv

\* Bootstrapping reads at height 0, and marks the cache unless the fork is there.
LEMMA BootstrapKeepsInv ==
  ASSUME ForkInv, NEW p \in Processes, NEW R \in SUBSET Registers, NEW S \in SUBSET Registers,
         NEW ok \in BOOLEAN, Bootstrap(p, R, S, ok)
  PROVE  ForkInv'
  <1>1. /\ phase[p] = "opened" /\ DOMAIN overlay' = Processes
        /\ \A q \in Processes \ {p} : overlay'[q] = overlay[q] /\ phase'[q] = phase[q]
        /\ DOMAIN phase' = Processes /\ answers' = {}
        /\ UNCHANGED <<forkHeight, file, fetch>>
    BY DEF Bootstrap, Write, ForkInv, FilesMatch, database
  <1>2. FilesMatch'
    BY <1>1 DEF ForkInv, FilesMatch, Early
  <1>3. CacheIsOfTheFork'
    <2> SUFFICES ASSUME NEW c \in cache', c.file \notin mixed'
                 PROVE  c.value = Remote[c.reg][c.file.fork]
      BY DEF CacheIsOfTheFork
    <2>1. CASE c \in cache
      BY <2>1 DEF Bootstrap, ForkInv, CacheIsOfTheFork
    <2>2. CASE c \notin cache
      <3>1. PICK r \in R : c = [file |-> file[p], reg |-> r, value |-> Remote[r][0]]
        BY <2>2 DEF Bootstrap, Row
      <3>2. file[p] \notin Mixes(p, 0)
        BY <3>1 DEF Bootstrap
      <3>3. file[p].fork = 0
        BY <1>1, <3>2 DEF Mixes, ForkInv, FilesMatch, Early
      <3> QED BY <3>1, <3>3
    <2> QED BY <2>1, <2>2
  <1>4. WaitingMissed'
    BY <1>1 DEF ForkInv, WaitingMissed, Rows
  <1> QED BY <1>1, <1>2, <1>3, <1>4 DEF ForkInv, ReadsAreConsistent

\* A block of a process whose reads with the lock are over.
LEMMA WriteKeepsInv ==
  ASSUME ForkInv, NEW p \in Processes, NEW S, NEW h, Write(p, S, h),
         \A g \in Readers : fetch[g] # None /\ fetch[g].locked => fetch[g].process # p,
         DOMAIN phase' = Processes, phase[p] \notin Early, phase'[p] = "running",
         \A q \in Processes \ {p} : phase'[q] = phase[q],
         answers' = {}, UNCHANGED <<forkHeight, file, cache, mixed, fetch>>
  PROVE  ForkInv'
  <1>1. DOMAIN overlay' = Processes /\ \A q \in Processes \ {p} : overlay'[q] = overlay[q]
    BY DEF Write, ForkInv, FilesMatch
  <1>2. FilesMatch'
    BY <1>1 DEF ForkInv, FilesMatch
  <1>3. CacheIsOfTheFork'
    BY DEF ForkInv, CacheIsOfTheFork
  <1>4. WaitingMissed'
    BY <1>1 DEF ForkInv, WaitingMissed, Rows
  <1> QED BY <1>2, <1>3, <1>4 DEF ForkInv, ReadsAreConsistent

\* A rollback removes rows only.
LEMMA RollbackKeepsInv ==
  ASSUME ForkInv, NEW p \in Processes, NEW h, RollbackToBlockHeight(p, h)
  PROVE  ForkInv'
  <1>1. /\ DOMAIN overlay' = Processes /\ \A q \in Processes : overlay'[q] \subseteq overlay[q]
        /\ UNCHANGED <<phase, forkHeight, file, cache, mixed, fetch>> /\ answers' = {}
    BY DEF RollbackToBlockHeight, ForkInv, FilesMatch, caches
  <1>2. WaitingMissed'
    BY <1>1 DEF ForkInv, WaitingMissed, Rows
  <1> QED BY <1>1, <1>2 DEF ForkInv, FilesMatch, CacheIsOfTheFork, ReadsAreConsistent

\* The end of a process takes its reads and its cache in memory along.
LEMMA StopKeepsInv ==
  ASSUME ForkInv, NEW p \in Processes, Stop(p)
  PROVE  ForkInv'
  <1>1. /\ phase' = [phase EXCEPT ![p] = "down"]
        /\ forkHeight' = [forkHeight EXCEPT ![p] = 0]
        /\ file' = [file EXCEPT ![p] = None]
        /\ fetch' = [g \in Readers |-> IF fetch[g] # None /\ fetch[g].process = p THEN None ELSE fetch[g]]
        /\ overlay' = overlay /\ answers' = {}
    BY DEF Stop, database
  <1>2. cache' = {w \in cache : w.file.owner # p} /\ mixed' = {f \in mixed : f.owner # p}
    BY DEF Stop
  <1>3. FilesMatch'
    BY <1>1 DEF ForkInv, FilesMatch, Early
  <1>4. CacheIsOfTheFork'
    BY <1>2 DEF ForkInv, CacheIsOfTheFork
  <1>5. WaitingMissed'
    BY <1>1 DEF ForkInv, FilesMatch, WaitingMissed, Rows
  <1> QED BY <1>1, <1>3, <1>4, <1>5 DEF ForkInv, ReadsAreConsistent

\* A read is answered from the overlay or the cache, or it begins to wait.
LEMMA LookupKeepsInv ==
  ASSUME ForkInv, NEW g \in Readers, NEW p \in Processes, NEW r \in Registers, NEW h \in Nat,
         NEW locked \in BOOLEAN, Lookup(g, p, r, h, locked)
  PROVE  ForkInv'
  <1>1. UNCHANGED <<overlay, phase, forkHeight, file, cache, mixed>> /\ phase[p] = "running"
    BY DEF Lookup, database, memory, caches
  <1>2. FilesMatch' /\ CacheIsOfTheFork'
    BY <1>1 DEF Lookup, FromOverlay, FromCache, FromNetwork, ForkInv, FilesMatch, CacheIsOfTheFork
  <1>3. CASE Rows(p, r, h) # {} /\ FromOverlay(p, r, h, locked)
    <2>1. WaitingMissed'
      BY <1>1, <1>3 DEF FromOverlay, ForkInv, WaitingMissed, Rows
    <2>2. ReadsAreConsistent'
      BY <1>1, <1>3 DEF FromOverlay, ReadsAreConsistent, Answer, Expected, Rows
    <2> QED BY <1>2, <2>1, <2>2 DEF ForkInv
  <1>4. CASE Rows(p, r, h) = {} /\ FromCache(p, r, h, locked)
    <2>1. WaitingMissed'
      BY <1>1, <1>4 DEF FromCache, ForkInv, WaitingMissed, Rows
    <2>2. ReadsAreConsistent'
      <3> SUFFICES ASSUME NEW a \in answers', file[p] \notin mixed, h >= forkHeight[p],
                          a.process = p, a.reg = r, a.height = h
                   PROVE  a.value = Expected(a)'
        BY <1>1, <1>4 DEF ReadsAreConsistent, FromCache, Answer
      <3>1. PICK c \in Cached(p, r) : a.value = c.value
        BY <1>4 DEF FromCache, Answer
      <3>2. c.value = Remote[r][forkHeight[p]]
        BY <1>1 DEF Cached, ForkInv, FilesMatch, CacheIsOfTheFork, Early
      <3>3. Lower(h, forkHeight[p]) = forkHeight[p]
        BY AtTheFork DEF ForkInv, FilesMatch
      <3> QED BY <1>1, <1>4, <3>1, <3>2, <3>3 DEF Expected, NetworkValue, Rows
    <2> QED BY <1>2, <2>1, <2>2 DEF ForkInv
  <1>5. CASE Rows(p, r, h) = {} /\ FromNetwork(g, p, r, h, locked)
    <2>1. fetch' = [fetch EXCEPT ![g] =
                      [process |-> p, reg |-> r, height |-> h, locked |-> locked, attempt |-> 1]]
      BY <1>5 DEF FromNetwork, Waits
    <2>2. WaitingMissed'
      BY <1>1, <1>5, <2>1 DEF ForkInv, FilesMatch, WaitingMissed, Rows
    <2> QED BY <1>2, <1>5, <2>2 DEF ForkInv, FromNetwork, ReadsAreConsistent
  <1> QED BY <1>3, <1>4, <1>5 DEF Lookup

\* The network answers a read at the fork or above with the value of the fork height;
\* the overlay has still none for a read with the lock.
LEMMA FetchedKeepsInv ==
  ASSUME ForkInv, NEW g \in Readers, NEW written \in BOOLEAN, Fetched(g, written)
  PROVE  ForkInv'
  <1> DEFINE f == fetch[g]
             p == fetch[g].process
             v == FetchedValue(p, f.reg, f.height)
  <1>1. /\ p \in Processes /\ f.height \in Nat /\ phase[p] = "running"
        /\ f.locked => Rows(p, f.reg, f.height) = {}
        /\ forkHeight[p] \in Nat /\ file[p].fork = forkHeight[p]
    BY DEF Fetched, ForkInv, FilesMatch, WaitingMissed, Early
  <1>2. /\ UNCHANGED <<overlay, phase, forkHeight, file>>
        /\ fetch' = [fetch EXCEPT ![g] = None]
        /\ answers' = {[process |-> p, reg |-> f.reg, height |-> f.height,
                         locked |-> f.locked, value |-> v]}
        /\ cache' = IF written THEN (cache \ Cached(p, f.reg)) \cup {[file |-> file[p], reg |-> f.reg, value |-> v]}
                    ELSE cache
        /\ mixed' = IF written THEN mixed \cup Mixes(p, f.height) ELSE mixed
    BY DEF Fetched, Ends, Answer, Row, database, memory
  <1>3. v = Remote[f.reg][Lower(f.height, forkHeight[p])]
    BY DEF FetchedValue
  <1>4. f.height >= forkHeight[p] => v = Remote[f.reg][forkHeight[p]]
    BY <1>1, <1>3, AtTheFork
  <1>5. f.height < forkHeight[p] => Mixes(p, f.height) = {file[p]}
    BY DEF Mixes
  <1> HIDE DEF v
  <1>6. FilesMatch'
    BY <1>2 DEF ForkInv, FilesMatch
  <1>7. CacheIsOfTheFork'
    <2> SUFFICES ASSUME NEW c \in cache', c.file \notin mixed'
                 PROVE  c.value = Remote[c.reg][c.file.fork]
      BY DEF CacheIsOfTheFork
    <2>1. CASE c \in cache
      BY <1>2, <2>1 DEF ForkInv, CacheIsOfTheFork
    <2>2. CASE c \notin cache
      <3>1. written /\ c = [file |-> file[p], reg |-> f.reg, value |-> v]
        BY <1>2, <2>2
      <3>2. f.height >= forkHeight[p]
        BY <1>1, <1>2, <1>5, <3>1
      <3> QED BY <1>1, <1>4, <3>1, <3>2
    <2> QED BY <2>1, <2>2
  <1>8. WaitingMissed'
    BY <1>2 DEF ForkInv, FilesMatch, WaitingMissed, Rows
  <1>9. ReadsAreConsistent'
    <2> SUFFICES ASSUME NEW a \in answers'
                 PROVE  a.value = Expected(a)' \/ (~a.locked /\ a.value = NetworkValue(a)')
      BY DEF ReadsAreConsistent
    <2>1. /\ a.process = p /\ a.reg = f.reg /\ a.height = f.height /\ a.locked = f.locked
          /\ a.value = v
      BY <1>2
    <2>2. a.value = NetworkValue(a)'
      BY <1>2, <1>3, <2>1 DEF NetworkValue
    <2>3. a.locked => Rows(a.process, a.reg, a.height)' = {}
      BY <1>1, <1>2, <2>1 DEF Rows
    <2>4. a.locked => a.value = Expected(a)'
      BY <2>2, <2>3 DEF Expected
    <2> QED BY <2>2, <2>4
  <1> QED BY <1>6, <1>7, <1>8, <1>9 DEF ForkInv

\* An attempt that fails changes nothing but the read itself.
LEMMA FailuresKeepInv ==
  ASSUME ForkInv, NEW g \in Readers, Retry(g) \/ Fail(g)
  PROVE  ForkInv'
  <1>1. UNCHANGED <<overlay, phase, forkHeight, file, cache, mixed>> /\ answers' = {}
    BY DEF Retry, Fail, database, memory, caches
  <1>2. /\ DOMAIN fetch' = Readers
        /\ \A k \in Readers : fetch'[k] # None =>
              /\ fetch[k] # None
              /\ fetch'[k].process = fetch[k].process /\ fetch'[k].reg = fetch[k].reg
              /\ fetch'[k].height = fetch[k].height /\ fetch'[k].locked = fetch[k].locked
    <2>1. CASE Retry(g)
      <3>1. /\ DOMAIN fetch' = Readers /\ \A k \in Readers \ {g} : fetch'[k] = fetch[k]
            /\ fetch'[g] = [process |-> fetch[g].process, reg |-> fetch[g].reg,
                             height |-> fetch[g].height, locked |-> fetch[g].locked,
                             attempt |-> fetch[g].attempt + 1]
            /\ fetch[g] # None
        BY <2>1 DEF Retry, Waits, ForkInv, FilesMatch
      <3> QED BY <3>1
    <2>2. CASE Fail(g)
      BY <2>2 DEF Fail, Ends, ForkInv, FilesMatch
    <2> QED BY <2>1, <2>2
  <1>3. WaitingMissed'
    BY <1>1, <1>2 DEF ForkInv, WaitingMissed, Rows
  <1> QED BY <1>1, <1>2, <1>3 DEF ForkInv, FilesMatch, CacheIsOfTheFork, ReadsAreConsistent

\* As long as no value from below the fork got into its cache, every read of a
\* process at the fork or above returns the last local write up to its height or, if
\* there is none, the value of the network at the fork height, whoever shares the
\* cache and whatever was rolled back, restarted or removed; only a read without the
\* lock (GetRegisterValues) may return the latter although a commit has overtaken it.
THEOREM ReadsSeeTheFork == Spec => []ReadsAreConsistent
  <1>1. Init => ForkInv
    BY DEF Init, ForkInv, FilesMatch, CacheIsOfTheFork, WaitingMissed, ReadsAreConsistent, Early
  <1>2. ForkInv /\ [Next]_vars => ForkInv'
    <2> SUFFICES ASSUME ForkInv, [Next]_vars PROVE ForkInv'
      OBVIOUS
    <2>1. ASSUME NEW p \in Processes, NEW given, StartFirst(p, given) \/ StartAgain(p, given)
          PROVE  ForkInv'
      <3>1. \E F \in Nat, next \in Early : phase[p] = "down" /\ Starts(p, given, F, next)
        BY <2>1 DEF StartFirst, StartAgain, IsNetworkBlock, Early
      <3> QED BY <3>1, StartsKeepsInv
    <2>2. ASSUME NEW p \in Processes, StoreForkedBlockHeight(p) \/ SetBlockHeight(p)
          PROVE  ForkInv'
      <3>1. /\ phase[p] \in {"fork", "height"}
            /\ \E next \in Early : phase' = [phase EXCEPT ![p] = next]
            /\ UNCHANGED <<overlay, forkHeight, file, cache, mixed, fetch, answers>>
        BY <2>2 DEF StoreForkedBlockHeight, SetBlockHeight, caches, Early
      <3> QED BY <3>1, PhaseKeepsInv
    <2>12. ASSUME NEW p \in Processes, OpenCache(p) PROVE ForkInv'
      BY <2>12, OpenCacheKeepsInv
    <2>3. ASSUME NEW p \in Processes, NEW R \in SUBSET Registers, NEW S \in SUBSET Registers,
                 NEW ok \in BOOLEAN, Bootstrap(p, R, S, ok)
          PROVE  ForkInv'
      BY <2>3, BootstrapKeepsInv
    <2>4. ASSUME NEW p \in Processes, NEW S \in SUBSET Registers, CommitReferenceBlock(p, S)
          PROVE  ForkInv'
      <3>1. /\ Write(p, S, latest[p] + 1) /\ phase[p] = "opened"
            /\ phase' = [phase EXCEPT ![p] = "running"] /\ answers' = {}
            /\ UNCHANGED <<forkHeight, file, cache, mixed, fetch>>
        BY <2>4 DEF CommitReferenceBlock, caches
      <3>2. \A g \in Readers : fetch[g] # None => fetch[g].process # p
        BY <3>1 DEF ForkInv, WaitingMissed
      <3>3. /\ DOMAIN phase' = Processes /\ \A q \in Processes \ {p} : phase'[q] = phase[q]
            /\ phase[p] \notin Early /\ phase'[p] = "running"
        BY <3>1 DEF ForkInv, FilesMatch, Early
      <3> QED BY <3>1, <3>2, <3>3, WriteKeepsInv
    <2>5. ASSUME NEW p \in Processes, Stop(p) PROVE ForkInv'
      BY <2>5, StopKeepsInv
    <2>6. ASSUME NEW p \in Processes, NEW S \in SUBSET Registers, Commit(p, S)
          PROVE  ForkInv'
      <3>1. /\ Write(p, S, latest[p] + 1) /\ phase[p] = "running" /\ answers' = {}
            /\ \A g \in Readers : fetch[g] # None /\ fetch[g].locked => fetch[g].process # p
            /\ UNCHANGED <<phase, forkHeight, file, cache, mixed, fetch>>
        BY <2>6 DEF Commit, caches
      <3>2. DOMAIN phase' = Processes /\ phase[p] \notin Early
        BY <3>1 DEF ForkInv, FilesMatch, Early
      <3> QED BY <3>1, <3>2, WriteKeepsInv
    <2>7. ASSUME NEW p \in Processes, NEW h, RollbackToBlockHeight(p, h) PROVE ForkInv'
      BY <2>7, RollbackKeepsInv
    <2>8. ASSUME NEW p \in Processes, NEW g \in Readers, NEW r \in Registers,
                 NEW h \in ReadHeights[p], Read(g, p, r, h)
          PROVE  ForkInv'
      <3>1. h \in Nat /\ TRUE \in BOOLEAN
        BY ForkAssumption
      <3> QED BY <2>8, <3>1, LookupKeepsInv DEF Read
    <2>11. ASSUME NEW p \in Processes, NEW g \in Readers, NEW r \in Registers,
                  NEW h \in QueriedHeights[p], GetRegisterValues(g, p, r, h)
           PROVE  ForkInv'
      <3>1. h \in Nat /\ FALSE \in BOOLEAN
        BY ForkAssumption
      <3> QED BY <2>11, <3>1, LookupKeepsInv DEF GetRegisterValues
    <2>9. ASSUME NEW g \in Readers, Reply(g) PROVE ForkInv'
      BY <2>9, FetchedKeepsInv, FailuresKeepInv DEF Reply
    <2>10. ASSUME NetworkGrows \/ UNCHANGED vars PROVE ForkInv'
      <3>1. /\ UNCHANGED <<overlay, phase, forkHeight, file, cache, mixed, fetch>>
            /\ answers' \in {answers, {}}
        BY <2>10 DEF NetworkGrows, vars, database, memory, caches
      <3>2. ReadsAreConsistent'
        BY <3>1 DEF ForkInv, ReadsAreConsistent, Expected, NetworkValue, Rows
      <3> QED BY <3>1, <3>2 DEF ForkInv, FilesMatch, CacheIsOfTheFork, WaitingMissed, Rows
    <2> QED BY <2>1, <2>2, <2>3, <2>4, <2>5, <2>6, <2>7, <2>8, <2>9, <2>10, <2>11, <2>12
           DEF Next, Start
  <1>3. ForkInv => ReadsAreConsistent
    BY DEF ForkInv
  <1> QED BY <1>1, <1>2, <1>3, PTL DEF Spec

-----------------------------------------------------------------------------
(* The fork and the local blocks                                           *)

Phases == {"down", "fork", "height", "cache", "opened", "failed", "running"}

ForkTypes ==
    /\ tip \in Nat
    /\ forkRow \in [Processes -> Nat] /\ forkHeight \in [Processes -> Nat]
    /\ forks \in [Processes -> SUBSET Nat]
    /\ phase \in [Processes -> Phases]

\* The database holds the one height that was ever stored in it, and a process that
\* has come past the writes of its start has forked there; only a database without
\* a fork height is written.
Pinned(p) ==
    /\ forkRow[p] <= tip
    /\ 0 \notin forks[p] => forks[p] = IF forkRow[p] = 0 THEN {} ELSE {forkRow[p]}
    /\ phase[p] = "fork" => forkRow[p] = 0 /\ forkHeight[p] <= tip
    /\ phase[p] \notin {"down", "fork"} => forkHeight[p] = forkRow[p]

PinInv == ForkTypes /\ \A p \in Processes : Pinned(p)

\* What one process does leaves the others as they are.
LEMMA PinnedStays ==
  ASSUME PinInv, ForkTypes', tip' >= tip, NEW p \in Processes, Pinned(p)',
         \A q \in Processes \ {p} : /\ forkRow'[q] = forkRow[q] /\ forks'[q] = forks[q]
                                    /\ phase'[q] = phase[q] /\ forkHeight'[q] = forkHeight[q]
  PROVE  PinInv'
  <1>1. ASSUME NEW q \in Processes \ {p} PROVE Pinned(q)'
    BY <1>1 DEF PinInv, ForkTypes, Pinned
  <1> QED BY <1>1 DEF PinInv

LEMMA PinStarts ==
  ASSUME PinInv, NEW p \in Processes, NEW given, NEW F \in 0..tip, NEW next \in Phases,
         Starts(p, given, F, next),
         (next = "fork" /\ forkRow[p] = 0) \/ (next = "cache" /\ F = forkRow[p])
  PROVE  PinInv'
  <1>1. /\ UNCHANGED <<tip, forkRow, forks>>
        /\ phase' = [phase EXCEPT ![p] = next] /\ forkHeight' = [forkHeight EXCEPT ![p] = F]
    BY DEF Starts, database
  <1>2. ForkTypes'
    BY <1>1 DEF PinInv, ForkTypes
  <1>3. Pinned(p)'
    BY <1>1, <1>2 DEF PinInv, ForkTypes, Pinned
  <1> QED BY <1>1, <1>2, <1>3, PinnedStays DEF PinInv, ForkTypes

LEMMA PinStart ==
  ASSUME PinInv, NEW p \in Processes, NEW given, StartFirst(p, given) \/ StartAgain(p, given)
  PROVE  PinInv'
  <1>1. "fork" \in Phases /\ "cache" \in Phases
    BY DEF Phases
  <1>2. CASE StartFirst(p, given)
    BY <1>1, <1>2, PinStarts DEF StartFirst, IsNetworkBlock
  <1>3. CASE StartAgain(p, given)
    BY <1>1, <1>3, PinStarts DEF StartAgain, IsNetworkBlock
  <1> QED BY <1>2, <1>3

LEMMA PinStore ==
  ASSUME PinInv, NEW p \in Processes, StoreForkedBlockHeight(p)
  PROVE  PinInv'
  <1>1. /\ phase[p] = "fork" /\ UNCHANGED <<tip, forkHeight>>
        /\ forkRow' = [forkRow EXCEPT ![p] = forkHeight[p]]
        /\ forks' = [forks EXCEPT ![p] = forks[p] \cup {forkHeight[p]}]
        /\ phase' = [phase EXCEPT ![p] = "height"]
    BY DEF StoreForkedBlockHeight
  <1>2. ForkTypes'
    BY <1>1 DEF PinInv, ForkTypes, Phases
  <1>3. Pinned(p)'
    BY <1>1, <1>2 DEF PinInv, ForkTypes, Pinned
  <1> QED BY <1>1, <1>2, <1>3, PinnedStays DEF PinInv, ForkTypes

\* The other steps keep what the database says of the fork.
LEMMA PinOthers ==
  ASSUME PinInv, NEW p \in Processes, NEW next \in Phases \ {"fork"}, NEW F \in Nat,
         phase' = [phase EXCEPT ![p] = next], forkHeight' = [forkHeight EXCEPT ![p] = F],
         next = "down" \/ (phase[p] \notin {"down", "fork"} /\ F = forkHeight[p]),
         UNCHANGED <<tip, forkRow, forks>>
  PROVE  PinInv'
  <1>1. ForkTypes'
    BY DEF PinInv, ForkTypes
  <1>2. Pinned(p)'
    BY <1>1 DEF PinInv, ForkTypes, Pinned
  <1> QED BY <1>1, <1>2, PinnedStays DEF PinInv, ForkTypes

\* A step that changes neither the fork nor the phase of a process.
LEMMA PinUnchanged ==
  ASSUME PinInv, tip' \in Nat, tip' >= tip, UNCHANGED <<forkRow, forks, phase, forkHeight>>
  PROVE  PinInv'
  BY DEF PinInv, ForkTypes, Pinned

\* A read changes nothing but what waits and what was answered.
LEMMA LookupChanges ==
  ASSUME NEW g, NEW p, NEW r, NEW h, Read(g, p, r, h) \/ GetRegisterValues(g, p, r, h)
  PROVE  UNCHANGED <<tip, forkRow, forks, phase, forkHeight, latest, blocks, currentHeight>>
  BY DEF Read, GetRegisterValues, Lookup, database, memory

LEMMA PinStep == PinInv /\ [Next]_vars => PinInv'
  <1> SUFFICES ASSUME PinInv, [Next]_vars PROVE PinInv'
    OBVIOUS
  <1>0. tip \in Nat /\ phase = [q \in Processes |-> phase[q]]
        /\ forkHeight = [q \in Processes |-> forkHeight[q]] /\ \A q \in Processes : forkHeight[q] \in Nat
    BY DEF PinInv, ForkTypes
  <1>1. ASSUME NEW p \in Processes, NEW given, StartFirst(p, given) \/ StartAgain(p, given)
        PROVE  PinInv'
    BY <1>1, PinStart
  <1>2. ASSUME NEW p \in Processes, StoreForkedBlockHeight(p) PROVE PinInv'
    BY <1>2, PinStore
  <1>3. ASSUME NEW p \in Processes,
               \/ SetBlockHeight(p) \/ OpenCache(p)
               \/ \E R, S \in SUBSET Registers, ok \in BOOLEAN : Bootstrap(p, R, S, ok)
               \/ \E S \in SUBSET Registers : CommitReferenceBlock(p, S)
        PROVE  PinInv'
    <2>1. /\ phase[p] \in {"height", "cache", "opened"} /\ UNCHANGED <<tip, forkRow, forks, forkHeight>>
          /\ \E next \in Phases \ {"fork"} : phase' = [phase EXCEPT ![p] = next]
      BY <1>0, <1>3 DEF SetBlockHeight, OpenCache, Bootstrap, CommitReferenceBlock, Write, database, Phases
    <2>2. forkHeight' = [forkHeight EXCEPT ![p] = forkHeight[p]]
      BY <1>0, <2>1
    <2> QED BY <1>0, <2>1, <2>2, PinOthers
  <1>4. ASSUME NEW p \in Processes, Stop(p) PROVE PinInv'
    <2>1. /\ phase' = [phase EXCEPT ![p] = "down"] /\ forkHeight' = [forkHeight EXCEPT ![p] = 0]
          /\ UNCHANGED <<tip, forkRow, forks>>
      BY <1>4 DEF Stop, database
    <2>2. "down" \in Phases \ {"fork"} /\ 0 \in Nat
      BY DEF Phases
    <2> QED BY <2>1, <2>2, PinOthers
  <1>5. ASSUME NEW p \in Processes,
               \/ \E S \in SUBSET Registers : Commit(p, S)
               \/ \E h \in RollbackHeights[p] : RollbackToBlockHeight(p, h)
               \/ \E g, r, h : Read(g, p, r, h) \/ GetRegisterValues(g, p, r, h)
        PROVE  PinInv'
    <2>1. ASSUME NEW g, NEW r, NEW h, Read(g, p, r, h) \/ GetRegisterValues(g, p, r, h)
          PROVE  PinInv'
      BY <1>0, <2>1, LookupChanges, PinUnchanged
    <2> QED BY <1>0, <1>5, <2>1, PinUnchanged DEF Commit, Write, RollbackToBlockHeight
  <1>6. ASSUME NEW g \in Readers, Reply(g) PROVE PinInv'
    BY <1>0, <1>6, PinUnchanged DEF Reply, Fetched, Retry, Fail, database, memory
  <1>7. CASE NetworkGrows
    BY <1>0, <1>7, PinUnchanged, ForkAssumption DEF NetworkGrows, database, memory
  <1>8. CASE UNCHANGED vars
    BY <1>0, <1>8, PinUnchanged DEF vars, database, memory
  <1> QED BY <1>1, <1>2, <1>3, <1>4, <1>5, <1>6, <1>7, <1>8 DEF Next, Start

LEMMA PinInit == Init => PinInv
  BY DEF Init, PinInv, ForkTypes, Pinned, Phases

\* A process keeps the fork of its database: initializeStartBlock finds it again,
\* whatever height is given later and however far the network has come.
THEOREM ForkStaysPinned == Spec => []ForkIsPinned
  <1>1. PinInv => ForkIsPinned
    BY DEF PinInv, ForkTypes, Pinned, ForkIsPinned
  <1> QED BY PinInit, PinStep, <1>1, PTL DEF Spec

-----------------------------------------------------------------------------

LocalTypes ==
    /\ latest \in [Processes -> Nat \cup {NoRow}]
    /\ blocks \in [Processes -> SUBSET Nat]
    /\ currentHeight \in [Processes -> Nat]

\* LocalBlocksFollowTheFork for one process.
Follows(p) ==
    0 \notin forks[p] /\ latest[p] # NoRow =>
        /\ \A h \in blocks[p] : h..latest[p] \subseteq blocks[p] /\ h <= latest[p]
        /\ \A h \in 0..latest[p] : h \in blocks[p] \/ (h <= tip /\ h <= forkRow[p])

\* There are no blocks before there is a latest height, and none of both before the
\* fork height is stored; a process that runs knows its latest height.
Chained(p) ==
    /\ latest[p] = NoRow => blocks[p] = {}
    /\ 0 \notin forks[p] /\ (forkRow[p] = 0 \/ phase[p] = "height") => latest[p] = NoRow
    /\ phase[p] \notin {"down", "fork"} /\ forkRow[p] = 0 => 0 \in forks[p]
    /\ phase[p] = "running" => latest[p] # NoRow /\ currentHeight[p] = latest[p]
    /\ Follows(p)

ChainInv == PinInv /\ LocalTypes /\ \A p \in Processes : Chained(p)

\* What one process does leaves the chains of the others as they are.
LEMMA ChainedStays ==
  ASSUME ChainInv, PinInv', LocalTypes', tip' >= tip, NEW p \in Processes, Chained(p)',
         \A q \in Processes \ {p} :
            /\ forkRow'[q] = forkRow[q] /\ forks'[q] = forks[q] /\ phase'[q] = phase[q]
            /\ latest'[q] = latest[q] /\ blocks'[q] = blocks[q]
            /\ currentHeight'[q] = currentHeight[q]
  PROVE  ChainInv'
  <1>1. ASSUME NEW q \in Processes \ {p} PROVE Chained(q)'
    <2>1. Chained(q) /\ tip \in Nat /\ tip' \in Nat /\ forkRow[q] \in Nat
          /\ latest[q] \in Nat \cup {NoRow}
      BY DEF ChainInv, PinInv, ForkTypes, LocalTypes
    <2>2. Follows(q)'
      BY <1>1, <2>1 DEF Chained, Follows, NoRow
    <2> QED BY <1>1, <2>1, <2>2 DEF Chained, NoRow
  <1> QED BY <1>1 DEF ChainInv

\* The next block of a chain, which is found or was just stored as latest.
LEMMA WriteFollows ==
  ASSUME ChainInv, PinInv', NEW p \in Processes, NEW S, Write(p, S, latest[p] + 1),
         phase[p] \in {"opened", "running"}, phase' = [phase EXCEPT ![p] = "running"],
         latest[p] # NoRow, tip' = tip
  PROVE  ChainInv'
  <1>1. /\ blocks' = [blocks EXCEPT ![p] = blocks[p] \cup {latest[p] + 1}]
        /\ latest' = [latest EXCEPT ![p] = latest[p] + 1]
        /\ currentHeight' = [currentHeight EXCEPT ![p] = latest[p] + 1]
        /\ UNCHANGED <<forkRow, forks>>
    BY DEF Write
  <1>2. /\ latest[p] \in Nat /\ blocks[p] \subseteq Nat /\ tip \in Nat /\ forkRow[p] \in Nat
        /\ Chained(p)
    BY DEF ChainInv, LocalTypes, PinInv, ForkTypes
  <1>3. LocalTypes'
    BY <1>1, <1>2 DEF ChainInv, LocalTypes
  <1>4. /\ latest'[p] = latest[p] + 1 /\ blocks'[p] = blocks[p] \cup {latest[p] + 1}
        /\ currentHeight'[p] = latest[p] + 1 /\ phase'[p] = "running"
    BY <1>1 DEF ChainInv, LocalTypes, PinInv, ForkTypes
  <1>5. Follows(p)'
    BY <1>1, <1>2, <1>4 DEF Chained, Follows, NoRow
  <1>6. Chained(p)'
    BY <1>1, <1>2, <1>4, <1>5 DEF Chained, NoRow
  <1> QED BY <1>1, <1>2, <1>3, <1>6, ChainedStays DEF ChainInv, LocalTypes, PinInv, ForkTypes

LEMMA ChainStep == ChainInv /\ [Next]_vars => ChainInv'
  <1> SUFFICES ASSUME ChainInv, [Next]_vars PROVE ChainInv'
    OBVIOUS
  <1>0. PinInv /\ PinInv' /\ ForkTypes /\ ForkTypes' /\ LocalTypes
    BY PinStep DEF ChainInv, PinInv
  <1>t. tip \in Nat /\ tip' \in Nat
    BY <1>0 DEF ForkTypes
  <1>1. ASSUME NEW p \in Processes, NEW given, StartFirst(p, given) \/ StartAgain(p, given)
        PROVE  ChainInv'
    <2>1. /\ phase' = [phase EXCEPT ![p] = IF forkRow[p] = 0 THEN "fork" ELSE "cache"]
          /\ UNCHANGED <<tip, forkRow, forks, latest, blocks, currentHeight>>
      BY <1>0, <1>1 DEF StartFirst, StartAgain, Starts, database, ForkTypes
    <2>2. Chained(p)'
      BY <1>0, <2>1 DEF ChainInv, Chained, Follows, ForkTypes
    <2> QED BY <1>0, <1>t, <2>1, <2>2, ChainedStays DEF LocalTypes, ForkTypes
  <1>2. ASSUME NEW p \in Processes, StoreForkedBlockHeight(p) PROVE ChainInv'
    <2>1. /\ phase[p] = "fork" /\ UNCHANGED <<tip, latest, blocks, currentHeight>>
          /\ forkRow' = [forkRow EXCEPT ![p] = forkHeight[p]]
          /\ forks' = [forks EXCEPT ![p] = forks[p] \cup {forkHeight[p]}]
          /\ phase' = [phase EXCEPT ![p] = "height"]
      BY <1>2 DEF StoreForkedBlockHeight
    <2>2. forkRow[p] = 0
      BY <1>0, <2>1 DEF PinInv, Pinned
    <2>3. Chained(p)'
      BY <1>0, <2>1, <2>2 DEF ChainInv, Chained, Follows, ForkTypes
    <2> QED BY <1>0, <1>t, <2>1, <2>3, ChainedStays DEF LocalTypes, ForkTypes
  <1>3. ASSUME NEW p \in Processes, SetBlockHeight(p) PROVE ChainInv'
    <2>1. /\ phase[p] = "height" /\ UNCHANGED <<tip, forkRow, forks, blocks>>
          /\ latest' = [latest EXCEPT ![p] = forkHeight[p]]
          /\ currentHeight' = [currentHeight EXCEPT ![p] = forkHeight[p]]
          /\ phase' = [phase EXCEPT ![p] = "cache"]
      BY <1>3 DEF SetBlockHeight
    <2>2. forkHeight[p] = forkRow[p] /\ forkRow[p] <= tip /\ forkRow[p] \in Nat /\ Chained(p)
      BY <1>0, <2>1 DEF ChainInv, PinInv, Pinned, ForkTypes
    <2>3. latest'[p] = forkRow[p] /\ blocks'[p] = blocks[p] /\ phase'[p] = "cache"
      BY <1>0, <2>1, <2>2 DEF LocalTypes, ForkTypes
    <2>4. Follows(p)'
      BY <1>t, <2>1, <2>2, <2>3 DEF Chained, Follows, NoRow
    <2>5. Chained(p)'
      BY <2>1, <2>2, <2>3, <2>4 DEF Chained, NoRow
    <2>6. LocalTypes'
      BY <1>0, <2>1, <2>2 DEF LocalTypes
    <2> QED BY <1>0, <1>t, <2>1, <2>5, <2>6, ChainedStays DEF LocalTypes, ForkTypes
  <1>10. ASSUME NEW p \in Processes, OpenCache(p) PROVE ChainInv'
    <2>1. /\ phase[p] = "cache" /\ phase' = [phase EXCEPT ![p] = "opened"]
          /\ UNCHANGED <<tip, forkRow, forks, latest, blocks, currentHeight>>
      BY <1>10 DEF OpenCache, database
    <2>2. Chained(p)'
      BY <1>0, <2>1 DEF ChainInv, Chained, Follows, ForkTypes
    <2> QED BY <1>0, <1>t, <2>1, <2>2, ChainedStays DEF LocalTypes, ForkTypes
  <1>4. ASSUME NEW p \in Processes, NEW R \in SUBSET Registers, NEW S \in SUBSET Registers,
               NEW ok \in BOOLEAN, Bootstrap(p, R, S, ok)
        PROVE  ChainInv'
    <2>1. CASE Write(p, S, 0) /\ UNCHANGED phase
      <3>1. /\ phase[p] = "opened" /\ latest[p] = NoRow /\ UNCHANGED <<tip, forkRow, forks, phase>>
            /\ blocks' = [blocks EXCEPT ![p] = blocks[p] \cup {0}]
            /\ latest' = [latest EXCEPT ![p] = 0]
            /\ currentHeight' = [currentHeight EXCEPT ![p] = 0]
        BY <1>4, <2>1 DEF Bootstrap, Write
      <3>2. Chained(p) /\ blocks'[p] = {0} /\ latest'[p] = 0
        BY <1>0, <3>1 DEF ChainInv, Chained, LocalTypes
      <3>3. Follows(p)'
        BY <1>t, <3>1, <3>2 DEF Follows, NoRow
      <3>4. Chained(p)'
        BY <3>1, <3>2, <3>3 DEF Chained, NoRow
      <3>5. LocalTypes'
        BY <1>0, <3>1 DEF LocalTypes
      <3> QED BY <1>0, <1>t, <3>1, <3>4, <3>5, ChainedStays DEF LocalTypes
    <2>2. CASE phase' = [phase EXCEPT ![p] = "failed"] /\ UNCHANGED <<database, currentHeight>>
      <3>1. /\ phase[p] = "opened"
            /\ UNCHANGED <<tip, forkRow, forks, latest, blocks, currentHeight>>
        BY <1>4, <2>2 DEF Bootstrap, database
      <3>2. Chained(p)'
        BY <1>0, <2>2, <3>1 DEF ChainInv, Chained, Follows, ForkTypes
      <3> QED BY <1>0, <1>t, <2>2, <3>1, <3>2, ChainedStays DEF LocalTypes, ForkTypes
    <2> QED BY <1>4, <2>1, <2>2 DEF Bootstrap
  <1>5. ASSUME NEW p \in Processes, NEW S \in SUBSET Registers,
               CommitReferenceBlock(p, S) \/ Commit(p, S)
        PROVE  ChainInv'
    <2>1. latest[p] # NoRow
      BY <1>5 DEF CommitReferenceBlock, Commit, ChainInv, Chained
    <2>2. phase' = [phase EXCEPT ![p] = "running"]
      BY <1>0, <1>5 DEF CommitReferenceBlock, Commit, ForkTypes
    <2> QED BY <1>0, <1>5, <2>1, <2>2, WriteFollows DEF CommitReferenceBlock, Commit
  <1>6. ASSUME NEW p \in Processes, Stop(p) PROVE ChainInv'
    <2>1. /\ phase' = [phase EXCEPT ![p] = "down"] /\ UNCHANGED <<tip, forkRow, forks, latest, blocks>>
          /\ currentHeight' = [currentHeight EXCEPT ![p] = 0]
      BY <1>6 DEF Stop, database
    <2>2. Chained(p)'
      BY <1>0, <2>1 DEF ChainInv, Chained, Follows, ForkTypes
    <2>3. LocalTypes'
      BY <1>0, <2>1 DEF LocalTypes
    <2> QED BY <1>0, <1>t, <2>1, <2>2, <2>3, ChainedStays DEF LocalTypes, ForkTypes
  <1>7. ASSUME NEW p \in Processes, NEW h \in RollbackHeights[p], RollbackToBlockHeight(p, h)
        PROVE  ChainInv'
    <2>1. /\ phase[p] = "running" /\ currentHeight[p] > h /\ UNCHANGED <<tip, forkRow, forks, phase>>
          /\ blocks' = [blocks EXCEPT ![p] = {b \in blocks[p] : b <= h}]
          /\ latest' = [latest EXCEPT ![p] = h]
          /\ currentHeight' = [currentHeight EXCEPT ![p] = h]
      BY <1>7 DEF RollbackToBlockHeight
    <2>2. /\ h \in Nat /\ latest[p] \in Nat /\ latest[p] > h /\ Chained(p)
          /\ blocks[p] \subseteq Nat /\ forkRow[p] \in Nat
      BY <1>0, <2>1, ForkAssumption DEF ChainInv, Chained, LocalTypes, ForkTypes
    <2>3. latest'[p] = h /\ blocks'[p] = {b \in blocks[p] : b <= h} /\ currentHeight'[p] = h
      BY <1>0, <2>1 DEF LocalTypes
    <2>4. Follows(p)'
      BY <1>t, <2>1, <2>2, <2>3 DEF Chained, Follows, NoRow
    <2>5. Chained(p)'
      BY <2>1, <2>2, <2>3, <2>4 DEF Chained, NoRow
    <2>6. LocalTypes'
      BY <1>0, <2>1, <2>2 DEF LocalTypes
    <2> QED BY <1>0, <1>t, <2>1, <2>5, <2>6, ChainedStays DEF LocalTypes
  <1>8. ASSUME tip' >= tip, UNCHANGED <<forkRow, forks, phase, latest, blocks, currentHeight>>
        PROVE  ChainInv'
    <2>1. ASSUME NEW q \in Processes PROVE Chained(q)'
      <3>1. Chained(q) /\ latest[q] \in Nat \cup {NoRow} /\ forkRow[q] \in Nat
        BY <1>0 DEF ChainInv, LocalTypes, ForkTypes
      <3>2. Follows(q)'
        BY <1>t, <1>8, <3>1 DEF Chained, Follows, NoRow
      <3> QED BY <1>8, <3>1, <3>2 DEF Chained
    <2> QED BY <1>0, <1>8, <2>1 DEF ChainInv, LocalTypes
  <1>9. ASSUME \/ NetworkGrows \/ UNCHANGED vars
               \/ \E g \in Readers : Reply(g)
        PROVE  ChainInv'
    <2>1. tip' >= tip /\ UNCHANGED <<forkRow, forks, phase, latest, blocks, currentHeight>>
      BY <1>t, <1>9, ForkAssumption
         DEF NetworkGrows, Reply, Fetched, Retry, Fail, database, memory, vars
    <2> QED BY <1>8, <2>1
  <1>11. ASSUME NEW p, NEW g, NEW r, NEW h, Read(g, p, r, h) \/ GetRegisterValues(g, p, r, h)
         PROVE  ChainInv'
    BY <1>t, <1>8, <1>11, LookupChanges
  <1> QED BY <1>1, <1>2, <1>3, <1>4, <1>5, <1>6, <1>7, <1>9, <1>10, <1>11 DEF Next, Start

\* All blocks after the fork height were produced by the emulator, and they are the
\* upper end of the chain, after rollbacks to any height, restarts and starts that
\* were cut short between the writes of StoreForkedBlockHeight and SetBlockHeight.
THEOREM LocalBlocksAreOnTop == Spec => []LocalBlocksFollowTheFork
  <1>1. Init => ChainInv
    <2>1. Init => LocalTypes /\ \A p \in Processes : Chained(p)
      BY DEF Init, LocalTypes, Chained, Follows, NoRow
    <2> QED BY <2>1, PinInit DEF ChainInv
  <1>2. ChainInv => LocalBlocksFollowTheFork
    BY DEF ChainInv, Chained, Follows, LocalBlocksFollowTheFork
  <1> QED BY <1>1, <1>2, ChainStep, PTL DEF Spec

=============================================================================

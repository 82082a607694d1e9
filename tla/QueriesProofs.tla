--------------------------- MODULE QueriesProofs ---------------------------
(***************************************************************************)
(* Proofs about Queries and Streaming for every set of transactions,       *)
(* callbacks and subscriptions and every bound: what clients read from the *)
(* chain, in one call or in several while the chain grows.                 *)
(***************************************************************************)
EXTENDS Streaming, BlockchainProofs

-----------------------------------------------------------------------------
(* What the queries rest on                                                *)

\* The system transactions of a block: the system chunk is the last one, it is
\* there once, and so is every callback.
IsSystem(sys) ==
    /\ sys \in Seq(Callbacks \cup {Process, Chunk}) /\ sys # <<>>
    /\ \A i \in 1..Len(sys) : (sys[i] = Chunk) <=> (i = Len(sys))
    /\ \A i, j \in 1..Len(sys) : sys[i] = sys[j] /\ sys[i] \in Callbacks => i = j

\* A transaction of the pending block is in storage only if the pending block is
\* held: its commit failed behind the store.  Then all transactions of the stored
\* block still are in it.
PendingInv ==
    /\ \A t \in Range(pending.txs) :
          Stored(t) => pending.height = latest /\ t \in Range(blocks[latest].txs)
    /\ pending.height = latest => Range(blocks[latest].txs) \subseteq Range(pending.txs)

SystemInv ==
    /\ blocks[0] = GenesisBlock
    /\ \A h \in 1..latest : IsSystem(blocks[h].sys)

ReadInv == ChainInv /\ PoolInv /\ LedgerInv /\ PendingInv /\ SystemInv

LEMMA SystemShape ==
  ASSUME NEW due \in Seq(Callbacks), IsInjective(due)
  PROVE  IsSystem(SystemTransactions(due))
  <1> DEFINE n == Len(due)
             S == Callbacks \cup {Process, Chunk}
  <1>1. n \in Nat /\ DOMAIN due = 1..n /\ \A i \in 1..n : due[i] \in Callbacks
    BY LenProperties, ElementOfSeq
  <1>2. Process # Chunk /\ Process \notin Callbacks /\ Chunk \notin Callbacks
    BY IdentifiersAssumption DEF Process, Chunk
  <1>3. \A i, j \in 1..n : due[i] = due[j] => i = j
    BY <1>1 DEF IsInjective
  <1>4. CASE ScheduledTransactionsEnabled
    <2> DEFINE s == <<Process>> \o due \o <<Chunk>>
    <2>1. SystemTransactions(due) = s
      BY <1>4 DEF SystemTransactions
    <2>2. due \in Seq(S) /\ <<Process>> \in Seq(S) /\ <<Chunk>> \in Seq(S)
      BY <1>1
    <2>3. <<Process>> \o due \in Seq(S) /\ s \in Seq(S)
      BY <2>2
    <2>4. Len(s) = n + 2 /\ s[1] = Process /\ s[n + 2] = Chunk
      BY <1>1, <2>2
    <2>5. \A i \in 2..(n + 1) : s[i] = due[i - 1]
      BY <1>1, <2>2
    <2>6. \A i \in 1..(n + 2) : i = 1 \/ i = n + 2 \/ i \in 2..(n + 1)
      BY <1>1
    <2>7. s # <<>>
      BY <1>1, <2>4
    <2>9. \A i \in 2..(n + 1) : s[i] \in Callbacks /\ i - 1 \in 1..n
      BY <1>1, <2>5
    <2> HIDE DEF n, S, s
    <2>10. \A i \in 1..Len(s) : (s[i] = Chunk) <=> (i = Len(s))
      BY <1>1, <1>2, <2>4, <2>6, <2>9
    <2>11. \A i, j \in 1..Len(s) : s[i] = s[j] /\ s[i] \in Callbacks => i = j
      BY <1>1, <1>2, <1>3, <2>4, <2>5, <2>6, <2>9
    <2> QED BY <2>1, <2>3, <2>7, <2>10, <2>11 DEF IsSystem, S
  <1>5. CASE ~ScheduledTransactionsEnabled
    BY <1>2, <1>5 DEF SystemTransactions, IsSystem
  <1> QED BY <1>4, <1>5

LEMMA PendingInvStep ==
  ASSUME ChainInv, ChainInv', PendingInv, SystemInv, [Next]_vars
  PROVE  PendingInv' /\ SystemInv'
  <1>0. /\ latest \in Nat /\ DOMAIN blocks = 0..latest /\ blocks[latest] \in Blocks
        /\ entropy \in BlockIDs /\ pending.txs \in Seq(Txs)
        /\ blocks[latest].height = latest
    BY DEF ChainInv, TypeOK, ChainLinked, PendingBlocks
  <1>1. Shape
    BY StepShape DEF ChainInv
  <1>2. CASE KeepStep
    <2>1. Kept(pending') /\ UNCHANGED <<blocks, latest>> /\ pending'.height = pending.height
      BY <1>2 DEF KeepStep, Kept
    <2>2. \A t \in Range(pending'.txs) : t \in Range(pending.txs) \/ ~Stored(t)
      BY <2>1, KeptMembers
    <2>3. Range(pending.txs) \subseteq Range(pending'.txs)
      BY <1>0, <2>1 DEF Kept, Range
    <2> QED BY <2>1, <2>2, <2>3 DEF PendingInv, SystemInv, Stored
  <1>3. CASE RenewStep
    <2>1. pending'.txs = <<>> /\ pending'.height = latest + 1 /\ UNCHANGED <<blocks, latest>>
      BY <1>0, <1>3, NewPendingType DEF RenewStep
    <2>2. Range(pending'.txs) = {} /\ pending'.height # latest
      BY <1>0, <2>1 DEF Range
    <2> QED BY <2>1, <2>2 DEF PendingInv, SystemInv
  <1>4. ASSUME NEW p, NEW due, StoreStep(p, due)
        PROVE  PendingInv' /\ SystemInv'
    <2> DEFINE b == BlockOf(p, due)
    <2>1. /\ latest' = latest + 1 /\ \A h \in 0..latest : blocks'[h] = blocks[h]
          /\ blocks'[latest + 1] = b /\ b \in Blocks
          /\ WellFormed(p) /\ due \in Seq(Callbacks) /\ IsInjective(due)
          /\ p.height = latest + 1
      BY <1>4, StoreFacts DEF StoreStep
    <2>2. b.txs = p.txs /\ b.sys = SystemTransactions(due) /\ b.height = p.height
      BY <1>0, <2>1, BlockOfType
    <2> HIDE DEF b
    <2>3. SystemInv'
      <3>1. \A h \in 1..(latest + 1) : h \in 1..latest \/ h = latest + 1
        BY <1>0
      <3>2. IsSystem(b.sys)
        BY <2>1, <2>2, SystemShape
      <3>3. \A h \in 1..(latest + 1) : IsSystem(blocks'[h].sys)
        BY <1>0, <2>1, <3>1, <3>2 DEF SystemInv
      <3> QED BY <1>0, <2>1, <3>3 DEF SystemInv
    <2>4. CASE pending' \in NewPendingBlocks(b)
      <3>1. pending'.txs = <<>> /\ pending'.height = latest' + 1
        BY <2>1, <2>2, <2>4, NewPendingType
      <3>2. Range(pending'.txs) = {} /\ pending'.height # latest'
        BY <1>0, <2>1, <3>1 DEF Range
      <3> QED BY <2>3, <3>2 DEF PendingInv
    <2>5. CASE pending' = Finalize(AfterChunk(p, due))
      <3>1. Ran(p, AfterChunk(p, due))
        BY <2>1, ChunkType
      <3>2. pending'.txs = p.txs /\ pending'.height = p.height
        BY <2>5, <3>1, FinalizeType DEF Ran, SameBlock
      <3>3. pending'.height = latest' /\ pending'.txs = blocks'[latest'].txs
        BY <2>1, <2>2, <3>2
      <3> QED BY <2>3, <3>3 DEF PendingInv
    <2> QED BY <1>4, <2>4, <2>5 DEF StoreStep, b
  <1> QED BY <1>1, <1>2, <1>3, <1>4 DEF Shape

LEMMA ReadInvariant == Spec => []ReadInv
  <1>1. Init => PendingInv /\ SystemInv
    <2> SUFFICES ASSUME Init PROVE PendingInv /\ SystemInv
      OBVIOUS
    <2>1. /\ pending.txs = <<>> /\ pending.height = 1 /\ latest = 0
          /\ blocks = [h \in {0} |-> GenesisBlock]
      BY DEF Init, NewPendingBlocks, PendingOn, GenesisBlock
    <2>2. Range(pending.txs) = {}
      BY <2>1 DEF Range
    <2> QED BY <2>1, <2>2 DEF PendingInv, SystemInv
  <1>2. ChainInv /\ ChainInv' /\ PendingInv /\ SystemInv /\ [Next]_vars => PendingInv' /\ SystemInv'
    BY PendingInvStep
  <1> QED BY <1>1, <1>2, ChainInvariant, PoolInvariant, LedgerInvariant, PTL DEF Spec, ReadInv

-----------------------------------------------------------------------------
(* Lookups                                                                 *)

\* A query that finds one thing is answered with it, one that finds nothing with
\* the code.
LEMMA Answers ==
  ASSUME NEW x, NEW code
  PROVE  /\ Answer({x}, code) = Ok(x)
         /\ Answer({}, code) = [code |-> code]
         /\ OrUnknown({x}) = x /\ OrUnknown({}) = Unknown
  BY DEF Answer, Ok, OrUnknown

\* Every block is found by height and by identifier, and nothing else is.
LEMMA BlockFound ==
  ASSUME ReadInv, NEW h \in 0..latest
  PROVE  /\ h \in Nat /\ h \in DOMAIN blocks /\ blocks[h] \in Blocks /\ blocks[h].height = h
         /\ BlockByHeight(h) = {blocks[h]}
         /\ BlockByID(BlockID(blocks[h])) = {blocks[h]}
         /\ BlockID(blocks[h]) # ZeroID
  <1>1. /\ latest \in Nat /\ DOMAIN blocks = 0..latest
        /\ \A g \in 0..latest : blocks[g] \in Blocks /\ blocks[g].height = g
    BY DEF ReadInv, ChainInv, TypeOK, ChainLinked
  <1>2. \A g \in 0..latest : BlockID(blocks[g]) = BlockID(blocks[h]) => g = h
    BY <1>1 DEF BlockID
  <1>3. {g \in DOMAIN blocks : BlockID(blocks[g]) = BlockID(blocks[h])} = {h}
    BY <1>1, <1>2
  <1>4. BlockByID(BlockID(blocks[h])) = {blocks[h]}
    BY <1>3 DEF BlockByID
  <1>5. BlockByHeight(h) = {blocks[h]}
    BY <1>1 DEF BlockByHeight
  <1>6. BlockID(blocks[h]) # ZeroID
    BY DEF BlockID, ZeroID
  <1> QED BY <1>1, <1>4, <1>5, <1>6

LEMMA BlockAbove ==
  ASSUME ReadInv, NEW h \in DOMAIN blocks \ {0}
  PROVE  /\ h \in 1..latest /\ h \in 0..latest /\ h - 1 \in 0..latest
         /\ blocks[h].parent = BlockID(blocks[h - 1])
         /\ blocks[h].txs \in Seq(Txs) /\ DOMAIN blocks[h].txs = 1..Len(blocks[h].txs)
         /\ Len(blocks[h].txs) \in Nat
         /\ IsSystem(blocks[h].sys) /\ Len(blocks[h].sys) \in Nat \ {0}
         /\ DOMAIN blocks[h].sys = 1..Len(blocks[h].sys)
  <1>1. latest \in Nat /\ DOMAIN blocks = 0..latest
    BY DEF ReadInv, ChainInv, TypeOK, ChainLinked
  <1>2. h \in 1..latest /\ h \in 0..latest /\ h - 1 \in 0..latest
    BY <1>1
  <1>3. blocks[h] \in Blocks /\ blocks[h].parent = BlockID(blocks[h - 1])
    BY <1>2 DEF ReadInv, ChainInv, TypeOK, ChainLinked
  <1>4. IsSystem(blocks[h].sys)
    BY <1>2 DEF ReadInv, SystemInv
  <1>5. blocks[h].txs \in Seq(Txs)
    BY <1>3 DEF Blocks
  <1>6. Len(blocks[h].sys) \in Nat \ {0} /\ DOMAIN blocks[h].sys = 1..Len(blocks[h].sys)
    BY <1>4 DEF IsSystem
  <1> QED BY <1>2, <1>3, <1>4, <1>5, <1>6

\* The record of the system transactions of a block.
LEMMA SystemFound ==
  ASSUME ReadInv, NEW h \in DOMAIN blocks \ {0}, NEW x
  PROVE  LET b == blocks[h] IN
         /\ SystemTransactionsForBlockID(BlockID(b)) = {b.sys}
         /\ x \in Range(b.sys) =>
              /\ getSystemTransactionResult(BlockID(b), x) = SealedResult(x, b, SystemCode(b, x))
              /\ GetSystemTransactionResult(x, BlockID(b)) = {SealedResult(x, b, SystemCode(b, x))}
         /\ x \notin Range(b.sys) => GetSystemTransactionResult(x, BlockID(b)) = {}
  <1> DEFINE b == blocks[h]
             id == BlockID(b)
  <1>1. BlockByID(id) = {b}
    BY BlockAbove, BlockFound
  <1>2. b.sys # <<>>
    BY BlockAbove DEF IsSystem
  <1> HIDE DEF b, id
  <1>3. SystemTransactionsForBlockID(id) = {b.sys}
    BY <1>1, <1>2 DEF SystemTransactionsForBlockID
  <1>4. CASE x \in Range(b.sys)
    <2>1. SystemTransactionResultByID(id, x) = {SealedResult(x, b, SystemCode(b, x))}
      BY <1>1, <1>4 DEF SystemTransactionResultByID
    <2>2. getSystemTransactionResult(id, x) = SealedResult(x, b, SystemCode(b, x))
      BY <2>1, Answers DEF getSystemTransactionResult
    <2>3. GetSystemTransactionResult(x, id) = {SealedResult(x, b, SystemCode(b, x))}
      BY <1>3, <1>4, <2>2 DEF GetSystemTransactionResult
    <2> QED BY <1>3, <1>4, <2>2, <2>3 DEF b, id
  <1>5. CASE x \notin Range(b.sys)
    <2>1. GetSystemTransactionResult(x, id) = {}
      BY <1>3, <1>5 DEF GetSystemTransactionResult
    <2> QED BY <1>3, <1>5, <2>1 DEF b, id
  <1> QED BY <1>4, <1>5

\* The collection of a block is found unless the block is empty.
LEMMA CollectionFound ==
  ASSUME NEW h \in DOMAIN blocks
  PROVE  FullCollectionByID(blocks[h].txs) = IF blocks[h].txs = <<>> THEN {} ELSE {blocks[h].txs}
  <1>1. blocks[h] \in Range(blocks)
    BY DEF Range
  <1>2. blocks[h].txs \in {b.txs : b \in Range(blocks)}
    BY <1>1
  <1> QED BY <1>2 DEF FullCollectionByID

\* A transaction of a client is no transaction of the system.
LEMMA UserIsNotSystem ==
  ASSUME NEW t \in Txs, NEW sys, IsSystem(sys)
  PROVE  t \notin Callbacks /\ t \notin Range(sys) /\ t # Process /\ t # Chunk
  <1>1. Range(sys) \subseteq Callbacks \cup {Process, Chunk}
    BY DEF IsSystem, Range
  <1> QED BY <1>1, NamesAssumption

\* The result of a transaction of a stored block is found, and is pending only while the
\* block is held.
LEMMA ResultFound ==
  ASSUME ReadInv, NEW h \in DOMAIN blocks \ {0}, NEW t \in Range(blocks[h].txs)
  PROVE  /\ t \in Txs
         /\ GetTransactionResult(t) = IF Held(blocks[h]) THEN Pending
                                      ELSE SealedResult(t, blocks[h], blocks[h].results[t])
         /\ GetTransaction(t) = {t}
         /\ blocks[h].results[t] \in Completed
  <1> DEFINE b == blocks[h]
  <1>0. /\ latest \in Nat /\ DOMAIN blocks = 0..latest /\ pending.height \in Nat
        /\ \A g \in 0..latest : blocks[g].height = g
        /\ pending.height = latest + 1 \/ (pending.height = latest /\ pending.finalized)
    BY DEF ReadInv, ChainInv, TypeOK, ChainLinked, PendingBlocks
  <1>1. h \in 1..latest /\ h \in 0..latest /\ b.txs \in Seq(Txs) /\ IsSystem(b.sys)
    BY BlockAbove
  <1>2. t \in Txs
    BY <1>1 DEF Range
  <1>3. t \notin Callbacks
    BY <1>1, <1>2, UserIsNotSystem
  <1>4. \A g \in DOMAIN blocks : t \in Range(blocks[g].txs) => g = h
    <2> SUFFICES ASSUME NEW g \in DOMAIN blocks, t \in Range(blocks[g].txs) PROVE g = h
      OBVIOUS
    <2>1. blocks[g].txs \in Seq(Txs)
      BY DEF ReadInv, ChainInv, TypeOK, Blocks
    <2>2. PICK i \in 1..Len(blocks[g].txs) : blocks[g].txs[i] = t
      BY <2>1 DEF Range
    <2>3. PICK j \in 1..Len(b.txs) : b.txs[j] = t
      BY <1>1 DEF Range
    <2> QED BY <2>2, <2>3 DEF ReadInv, PoolInv, SealedAtMostOnce
  <1>5. \A g \in DOMAIN blocks : (blocks[g].results[t] # "none") <=> (g = h)
    BY <1>2, <1>4 DEF ReadInv, LedgerInv, SealedHasResult
  <1>6. {g \in DOMAIN blocks : t \in Txs /\ blocks[g].results[t] # "none"} = {h}
    BY <1>2, <1>5
  <1>7. TransactionResultByID(t) = {SealedResult(t, blocks[h], blocks[h].results[t])}
    BY <1>6 DEF TransactionResultByID
  <1>8. ContainsTransaction(pending, t) <=> Held(b)
    <2>1. ASSUME ContainsTransaction(pending, t) PROVE Held(b)
      <3>1. Stored(t) /\ t \in Range(pending.txs)
        BY <2>1 DEF Stored, ContainsTransaction
      <3>2. pending.height = latest /\ t \in Range(blocks[latest].txs)
        BY <3>1 DEF ReadInv, PendingInv
      <3>3. latest = h
        BY <1>0, <1>4, <3>2
      <3> QED BY <1>0, <3>2, <3>3 DEF Held
    <2>2. ASSUME Held(b) PROVE ContainsTransaction(pending, t)
      <3>1. pending.height = latest /\ h = latest
        BY <1>0, <1>1, <2>2 DEF Held
      <3> QED BY <3>1 DEF ReadInv, PendingInv, ContainsTransaction
    <2> QED BY <2>1, <2>2
  <1>9. OrUnknown(TransactionResultByID(t)) = SealedResult(t, blocks[h], blocks[h].results[t])
    BY <1>7, Answers
  <1>10. GetTransaction(t) = {t}
    BY DEF GetTransaction
  <1>11. blocks[h].results[t] \in Completed
    <2>1. blocks[h].results \in Results
      BY DEF ReadInv, ChainInv, TypeOK, Blocks
    <2> QED BY <1>2, <1>5, <2>1 DEF Results
  <1> QED BY <1>2, <1>3, <1>8, <1>9, <1>10, <1>11 DEF GetTransactionResult

-----------------------------------------------------------------------------
(* The results of a block                                                  *)

AllOf(b) == b.txs \o b.sys

\* What clients are to be told of the transactions of a block.
Expected(b) ==
    [i \in 1..Len(AllOf(b)) |->
        IF i > Len(b.txs) THEN SealedResult(AllOf(b)[i], b, SystemCode(b, AllOf(b)[i]))
        ELSE IF Held(b) THEN Pending
        ELSE SealedResult(AllOf(b)[i], b, b.results[AllOf(b)[i]])]

\* A position of a concatenation is one of the first sequence or one of the second.
Places(n, m) ==
    \A i \in 1..(n + m) : \/ i \in 1..n /\ ~(i > n)
                          \/ i - n \in 1..m /\ i > n /\ n + (i - n) = i /\ ~(i \in 1..n)

\* r is s, of length n, followed by t, of length m.
Joined(r, s, n, t, m) ==
    /\ n \in Nat /\ m \in Nat /\ Len(s) = n /\ Len(t) = m
    /\ Len(r) = n + m /\ DOMAIN r = 1..(n + m)
    /\ \A i \in 1..n : r[i] = s[i] /\ s[i] \in Range(s)
    /\ \A i \in 1..m : r[n + i] = t[i] /\ t[i] \in Range(t)
    /\ Places(n, m)

LEMMA Concatenated ==
  ASSUME NEW S, NEW T, NEW s \in Seq(S), NEW t \in Seq(T)
  PROVE  Joined(s \o t, s, Len(s), t, Len(t))
  <1>1. /\ Len(s) \in Nat /\ Len(t) \in Nat /\ DOMAIN s = 1..Len(s) /\ DOMAIN t = 1..Len(t)
        /\ s \in Seq(S \cup T) /\ t \in Seq(S \cup T)
    BY LenProperties
  <1>2. /\ s \o t \in Seq(S \cup T) /\ Len(s \o t) = Len(s) + Len(t)
        /\ \A i \in 1..(Len(s) + Len(t)) : (s \o t)[i] = IF i <= Len(s) THEN s[i] ELSE t[i - Len(s)]
    BY <1>1, ConcatProperties
  <1>3. DOMAIN (s \o t) = 1..(Len(s) + Len(t))
    BY <1>2, LenProperties
  <1>4. PICK n \in Nat, m \in Nat : n = Len(s) /\ m = Len(t)
    BY <1>1
  <1>5. \A i \in 1..n : i \in 1..(n + m) /\ i <= n
    BY <1>4
  <1>6. \A i \in 1..m : n + i \in 1..(n + m) /\ ~(n + i <= n) /\ (n + i) - n = i
    BY <1>4
  <1>7. Places(n, m)
    <2>1. ASSUME NEW i \in 1..(n + m), i <= n PROVE i \in 1..n /\ ~(i > n)
      BY <2>1
    <2>2. ASSUME NEW i \in 1..(n + m), ~(i <= n)
          PROVE  i - n \in 1..m /\ i > n /\ n + (i - n) = i /\ ~(i \in 1..n)
      BY <2>2
    <2> QED BY <2>1, <2>2 DEF Places
  <1>8. \A i \in 1..n : (s \o t)[i] = s[i]
    BY <1>2, <1>4, <1>5
  <1>9. \A i \in 1..m : (s \o t)[n + i] = t[i]
    BY <1>2, <1>4, <1>6
  <1>10. /\ \A i \in 1..n : s[i] \in Range(s)
         /\ \A i \in 1..m : t[i] \in Range(t)
    BY <1>1, <1>4 DEF Range
  <1> QED BY <1>1, <1>2, <1>3, <1>4, <1>7, <1>8, <1>9, <1>10 DEF Joined

\* The transactions of clients come first, then those of the system.
LEMMA AllOfBlock ==
  ASSUME ReadInv, NEW h \in DOMAIN blocks \ {0}
  PROVE  \E n \in Nat, m \in Nat \ {0} : Joined(AllOf(blocks[h]), blocks[h].txs, n, blocks[h].sys, m)
  <1>1. /\ blocks[h].txs \in Seq(Txs) /\ blocks[h].sys \in Seq(Callbacks \cup {Process, Chunk})
        /\ Len(blocks[h].sys) \in Nat \ {0} /\ Len(blocks[h].txs) \in Nat
    BY BlockAbove DEF IsSystem
  <1> QED BY <1>1, Concatenated DEF AllOf

\* One by one, the queries find what is expected.
LEMMA ExpectedFound ==
  ASSUME ReadInv, NEW h \in DOMAIN blocks \ {0}, NEW i \in 1..Len(AllOf(blocks[h]))
  PROVE  LET b == blocks[h]
             x == AllOf(blocks[h])[i]
         IN  /\ i > Len(b.txs) => /\ x \in Range(b.sys) /\ x \notin Txs
                                  /\ Expected(b)[i] = SealedResult(x, b, SystemCode(b, x))
                                  /\ getSystemTransactionResult(BlockID(b), x) = Expected(b)[i]
                                  /\ GetSystemTransactionResult(x, BlockID(b)) = {Expected(b)[i]}
             /\ ~(i > Len(b.txs)) => /\ x \in Range(b.txs) /\ x \in Txs
                                     /\ Expected(b)[i] = IF Held(b) THEN Pending
                                                         ELSE SealedResult(x, b, b.results[x])
                                     /\ GetTransactionResult(x) = Expected(b)[i]
                                     /\ GetSystemTransactionResult(x, BlockID(b)) = {}
             /\ GetTransaction(x) = {x}
  <1> DEFINE b == blocks[h]
             x == AllOf(b)[i]
  <1>0. PICK n \in Nat, m \in Nat \ {0} : Joined(AllOf(b), b.txs, n, b.sys, m)
    BY AllOfBlock
  <1>l. n = Len(b.txs) /\ m = Len(b.sys)
    BY <1>0 DEF Joined
  <1>1. /\ n \in Nat /\ m \in Nat /\ i \in 1..(n + m)
        /\ \/ i \in 1..n /\ ~(i > n)
           \/ i - n \in 1..m /\ i > n /\ n + (i - n) = i
    BY <1>0 DEF Joined, Places
  <1>2. i \in 1..n => x \in Range(b.txs)
    BY <1>0 DEF Joined
  <1>3. i - n \in 1..m /\ n + (i - n) = i => x \in Range(b.sys)
    <2>1. \A j \in 1..m : AllOf(b)[n + j] \in Range(b.sys)
      BY <1>0 DEF Joined
    <2> QED BY <2>1
  <1>4. /\ i > n => Expected(b)[i] = SealedResult(x, b, SystemCode(b, x))
        /\ ~(i > n) => Expected(b)[i] = IF Held(b) THEN Pending ELSE SealedResult(x, b, b.results[x])
    BY <1>l, <1>1 DEF Expected
  <1>5. IsSystem(b.sys)
    BY BlockAbove
  <1>6. CASE i > n
    <2>1. x \in Range(b.sys)
      BY <1>1, <1>3, <1>6
    <2>2. x \notin Txs
      BY <1>5, <2>1, UserIsNotSystem
    <2>3. GetTransaction(x) = {x}
      BY <2>1 DEF GetTransaction
    <2> QED BY <1>l, <1>4, <1>6, <2>1, <2>2, <2>3, SystemFound
  <1>7. CASE ~(i > n)
    <2>1. x \in Range(b.txs)
      BY <1>1, <1>2, <1>7
    <2>2. /\ x \in Txs /\ GetTransaction(x) = {x}
          /\ GetTransactionResult(x) = IF Held(b) THEN Pending ELSE SealedResult(x, b, b.results[x])
      BY <2>1, ResultFound
    <2>3. x \notin Range(b.sys)
      BY <1>5, <2>2, UserIsNotSystem
    <2>4. GetSystemTransactionResult(x, BlockID(b)) = {}
      BY <2>3, SystemFound
    <2> QED BY <1>l, <1>4, <1>7, <2>1, <2>2, <2>4
  <1> QED BY <1>6, <1>7

\* So do the queries for all of a block.
LEMMA ResultsOfBlock ==
  ASSUME ReadInv, NEW h \in DOMAIN blocks \ {0}
  PROVE  /\ GetTransactionResultsByBlockID(BlockID(blocks[h])) = {Expected(blocks[h])}
         /\ GetTransactionsByBlockID(BlockID(blocks[h])) = {AllOf(blocks[h])}
         /\ GetLastSystemTransactionResult(BlockID(blocks[h]))
              = {Expected(blocks[h])[Len(AllOf(blocks[h]))]}
  <1> DEFINE b == blocks[h]
             id == BlockID(b)
             user == [i \in 1..Len(b.txs) |-> GetTransactionResult(b.txs[i])]
             system == [i \in 1..Len(b.sys) |-> getSystemTransactionResult(id, b.sys[i])]
  <1>j. PICK n \in Nat, m \in Nat \ {0} : Joined(AllOf(b), b.txs, n, b.sys, m)
    BY AllOfBlock
  <1>0. n = Len(b.txs) /\ m = Len(b.sys)
    BY <1>j DEF Joined
  <1>1. BlockByID(id) = {b} /\ SystemTransactionsForBlockID(id) = {b.sys}
    BY BlockAbove, BlockFound, SystemFound
  <1>2. /\ n \in Nat /\ m \in Nat \ {0} /\ Len(AllOf(b)) = n + m
        /\ \A i \in 1..n : AllOf(b)[i] = b.txs[i]
        /\ \A i \in 1..m : AllOf(b)[n + i] = b.sys[i]
        /\ Places(n, m)
    BY <1>j DEF Joined
  <1>3. \A i \in 1..n : user[i] = Expected(b)[i]
    <2> SUFFICES ASSUME NEW i \in 1..n PROVE GetTransactionResult(b.txs[i]) = Expected(b)[i]
      BY <1>0
    <2>1. i \in 1..(n + m) /\ ~(i > n) /\ AllOf(b)[i] = b.txs[i]
      BY <1>2
    <2>2. i \in 1..Len(AllOf(b)) /\ ~(i > Len(b.txs))
      BY <1>0, <1>2, <2>1
    <2>3. GetTransactionResult(AllOf(b)[i]) = Expected(b)[i]
      BY <2>2, ExpectedFound
    <2> QED BY <2>1, <2>3
  <1>4. \A i \in 1..m : system[i] = Expected(b)[n + i]
    <2> SUFFICES ASSUME NEW i \in 1..m
                 PROVE  getSystemTransactionResult(id, b.sys[i]) = Expected(b)[n + i]
      BY <1>0
    <2>1. n + i \in 1..(n + m) /\ n + i > n /\ AllOf(b)[n + i] = b.sys[i]
      BY <1>2
    <2>2. n + i \in 1..Len(AllOf(b)) /\ n + i > Len(b.txs)
      BY <1>0, <1>2, <2>1
    <2>3. getSystemTransactionResult(id, AllOf(b)[n + i]) = Expected(b)[n + i]
      BY <2>2, ExpectedFound
    <2> QED BY <2>1, <2>3
  <1>5. DOMAIN Expected(b) = 1..(n + m) /\ Expected(b) = [i \in 1..(n + m) |-> Expected(b)[i]]
    BY <1>2 DEF Expected
  <1>6. GetTransactionResultsByBlockID(id) = {user \o system}
    <2> DEFINE both(c, sys) == [i \in 1..Len(c.txs) |-> GetTransactionResult(c.txs[i])]
                              \o [i \in 1..Len(sys) |-> getSystemTransactionResult(id, sys[i])]
    <2>1. GetTransactionResultsByBlockID(id) = {both(c, sys) : c \in {b}, sys \in {b.sys}}
      BY <1>1 DEF GetTransactionResultsByBlockID
    <2>2. both(b, b.sys) = user \o system
      OBVIOUS
    <2> HIDE DEF both, user, system
    <2> QED BY <2>1, <2>2
  <1>7. user \o system = Expected(b)
    <2> DEFINE V == {Expected(b)[i] : i \in 1..(n + m)}
    <2>1. \A i \in 1..n : i \in 1..(n + m)
      BY <1>2
    <2>2. \A i \in 1..m : n + i \in 1..(n + m)
      BY <1>2
    <2>3. user \in [1..n -> V] /\ system \in [1..m -> V]
      BY <1>0, <1>3, <1>4, <2>1, <2>2
    <2> HIDE DEF user, system, V
    <2>4. user \in Seq(V) /\ system \in Seq(V) /\ Len(user) = n /\ Len(system) = m
      BY <1>2, <2>3
    <2>j. Joined(user \o system, user, n, system, m)
      BY <2>4, Concatenated
    <2>5. /\ DOMAIN (user \o system) = 1..(n + m)
          /\ \A i \in 1..n : (user \o system)[i] = user[i]
          /\ \A i \in 1..m : (user \o system)[n + i] = system[i]
      BY <2>j DEF Joined
    <2>6. ASSUME NEW i \in 1..(n + m) PROVE (user \o system)[i] = Expected(b)[i]
      <3>1. CASE i \in 1..n
        BY <1>3, <2>5, <3>1
      <3>2. ASSUME NEW j \in 1..m, i = n + j PROVE (user \o system)[i] = Expected(b)[i]
        BY <1>4, <2>5, <3>2
      <3>3. i \in 1..n \/ (i - n \in 1..m /\ n + (i - n) = i)
        BY <1>2 DEF Places
      <3> QED BY <3>1, <3>2, <3>3
    <2>7. user \o system \in Seq(V)
      BY <2>4, ConcatProperties
    <2>8. PICK w : w = user \o system
      OBVIOUS
    <2>9. w \in Seq(V) /\ DOMAIN w = 1..(n + m) /\ \A i \in 1..(n + m) : w[i] = Expected(b)[i]
      BY <2>5, <2>6, <2>7, <2>8
    <2>10. w = [i \in 1..(n + m) |-> w[i]]
      BY <2>9
    <2>11. w = Expected(b)
      BY <1>5, <2>9, <2>10
    <2> QED BY <2>8, <2>11
  <1>8. GetTransactionsByBlockID(id) = {AllOf(b)}
    <2>1. \A x \in Range(b.txs) : GetTransaction(x) # {}
      BY ResultFound
    <2> DEFINE known == {y \in BlockByID(id) : \A x \in Range(y.txs) : GetTransaction(x) # {}}
    <2>2. known = {b}
      BY <1>1, <2>1
    <2>3. GetTransactionsByBlockID(id)
            = {y.txs \o sys : y \in known, sys \in SystemTransactionsForBlockID(id)}
      BY DEF GetTransactionsByBlockID
    <2> HIDE DEF known, id, b
    <2>4. {y.txs \o sys : y \in {b}, sys \in {b.sys}} = {b.txs \o b.sys}
      OBVIOUS
    <2> QED BY <1>1, <2>2, <2>3, <2>4 DEF AllOf
  <1>9. GetLastSystemTransactionResult(id) = {Expected(b)[Len(AllOf(b))]}
    <2>1. m \in 1..m /\ Len(b.sys) = m
      BY <1>0, <1>2
    <2>2. getSystemTransactionResult(id, b.sys[m]) = Expected(b)[n + m]
      BY <1>4, <2>1
    <2> HIDE DEF b, id
    <2>3. GetLastSystemTransactionResult(id) = {getSystemTransactionResult(id, b.sys[m])}
      BY <1>1, <2>1 DEF GetLastSystemTransactionResult
    <2> QED BY <1>2, <2>2, <2>3
  <1> QED BY <1>6, <1>7, <1>8, <1>9

\* The adapter's answers about a block.
LEMMA BlockAnswers ==
  ASSUME ReadInv, NEW h \in 0..latest
  PROVE  /\ AdapterGetBlockByHeight(h) = Ok(SealedBlock(blocks[h]))
         /\ AdapterGetBlockByID(BlockID(blocks[h])) = Ok(SealedBlock(blocks[h]))
         /\ h = latest => AdapterGetLatestBlock = Ok(SealedBlock(blocks[h]))
         /\ SDKGetBlockByHeight(h) = Ok(SealedBlock(blocks[h]))
         /\ SDKGetBlockByID(BlockID(blocks[h])) = Ok(SealedBlock(blocks[h]))
         /\ SDKGetBlockHeaderByID(BlockID(blocks[h])) = Ok(SealedBlock(blocks[h]))
         /\ h = latest => SDKGetLatestBlock = Ok(SealedBlock(blocks[h]))
  <1>1. BlockByHeight(h) = {blocks[h]} /\ BlockByID(BlockID(blocks[h])) = {blocks[h]}
    BY BlockFound
  <1>2. {SealedBlock(b) : b \in {blocks[h]}} = {SealedBlock(blocks[h])}
    OBVIOUS
  <1>3. \A code : Answer({SealedBlock(b) : b \in {blocks[h]}}, code) = Ok(SealedBlock(blocks[h]))
    BY <1>2, Answers
  <1>4. AdapterGetBlockByHeight(h) = Ok(SealedBlock(blocks[h]))
    BY <1>1, <1>3 DEF AdapterGetBlockByHeight
  <1>5. AdapterGetBlockByID(BlockID(blocks[h])) = Ok(SealedBlock(blocks[h]))
    BY <1>1, <1>3 DEF AdapterGetBlockByID
  <1>6. h = latest => AdapterGetLatestBlock = Ok(SealedBlock(blocks[h]))
    BY <1>1, <1>3 DEF AdapterGetLatestBlock, GetLatestBlock
  <1>7. SDKGetBlockByHeight(h) = Ok(SealedBlock(blocks[h]))
    BY <1>1, <1>3 DEF SDKGetBlockByHeight
  <1>8. SDKGetBlockByID(BlockID(blocks[h])) = Ok(SealedBlock(blocks[h]))
    BY <1>1, <1>3 DEF SDKGetBlockByID
  <1>9. SDKGetBlockHeaderByID(BlockID(blocks[h])) = Ok(SealedBlock(blocks[h]))
    BY <1>1, <1>3 DEF SDKGetBlockHeaderByID, Passed
  <1>10. h = latest => SDKGetLatestBlock = Ok(SealedBlock(blocks[h]))
    BY <1>1, <1>3 DEF SDKGetLatestBlock, GetLatestBlock
  <1> QED BY <1>4, <1>5, <1>6, <1>7, <1>8, <1>9, <1>10

LEMMA ReadInvResults ==
  ASSUME ReadInv
  PROVE  BlockResultsComplete
  <1> SUFFICES ASSUME NEW h \in DOMAIN blocks \ {0}
               PROVE  LET b == blocks[h]
                          id == BlockID(b)
                      IN  /\ AdapterGetBlockByHeight(h) = Ok(SealedBlock(b))
                          /\ AdapterGetBlockByID(b.parent) = AdapterGetBlockByHeight(h - 1)
                          /\ AdapterGetFullCollectionByID(b.txs) =
                                (IF b.txs = <<>> THEN [code |-> "not found"] ELSE Ok(b.txs))
                          /\ AdapterGetTransactionsByBlockID(id) = Ok(AllOf(b))
                          /\ AdapterGetTransactionResultsByBlockID(id) = Ok(Expected(b))
                          /\ \E i \in (Len(b.txs) + 1)..Len(AllOf(b)) :
                                GetLastSystemTransactionResult(id) = {Expected(b)[i]}
                          /\ \A i \in 1..Len(AllOf(b)) :
                                /\ AdapterGetTransaction(AllOf(b)[i]) = Ok(AllOf(b)[i])
                                /\ AdapterGetTransactionResult(AllOf(b)[i], id) = Expected(b)[i]
                          /\ h = latest => AdapterGetLatestBlock = AdapterGetBlockByID(id)
    BY DEF BlockResultsComplete, AllOf, Expected
  <1> DEFINE b == blocks[h]
             id == BlockID(b)
  <1>1. /\ h \in 0..latest /\ h - 1 \in 0..latest /\ b.parent = BlockID(blocks[h - 1])
    BY BlockAbove
  <1>2. /\ AdapterGetBlockByHeight(h) = Ok(SealedBlock(b))
        /\ AdapterGetBlockByID(b.parent) = AdapterGetBlockByHeight(h - 1)
        /\ h = latest => AdapterGetLatestBlock = AdapterGetBlockByID(id)
    BY <1>1, BlockAnswers
  <1>3. AdapterGetFullCollectionByID(b.txs) = (IF b.txs = <<>> THEN [code |-> "not found"] ELSE Ok(b.txs))
    BY CollectionFound, Answers DEF AdapterGetFullCollectionByID
  <1>4. /\ AdapterGetTransactionsByBlockID(id) = Ok(AllOf(b))
        /\ AdapterGetTransactionResultsByBlockID(id) = Ok(Expected(b))
        /\ GetLastSystemTransactionResult(id) = {Expected(b)[Len(AllOf(b))]}
    BY ResultsOfBlock, Answers DEF AdapterGetTransactionsByBlockID, AdapterGetTransactionResultsByBlockID
  <1>5. ASSUME NEW i \in 1..Len(AllOf(b))
        PROVE  /\ AdapterGetTransaction(AllOf(b)[i]) = Ok(AllOf(b)[i])
               /\ AdapterGetTransactionResult(AllOf(b)[i], id) = Expected(b)[i]
    <2>1. id # ZeroID
      BY <1>1, BlockFound
    <2>2. AdapterGetTransaction(AllOf(b)[i]) = Ok(AllOf(b)[i])
      BY ExpectedFound, Answers DEF AdapterGetTransaction
    <2>3. AdapterGetTransactionResult(AllOf(b)[i], id) = Expected(b)[i]
      <3>1. \/ GetSystemTransactionResult(AllOf(b)[i], id) = {Expected(b)[i]}
            \/ /\ GetSystemTransactionResult(AllOf(b)[i], id) = {}
               /\ GetTransactionResult(AllOf(b)[i]) = Expected(b)[i]
        BY ExpectedFound
      <3> HIDE DEF b, id
      <3> QED BY <2>1, <3>1 DEF AdapterGetTransactionResult
    <2> QED BY <2>2, <2>3
  <1>6. \E i \in (Len(b.txs) + 1)..Len(AllOf(b)) : GetLastSystemTransactionResult(id) = {Expected(b)[i]}
    <2>1. PICK n \in Nat, m \in Nat \ {0} : Joined(AllOf(b), b.txs, n, b.sys, m)
      BY AllOfBlock
    <2>2. Len(b.txs) = n /\ Len(AllOf(b)) = n + m
      BY <2>1 DEF Joined
    <2>3. Len(AllOf(b)) \in (Len(b.txs) + 1)..Len(AllOf(b))
      BY <2>2
    <2> QED BY <1>4, <2>3
  <1> QED BY <1>2, <1>3, <1>4, <1>5, <1>6

LEMMA QueriesRefine == QueriesSpec => Spec
  <1>1. QueriesInit => Init
    BY DEF QueriesInit
  <1>2. [QueriesNext]_<<vars, indexes>> => [Next]_vars
    BY DEF QueriesNext, vars
  <1> QED BY <1>1, <1>2, PTL DEF QueriesSpec, Spec

\* Whatever failed before: asking for the results of a stored block, all of them or one by one,
\* gives that of each of its transactions in the order of execution and none of
\* another block, and only while its commit is held do those of clients read as pending.
THEOREM BlockResultsAreComplete == QueriesSpec => []BlockResultsComplete
  <1>1. ReadInv => BlockResultsComplete
    BY ReadInvResults
  <1> QED BY <1>1, ReadInvariant, QueriesRefine, PTL

-----------------------------------------------------------------------------
(* Results and state                                                       *)

\* What clients see of the work of t at a height.
Sees(t, h) == t \in blocks[h].ledger.applied

NotFound == [code |-> "not found"]
Internal == [code |-> "internal"]

\* All queries about the state at a height agree on what is seen of t.
LEMMA StateAnswers ==
  ASSUME ReadInv, NEW h \in 0..latest, NEW t
  PROVE  LET id == BlockID(blocks[h]) IN
         /\ AdapterGetAccountAtBlockHeight(t, h) = IF Sees(t, h) THEN Ok(t) ELSE NotFound
         /\ AdapterGetAccountBalanceAtBlockHeight(t, h) = IF Sees(t, h) THEN Ok(t) ELSE NotFound
         /\ AdapterExecuteScriptAtBlockID(t, id) = Ok(Sees(t, h))
         /\ AdapterExecuteScriptAtBlockHeight(t, h) = Ok(Sees(t, h))
         /\ SDKGetAccountAtBlockHeight(t, h).code = IF Sees(t, h) THEN "ok" ELSE "error"
         /\ SDKExecuteScriptAtBlockID(t, id) = Ok(Sees(t, h))
         /\ SDKExecuteScriptAtBlockHeight(t, h) = Ok(Sees(t, h))
         /\ h = latest =>
              /\ AdapterGetAccountAtLatestBlock(t) = IF Sees(t, h) THEN Ok(t) ELSE Internal
              /\ AdapterExecuteScriptAtLatestBlock(t) = Ok(Sees(t, h))
              /\ SDKExecuteScriptAtLatestBlock(t) = Ok(Sees(t, h))
              /\ SDKGetAccountAtLatestBlock(t).code = IF Sees(t, h) THEN "ok" ELSE "error"
  <1> DEFINE b == blocks[h]
             id == BlockID(b)
  <1>1. /\ BlockByHeight(h) = {b} /\ BlockByID(id) = {b} /\ b.height = h /\ h \in DOMAIN blocks
    BY BlockFound
  <1>2. GetRegisterValues(t, h) = Sees(t, h)
    BY <1>1 DEF GetRegisterValues, LedgerByHeight, Sees
  <1> HIDE DEF b, id
  <1>3. executeScriptAtBlockID(t, id) = {Sees(t, h)}
    <2>1. executeScriptAtBlockID(t, id) = {GetRegisterValues(t, c.height) : c \in {b}}
      BY <1>1 DEF executeScriptAtBlockID
    <2> QED BY <1>1, <1>2, <2>1
  <1>4. ExecuteScriptAtBlockHeight(t, h) = {Sees(t, h)}
    <2>1. ExecuteScriptAtBlockHeight(t, h) = UNION {executeScriptAtBlockID(t, BlockID(c)) : c \in {b}}
      BY <1>1 DEF ExecuteScriptAtBlockHeight
    <2>2. UNION {executeScriptAtBlockID(t, BlockID(c)) : c \in {b}} = executeScriptAtBlockID(t, id)
      BY DEF id
    <2> QED BY <1>3, <2>1, <2>2
  <1>5. {x \in {t} : GetAccountAtBlockHeight(x, h)} = IF Sees(t, h) THEN {t} ELSE {}
    BY <1>2 DEF GetAccountAtBlockHeight
  <1>6. h = latest => GetLatestBlock = {b}
    BY <1>1 DEF GetLatestBlock
  <1>7. h = latest => {x \in {t} : GetAccount(x)} = IF Sees(t, h) THEN {t} ELSE {}
    <2> SUFFICES ASSUME h = latest PROVE GetAccount(t) <=> Sees(t, h)
      OBVIOUS
    <2> QED BY <1>1, <1>2, <1>6 DEF GetAccount, GetAccountAtBlockHeight
  <1>8. h = latest => ExecuteScript(t) = {Sees(t, h)}
    <2> SUFFICES ASSUME h = latest PROVE ExecuteScript(t) = {Sees(t, h)}
      OBVIOUS
    <2>1. ExecuteScript(t) = UNION {executeScriptAtBlockID(t, BlockID(c)) : c \in {b}}
      BY <1>6 DEF ExecuteScript
    <2>2. UNION {executeScriptAtBlockID(t, BlockID(c)) : c \in {b}} = executeScriptAtBlockID(t, id)
      BY DEF id
    <2> QED BY <1>3, <2>1, <2>2
  <1>9. \A code : /\ Answer({Sees(t, h)}, code) = Ok(Sees(t, h))
                  /\ Answer(IF Sees(t, h) THEN {t} ELSE {}, code)
                       = IF Sees(t, h) THEN Ok(t) ELSE [code |-> code]
    BY Answers
  <1>10. Ok(t).code = "ok" /\ [code |-> "error"].code = "error"
    BY DEF Ok
  <1>11. UNION {ExecuteScriptAtBlockHeight(t, c.height) : c \in {b}} = {Sees(t, h)}
    <2>1. UNION {ExecuteScriptAtBlockHeight(t, c.height) : c \in {b}} = ExecuteScriptAtBlockHeight(t, h)
      BY <1>1
    <2> QED BY <1>4, <2>1
  <1>12. /\ AdapterGetAccountAtBlockHeight(t, h) = IF Sees(t, h) THEN Ok(t) ELSE NotFound
         /\ AdapterGetAccountBalanceAtBlockHeight(t, h) = IF Sees(t, h) THEN Ok(t) ELSE NotFound
         /\ SDKGetAccountAtBlockHeight(t, h).code = IF Sees(t, h) THEN "ok" ELSE "error"
    BY <1>5, <1>9, <1>10 DEF AdapterGetAccountAtBlockHeight, AdapterGetAccountBalanceAtBlockHeight,
       SDKGetAccountAtBlockHeight, Passed, NotFound
  <1>13. /\ AdapterExecuteScriptAtBlockID(t, id) = Ok(Sees(t, h))
         /\ AdapterExecuteScriptAtBlockHeight(t, h) = Ok(Sees(t, h))
         /\ SDKExecuteScriptAtBlockHeight(t, h) = Ok(Sees(t, h))
    BY <1>3, <1>4, <1>9 DEF AdapterExecuteScriptAtBlockID, AdapterExecuteScriptAtBlockHeight,
       SDKExecuteScriptAtBlockHeight, Passed
  <1>14. SDKExecuteScriptAtBlockID(t, id) = Ok(Sees(t, h))
    BY <1>1, <1>9, <1>11 DEF SDKExecuteScriptAtBlockID, Passed
  <1>15. ASSUME h = latest
         PROVE  /\ AdapterGetAccountAtLatestBlock(t) = IF Sees(t, h) THEN Ok(t) ELSE Internal
                /\ AdapterExecuteScriptAtLatestBlock(t) = Ok(Sees(t, h))
                /\ SDKExecuteScriptAtLatestBlock(t) = Ok(Sees(t, h))
                /\ SDKGetAccountAtLatestBlock(t).code = IF Sees(t, h) THEN "ok" ELSE "error"
    <2>1. AdapterGetAccountAtLatestBlock(t) = IF Sees(t, h) THEN Ok(t) ELSE Internal
      BY <1>7, <1>9, <1>15 DEF AdapterGetAccountAtLatestBlock, Internal
    <2>2. SDKGetAccountAtLatestBlock(t).code = IF Sees(t, h) THEN "ok" ELSE "error"
      BY <1>7, <1>9, <1>10, <1>15 DEF SDKGetAccountAtLatestBlock, Passed
    <2>3. AdapterExecuteScriptAtLatestBlock(t) = Ok(Sees(t, h))
      BY <1>8, <1>9, <1>15 DEF AdapterExecuteScriptAtLatestBlock
    <2>4. SDKExecuteScriptAtLatestBlock(t) = Ok(Sees(t, h))
      BY <1>6, <1>9, <1>11, <1>15 DEF SDKExecuteScriptAtLatestBlock, Passed
    <2> QED BY <2>1, <2>2, <2>3, <2>4
  <1> QED BY <1>12, <1>13, <1>14, <1>15 DEF id, b

\* A transaction that is in no stored block has no result and no effect.
LEMMA NotStored ==
  ASSUME ReadInv, NEW t \in Txs, ~Stored(t)
  PROVE  /\ GetTransactionResult(t) \in {Pending, Unknown}
         /\ \A h \in 0..latest : ~Sees(t, h)
  <1>1. \A h \in DOMAIN blocks : blocks[h].results[t] = "none"
    BY DEF Stored, ReadInv, LedgerInv, SealedHasResult
  <1>2. {h \in DOMAIN blocks : t \in Txs /\ blocks[h].results[t] # "none"} = {}
    BY <1>1
  <1>3. TransactionResultByID(t) = {}
    BY <1>2 DEF TransactionResultByID
  <1>4. t \notin Callbacks
    BY NamesAssumption
  <1>5. OrUnknown(TransactionResultByID(t)) = Unknown
    BY <1>3, Answers
  <1>6. DOMAIN blocks = 0..latest
    BY DEF ReadInv, ChainInv, ChainLinked
  <1>7. \A h \in 0..latest : ~Sees(t, h)
    BY <1>1, <1>6 DEF Sees, ReadInv, LedgerInv, LedgerIsHistory
  <1> QED BY <1>4, <1>5, <1>7 DEF GetTransactionResult

\* The effect of a stored transaction is there from its block on, if it succeeded.
LEMMA StoredIsSeen ==
  ASSUME ReadInv, NEW h \in DOMAIN blocks \ {0}, NEW t \in Range(blocks[h].txs), NEW g \in 0..latest
  PROVE  Sees(t, g) <=> (h <= g /\ blocks[h].results[t] = "ok")
  <1>1. /\ latest \in Nat /\ DOMAIN blocks = 0..latest /\ t \in Txs
    BY ResultFound DEF ReadInv, ChainInv, TypeOK, ChainLinked
  <1>2. blocks[h].txs \in Seq(Txs)
    BY BlockAbove
  <1>3. \A f \in DOMAIN blocks : blocks[f].results[t] = "ok" => f = h
    <2> SUFFICES ASSUME NEW f \in DOMAIN blocks, blocks[f].results[t] = "ok" PROVE f = h
      OBVIOUS
    <2>1. t \in Range(blocks[f].txs) /\ blocks[f].txs \in Seq(Txs)
      BY <1>1 DEF ReadInv, LedgerInv, SealedHasResult, ChainInv, TypeOK, Blocks
    <2>2. PICK i \in 1..Len(blocks[f].txs) : blocks[f].txs[i] = t
      BY <2>1 DEF Range
    <2>3. PICK j \in 1..Len(blocks[h].txs) : blocks[h].txs[j] = t
      BY <1>2 DEF Range
    <2> QED BY <2>2, <2>3 DEF ReadInv, PoolInv, SealedAtMostOnce
  <1>4. Sees(t, g) <=> \E f \in DOMAIN blocks : f <= g /\ blocks[f].results[t] = "ok"
    BY <1>1 DEF Sees, ReadInv, LedgerInv, LedgerIsHistory
  <1> QED BY <1>1, <1>3, <1>4

LEMMA ReadInvState ==
  ASSUME ReadInv
  PROVE  ResultsMatchState
  <1> SUFFICES ASSUME NEW t \in Txs
               PROVE  LET r == GetTransactionResult(t)
                          seen == IF r.status = "sealed" /\ r.code = "ok" THEN Ok(t) ELSE NotFound
                      IN  /\ r.status = "sealed" =>
                                /\ AdapterGetAccountAtBlockHeight(t, r.height) = seen
                                /\ AdapterGetAccountBalanceAtBlockHeight(t, r.height) = seen
                                /\ AdapterExecuteScriptAtBlockID(t, r.block) = Ok(r.code = "ok")
                                /\ AdapterExecuteScriptAtBlockHeight(t, r.height - 1) = Ok(FALSE)
                                /\ SDKGetAccountAtBlockHeight(t, r.height).code
                                     = (IF r.code = "ok" THEN "ok" ELSE "error")
                                /\ SDKExecuteScriptAtBlockID(t, r.block) = Ok(r.code = "ok")
                                /\ SDKExecuteScriptAtBlockHeight(t, r.height - 1) = Ok(FALSE)
                          /\ (\A h \in DOMAIN blocks : ~Held(blocks[h])) =>
                                /\ AdapterGetAccountAtLatestBlock(t) = (IF seen.code = "ok" THEN seen ELSE Internal)
                                /\ AdapterExecuteScriptAtLatestBlock(t) = Ok(seen.code = "ok")
                                /\ SDKExecuteScriptAtLatestBlock(t) = Ok(seen.code = "ok")
                                /\ SDKGetAccountAtLatestBlock(t).code = "ok" <=> seen.code = "ok"
    BY DEF ResultsMatchState, NotFound, Internal
  <1>0. /\ latest \in Nat /\ latest \in 0..latest /\ DOMAIN blocks = 0..latest
    BY DEF ReadInv, ChainInv, TypeOK, ChainLinked
  <1>1. Ok(t).code = "ok" /\ NotFound.code = "not found"
    BY DEF Ok, NotFound
  <1>2. CASE ~Stored(t)
    <2>1. GetTransactionResult(t) \in {Pending, Unknown} /\ ~Sees(t, latest)
      BY <1>0, <1>2, NotStored
    <2>2. GetTransactionResult(t).status # "sealed"
      BY <2>1 DEF Pending, Unknown
    <2>3. Sees(t, latest) = FALSE
      BY <2>1 DEF Sees
    <2>4. /\ AdapterGetAccountAtLatestBlock(t) = Internal
          /\ AdapterExecuteScriptAtLatestBlock(t) = Ok(FALSE)
          /\ SDKExecuteScriptAtLatestBlock(t) = Ok(FALSE)
          /\ SDKGetAccountAtLatestBlock(t).code = "error"
      BY <1>0, <2>3, StateAnswers
    <2> QED BY <1>1, <2>2, <2>4
  <1>3. ASSUME NEW h \in DOMAIN blocks \ {0}, t \in Range(blocks[h].txs), Held(blocks[h])
        PROVE  GetTransactionResult(t).status # "sealed"
    <2>1. GetTransactionResult(t) = Pending
      BY <1>3, ResultFound
    <2> QED BY <2>1 DEF Pending
  <1>4. ASSUME NEW h \in DOMAIN blocks \ {0}, t \in Range(blocks[h].txs), ~Held(blocks[h])
        PROVE  LET r == GetTransactionResult(t)
                   seen == IF r.status = "sealed" /\ r.code = "ok" THEN Ok(t) ELSE NotFound
               IN  /\ AdapterGetAccountAtBlockHeight(t, r.height) = seen
                   /\ AdapterGetAccountBalanceAtBlockHeight(t, r.height) = seen
                   /\ AdapterExecuteScriptAtBlockID(t, r.block) = Ok(r.code = "ok")
                   /\ AdapterExecuteScriptAtBlockHeight(t, r.height - 1) = Ok(FALSE)
                   /\ SDKGetAccountAtBlockHeight(t, r.height).code
                        = (IF r.code = "ok" THEN "ok" ELSE "error")
                   /\ SDKExecuteScriptAtBlockID(t, r.block) = Ok(r.code = "ok")
                   /\ SDKExecuteScriptAtBlockHeight(t, r.height - 1) = Ok(FALSE)
                   /\ AdapterGetAccountAtLatestBlock(t) = (IF seen.code = "ok" THEN seen ELSE Internal)
                   /\ AdapterExecuteScriptAtLatestBlock(t) = Ok(seen.code = "ok")
                   /\ SDKExecuteScriptAtLatestBlock(t) = Ok(seen.code = "ok")
                   /\ SDKGetAccountAtLatestBlock(t).code = "ok" <=> seen.code = "ok"
    <2>1. h \in 0..latest /\ h - 1 \in 0..latest /\ blocks[h].height = h
      BY BlockAbove, BlockFound
    <2>2. PICK r : r = GetTransactionResult(t)
      OBVIOUS
    <2>3. r = SealedResult(t, blocks[h], blocks[h].results[t])
      BY <1>4, <2>2, ResultFound
    <2>4. /\ r.status = "sealed" /\ r.height = h /\ r.block = BlockID(blocks[h])
          /\ r.code = blocks[h].results[t]
      BY <2>1, <2>3 DEF SealedResult
    <2>5. /\ Sees(t, h) <=> r.code = "ok"
          /\ Sees(t, latest) <=> r.code = "ok"
          /\ ~Sees(t, h - 1)
      BY <1>0, <1>4, <2>1, <2>4, StoredIsSeen
    <2>6. /\ Sees(t, h) = (r.code = "ok") /\ Sees(t, latest) = (r.code = "ok")
          /\ Sees(t, h - 1) = FALSE
      BY <2>5 DEF Sees
    <2>7. /\ AdapterGetAccountAtBlockHeight(t, h) = IF r.code = "ok" THEN Ok(t) ELSE NotFound
          /\ AdapterGetAccountBalanceAtBlockHeight(t, h) = IF r.code = "ok" THEN Ok(t) ELSE NotFound
          /\ AdapterExecuteScriptAtBlockID(t, r.block) = Ok(r.code = "ok")
          /\ SDKGetAccountAtBlockHeight(t, h).code = (IF r.code = "ok" THEN "ok" ELSE "error")
          /\ SDKExecuteScriptAtBlockID(t, r.block) = Ok(r.code = "ok")
      <3>1. /\ AdapterGetAccountAtBlockHeight(t, h) = IF Sees(t, h) THEN Ok(t) ELSE NotFound
            /\ AdapterGetAccountBalanceAtBlockHeight(t, h) = IF Sees(t, h) THEN Ok(t) ELSE NotFound
            /\ SDKGetAccountAtBlockHeight(t, h).code = IF Sees(t, h) THEN "ok" ELSE "error"
        BY <2>1, StateAnswers
      <3>2. /\ AdapterExecuteScriptAtBlockID(t, BlockID(blocks[h])) = Ok(Sees(t, h))
            /\ SDKExecuteScriptAtBlockID(t, BlockID(blocks[h])) = Ok(Sees(t, h))
        BY <2>1, StateAnswers
      <3>3. /\ AdapterExecuteScriptAtBlockID(t, r.block) = Ok(r.code = "ok")
            /\ SDKExecuteScriptAtBlockID(t, r.block) = Ok(r.code = "ok")
        BY <2>4, <2>6, <3>2
      <3> QED BY <2>5, <3>1, <3>3
    <2>8. /\ AdapterExecuteScriptAtBlockHeight(t, h - 1) = Ok(FALSE)
          /\ SDKExecuteScriptAtBlockHeight(t, h - 1) = Ok(FALSE)
      BY <2>1, <2>6, StateAnswers
    <2>9. /\ AdapterGetAccountAtLatestBlock(t) = IF r.code = "ok" THEN Ok(t) ELSE Internal
          /\ AdapterExecuteScriptAtLatestBlock(t) = Ok(r.code = "ok")
          /\ SDKExecuteScriptAtLatestBlock(t) = Ok(r.code = "ok")
          /\ SDKGetAccountAtLatestBlock(t).code = IF r.code = "ok" THEN "ok" ELSE "error"
      BY <1>0, <2>6, StateAnswers
    <2> QED BY <1>1, <2>2, <2>4, <2>7, <2>8, <2>9
  <1>5. Stored(t) => \E h \in DOMAIN blocks \ {0} : t \in Range(blocks[h].txs)
    <2>1. Range(blocks[0].txs) = {}
      BY DEF ReadInv, SystemInv, GenesisBlock, Range
    <2> QED BY <2>1 DEF Stored
  <1> QED BY <1>2, <1>3, <1>4, <1>5

\* Whatever failed before: a client that is told a transaction succeeded in a block finds its effect in the
\* state of that block and of the latest one and not before, and finds no effect
\* of a transaction that is reverted, pending or unknown.
THEOREM ResultsMatchTheState == QueriesSpec => []ResultsMatchState
  <1>1. ReadInv => ResultsMatchState
    BY ReadInvState
  <1> QED BY <1>1, ReadInvariant, QueriesRefine, PTL

-----------------------------------------------------------------------------
(* All ways to a result, where neither the system transactions of a commit *)
(* nor the calls behind the store fail                                     *)

NothingFails == SystemNeverFails /\ "index" \notin Faults

\* No commit is held, the events of a block are those of its transactions, and a
\* callback runs in one block.
SoundInv == ReadInv /\ EntropyInv /\ EventsOncePerExecution /\ CallbackInv

\* Both indexes lead from each callback of the chain to its block.
IndexInv ==
    \A h \in 1..latest : \A c \in Range(blocks[h].sys) \cap Callbacks :
        /\ scheduledTransactionIndex[c] = BlockID(blocks[h])
        /\ scheduledTransactionBlockIndex[c] = BlockID(blocks[h])

LEMMA SoundInvariant ==
  ASSUME NothingFails
  PROVE  Spec => []SoundInv
  <1>1. SystemNeverFails /\ "index" \notin Faults
    BY DEF NothingFails
  <1>2. Spec => []EntropyInv
    BY <1>1, EntropyInvariant
  <1>3. Spec => []CallbackInv
    BY <1>1, CallbackInvariant
  <1>4. Spec => []EventsOncePerExecution
    BY <1>1, EventsAreOrdered
  <1> QED BY <1>2, <1>3, <1>4, ReadInvariant, PTL DEF SoundInv

\* A callback is in one block only.
OneBlockEach ==
    \A g, h \in 0..latest : \A c \in Callbacks :
        c \in Range(blocks[g].sys) /\ c \in Range(blocks[h].sys) => g = h

LEMMA CallbackOfOneBlock ==
  ASSUME SoundInv
  PROVE  OneBlockEach
  <1> SUFFICES ASSUME NEW g \in 0..latest, NEW h \in 0..latest, NEW c \in Callbacks,
                      c \in Range(blocks[g].sys), c \in Range(blocks[h].sys)
               PROVE  g = h
    BY DEF OneBlockEach
  <1>1. latest \in Nat /\ DOMAIN blocks = 0..latest
    BY DEF SoundInv, ReadInv, ChainInv, TypeOK, ChainLinked
  <1>2. latest \in DOMAIN blocks /\ g \in 0..latest
    BY <1>1
  <1>3. blocks[latest].ledger.cb[c] = "executed"
    BY <1>2 DEF SoundInv, CallbackInv
  <1>4. PICK f \in 0..latest : \A e \in (0..latest) \ {f} : c \notin Range(blocks[e].sys)
    BY <1>2, <1>3 DEF SoundInv, CallbackInv, CallbacksAccountedFor
  <1> QED BY <1>4

LEMMA IndexInvStep ==
  ASSUME SoundInv, SoundInv', OneBlockEach', IndexInv, [QueriesNext]_<<vars, indexes>>
  PROVE  IndexInv'
  <1>0. latest \in Nat /\ DOMAIN blocks = 0..latest /\ ChainInv /\ TypeOK
    BY DEF SoundInv, ReadInv, ChainInv, TypeOK, ChainLinked
  <1>1. CASE UNCHANGED <<vars, indexes>>
    BY <1>1 DEF vars, indexes, IndexInv
  <1>2. CASE QueriesNext
    <2>1. Shape /\ Index
      BY <1>0, <1>2, StepShape DEF QueriesNext
    <2>2. CASE UNCHANGED <<blocks, latest>>
      <3>1. UNCHANGED indexes
        BY <2>1, <2>2 DEF Index
      <3> QED BY <2>2, <3>1 DEF IndexInv, indexes
    <2>3. ASSUME NEW p, NEW due, StoreStep(p, due) PROVE IndexInv'
      <3>1. /\ latest' = latest + 1
            /\ \A h \in 0..latest : blocks'[h] = blocks[h]
        BY <1>0, <2>3, StoreFacts
      <3> DEFINE all == Range(blocks'[latest'].sys) \cap Callbacks
                 id == BlockID(blocks'[latest'])
      <3>2. pending'.height = latest' + 1
        BY DEF SoundInv, EntropyInv
      <3>3. latest' # latest
        BY <1>0, <3>1
      <3>4. WriteIndexes(blocks'[latest'], all, all)
        BY <2>1, <3>2, <3>3 DEF Index, IndexBlock
      <3>5. \A c \in Callbacks :
              /\ scheduledTransactionIndex'[c]
                   = IF c \in all THEN id ELSE scheduledTransactionIndex[c]
              /\ scheduledTransactionBlockIndex'[c]
                   = IF c \in all THEN id ELSE scheduledTransactionBlockIndex[c]
        BY <3>4 DEF WriteIndexes, Indexed
      <3> SUFFICES ASSUME NEW h \in 1..(latest + 1), NEW c \in Callbacks,
                          c \in Range(blocks'[h].sys)
                   PROVE  /\ scheduledTransactionIndex'[c] = BlockID(blocks'[h])
                          /\ scheduledTransactionBlockIndex'[c] = BlockID(blocks'[h])
        BY <3>1 DEF IndexInv, BlockID
      <3>6. h \in 1..latest \/ h = latest'
        BY <1>0, <3>1
      <3>7. CASE h = latest'
        BY <3>5, <3>7
      <3>8. CASE h \in 1..latest
        <4>1. h \in 0..latest' /\ latest' \in 0..latest' /\ h # latest'
          BY <1>0, <3>1, <3>8
        <4>2. c \notin Range(blocks'[latest'].sys)
          BY <4>1 DEF OneBlockEach
        <4>3. blocks'[h] = blocks[h] /\ c \in Range(blocks[h].sys)
          BY <1>0, <3>1, <3>8
        <4> QED BY <3>5, <3>8, <4>2, <4>3 DEF IndexInv
      <3> QED BY <3>6, <3>7, <3>8
    <2> QED BY <2>1, <2>2, <2>3 DEF Shape, KeepStep, RenewStep
  <1> QED BY <1>1, <1>2

\* The states that clients of a chain without such failures read.
LEMMA LookupInvariant ==
  ASSUME NothingFails
  PROVE  QueriesSpec => [](SoundInv /\ IndexInv)
  <1>1. Spec => []SoundInv
    BY SoundInvariant
  <1>2. QueriesInit => IndexInv
    <2> SUFFICES ASSUME QueriesInit PROVE IndexInv
      OBVIOUS
    <2>1. latest = 0
      BY DEF QueriesInit, Init
    <2> QED BY <2>1 DEF IndexInv
  <1>3. SoundInv => OneBlockEach
    BY CallbackOfOneBlock
  <1>4. SoundInv /\ SoundInv' /\ OneBlockEach' /\ IndexInv /\ [QueriesNext]_<<vars, indexes>> => IndexInv'
    BY IndexInvStep
  <1> QED BY <1>1, <1>2, <1>3, <1>4, QueriesRefine, PTL DEF QueriesSpec

\* Without failures behind the store no block is held.
LEMMA NothingHeld ==
  ASSUME SoundInv, NEW h \in 0..latest
  PROVE  ~Held(blocks[h])
  <1>1. latest \in Nat /\ blocks[h].height = h /\ pending.height = latest + 1
    BY DEF SoundInv, ReadInv, ChainInv, TypeOK, ChainLinked, EntropyInv
  <1> QED BY <1>1 DEF Held

\* The result of the transaction x of block b.
ResultIn(b, x) == SealedResult(x, b, IF x \in Txs THEN b.results[x] ELSE SystemCode(b, x))

LEMMA ExpectedIsSealed ==
  ASSUME SoundInv, NEW h \in DOMAIN blocks \ {0}
  PROVE  /\ Expected(blocks[h]) \in Seq(Range(Expected(blocks[h])))
         /\ Len(Expected(blocks[h])) = Len(AllOf(blocks[h])) /\ Len(AllOf(blocks[h])) \in Nat
         /\ DOMAIN Expected(blocks[h]) = 1..Len(AllOf(blocks[h]))
         /\ \A i \in 1..Len(AllOf(blocks[h])) :
               Expected(blocks[h])[i] = ResultIn(blocks[h], AllOf(blocks[h])[i])
  <1>0. ReadInv /\ h \in 0..latest
    BY BlockAbove DEF SoundInv
  <1>1. ~Held(blocks[h])
    BY <1>0, NothingHeld
  <1>2. ASSUME NEW i \in 1..Len(AllOf(blocks[h]))
        PROVE  Expected(blocks[h])[i] = ResultIn(blocks[h], AllOf(blocks[h])[i])
    <2>1. CASE i > Len(blocks[h].txs)
      BY <1>0, <2>1, ExpectedFound DEF ResultIn
    <2>2. CASE ~(i > Len(blocks[h].txs))
      BY <1>0, <1>1, <2>2, ExpectedFound DEF ResultIn
    <2> QED BY <2>1, <2>2
  <1>3. PICK k : k = Len(AllOf(blocks[h])) /\ k \in Nat
    <2>1. PICK n \in Nat, m \in Nat \ {0} : Joined(AllOf(blocks[h]), blocks[h].txs, n, blocks[h].sys, m)
      BY <1>0, AllOfBlock
    <2> QED BY <2>1 DEF Joined
  <1>4. DOMAIN Expected(blocks[h]) = 1..k /\ Expected(blocks[h]) = [i \in 1..k |-> Expected(blocks[h])[i]]
    BY <1>3 DEF Expected
  <1>5. PICK e : e = Expected(blocks[h])
    OBVIOUS
  <1>6. e \in [1..k -> Range(e)]
    BY <1>4, <1>5 DEF Range
  <1>7. e \in Seq(Range(e)) /\ Len(e) = k
    BY <1>3, <1>6
  <1> QED BY <1>2, <1>3, <1>4, <1>5, <1>7

\* The result at a position of a block.
LEMMA ResultAtIndex ==
  ASSUME SoundInv, NEW h \in DOMAIN blocks \ {0}
  PROVE  LET b == blocks[h]
             id == BlockID(blocks[h])
         IN  /\ \A i \in 1..Len(AllOf(b)) :
                   /\ AdapterGetTransactionResultByIndex(id, i - 1) = Ok(ResultIn(b, AllOf(b)[i]))
                   /\ SDKGetTransactionResultsByBlockID(id).value[i]
                        = SDKResult(ResultIn(b, AllOf(b)[i]))
             /\ AdapterGetTransactionResultByIndex(id, Len(AllOf(b))).code = "not found"
  <1> DEFINE b == blocks[h]
             id == BlockID(b)
             at(i) == {results[i + 1] :
                         results \in {r \in GetTransactionResultsByBlockID(id) : Len(r) > i}}
  <1>0. ReadInv
    BY DEF SoundInv
  <1>1. PICK e : e = Expected(b)
    OBVIOUS
  <1>2. PICK k \in Nat : k = Len(AllOf(b))
    BY ExpectedIsSealed
  <1>3. /\ Len(e) = k /\ DOMAIN e = 1..k
        /\ \A i \in 1..k : e[i] = ResultIn(b, AllOf(b)[i])
    BY <1>1, <1>2, ExpectedIsSealed
  <1>4. GetTransactionResultsByBlockID(id) = {e}
    BY <1>0, <1>1, ResultsOfBlock
  <1>5. \A i \in Nat : AdapterGetTransactionResultByIndex(id, i) = Answer(at(i), "not found")
    BY DEF AdapterGetTransactionResultByIndex
  <1>6. ASSUME NEW i \in 1..k
        PROVE  AdapterGetTransactionResultByIndex(id, i - 1) = Ok(ResultIn(b, AllOf(b)[i]))
    <2>1. i - 1 \in Nat /\ (i - 1) + 1 = i /\ k > i - 1
      BY <1>2
    <2>2. {r \in GetTransactionResultsByBlockID(id) : Len(r) > i - 1} = {e}
      BY <1>3, <1>4, <2>1
    <2>3. at(i - 1) = {e[i]}
      BY <2>1, <2>2
    <2> HIDE DEF at
    <2>4. Answer({e[i]}, "not found") = Ok(e[i])
      BY Answers
    <2> QED BY <1>3, <1>5, <2>1, <2>3, <2>4
  <1>7. AdapterGetTransactionResultByIndex(id, k).code = "not found"
    <2>1. {r \in GetTransactionResultsByBlockID(id) : Len(r) > k} = {}
      BY <1>2, <1>3, <1>4
    <2>2. at(k) = {}
      BY <2>1
    <2> HIDE DEF at
    <2>3. Answer({}, "not found") = [code |-> "not found"]
      BY Answers
    <2>4. AdapterGetTransactionResultByIndex(id, k) = [code |-> "not found"]
      BY <1>2, <1>5, <2>2, <2>3
    <2>5. [code |-> "not found"].code = "not found"
      OBVIOUS
    <2> QED BY <2>4, <2>5, Zenon
  <1>8. ASSUME NEW i \in 1..k
        PROVE  SDKGetTransactionResultsByBlockID(id).value[i] = SDKResult(ResultIn(b, AllOf(b)[i]))
    <2> DEFINE sdk(rs) == [j \in DOMAIN rs |-> SDKResult(rs[j])]
    <2>1. SDKGetTransactionResultsByBlockID(id)
            = Answer({sdk(rs) : rs \in GetTransactionResultsByBlockID(id)}, "error")
      BY DEF SDKGetTransactionResultsByBlockID, Passed
    <2>2. sdk(e)[i] = SDKResult(e[i])
      BY <1>3
    <2> HIDE DEF sdk
    <2>3. {sdk(rs) : rs \in GetTransactionResultsByBlockID(id)} = {sdk(e)}
      BY <1>4
    <2>4. SDKGetTransactionResultsByBlockID(id) = Ok(sdk(e))
      BY <2>1, <2>3, Answers
    <2>5. SDKGetTransactionResultsByBlockID(id).value = sdk(e)
      BY <2>4 DEF Ok
    <2> QED BY <1>3, <2>2, <2>5
  <1> QED BY <1>2, <1>6, <1>7, <1>8

\* The two adapters agree about a block.
LEMMA AdaptersAgree ==
  ASSUME SoundInv, NEW h \in DOMAIN blocks \ {0}
  PROVE  AnswersAgree(blocks[h])
  <1> DEFINE b == blocks[h]
             id == BlockID(b)
  <1>0. ReadInv
    BY DEF SoundInv
  <1>1. /\ h \in 0..latest /\ h - 1 \in 0..latest /\ b.parent = BlockID(blocks[h - 1])
        /\ b.height = h /\ id # ZeroID
    BY <1>0, BlockAbove, BlockFound
  <1>2. /\ SDKGetBlockByHeight(h) = AdapterGetBlockByID(id)
        /\ SDKGetBlockByID(id) = SDKGetBlockHeaderByHeight(h)
        /\ SDKGetBlockHeaderByID(b.parent) = AdapterGetBlockByHeight(h - 1)
        /\ h = latest => SDKGetLatestBlock = SDKGetBlockByID(id) /\ SDKGetLatestBlockHeader = SDKGetLatestBlock
    BY <1>0, <1>1, BlockAnswers DEF SDKGetBlockHeaderByHeight, SDKGetLatestBlockHeader
  <1>3. SDKGetCollectionByID(b.txs) = (IF b.txs = <<>> THEN [code |-> "error"] ELSE Ok(b.txs))
    BY <1>0, CollectionFound, Answers DEF SDKGetCollectionByID, Passed
  <1>4. SDKGetTransactionsByBlockID(id) = Ok(AllOf(b))
    BY <1>0, ResultsOfBlock, Answers DEF SDKGetTransactionsByBlockID, Passed
  <1>5. ASSUME NEW i \in 1..Len(AllOf(b))
        PROVE  LET x == AllOf(b)[i] IN
               /\ x \in Txs => /\ SDKGetTransaction(x) = Ok(x)
                               /\ SDKGetTransactionResult(x) = SDKResult(ResultIn(b, x))
               /\ x \notin Txs => AdapterGetSystemTransactionResult(x, id) = Ok(ResultIn(b, x))
    <2> DEFINE x == AllOf(b)[i]
    <2>1. Expected(b)[i] = ResultIn(b, x)
      BY ExpectedIsSealed
    <2>2. /\ x \in Txs => GetTransactionResult(x) = Expected(b)[i] /\ GetTransaction(x) = {x}
          /\ x \notin Txs => GetSystemTransactionResult(x, id) = {Expected(b)[i]}
      BY <1>0, ExpectedFound
    <2> HIDE DEF b, x, id
    <2>3. x \in Txs => SDKGetTransaction(x) = Ok(x)
      BY <2>2, Answers DEF SDKGetTransaction, Passed
    <2>4. x \in Txs => SDKGetTransactionResult(x) = SDKResult(ResultIn(b, x))
      BY <2>1, <2>2 DEF SDKGetTransactionResult
    <2>5. x \notin Txs => AdapterGetSystemTransactionResult(x, id) = Ok(ResultIn(b, x))
      BY <2>1, <2>2, Answers DEF AdapterGetSystemTransactionResult
    <2> QED BY <2>3, <2>4, <2>5 DEF x
  <1>6. /\ \A i \in 1..Len(AllOf(b)) :
              /\ AdapterGetTransactionResultByIndex(id, i - 1) = Ok(ResultIn(b, AllOf(b)[i]))
              /\ SDKGetTransactionResultsByBlockID(id).value[i] = SDKResult(ResultIn(b, AllOf(b)[i]))
        /\ AdapterGetTransactionResultByIndex(id, Len(AllOf(b))).code = "not found"
    BY ResultAtIndex
  <1> HIDE DEF b, id
  <1>7. /\ SDKGetBlockByHeight(b.height) = AdapterGetBlockByID(id)
        /\ SDKGetBlockByID(id) = SDKGetBlockHeaderByHeight(b.height)
        /\ SDKGetBlockHeaderByID(b.parent) = AdapterGetBlockByHeight(b.height - 1)
        /\ b.height = latest =>
             SDKGetLatestBlock = SDKGetBlockByID(id) /\ SDKGetLatestBlockHeader = SDKGetLatestBlock
    BY <1>1, <1>2
  <1>8. \A i \in 1..Len(b.txs \o b.sys) :
           LET x == (b.txs \o b.sys)[i]
               result == SealedResult(x, b, IF x \in Txs THEN b.results[x] ELSE SystemCode(b, x))
           IN  /\ AdapterGetTransactionResultByIndex(id, i - 1) = Ok(result)
               /\ SDKGetTransactionResultsByBlockID(id).value[i] = SDKResult(result)
               /\ IF x \in Txs
                  THEN /\ SDKGetTransaction(x) = Ok(x)
                       /\ SDKGetTransactionResult(x) = SDKResult(result)
                  ELSE AdapterGetSystemTransactionResult(x, id) = Ok(result)
    BY <1>5, <1>6 DEF AllOf, ResultIn
  <1> QED BY <1>3, <1>4, <1>6, <1>7, <1>8 DEF AnswersAgree, AllOf, id, b

\* All ways to a callback of the chain lead to its result.
LEMMA CallbackFound ==
  ASSUME SoundInv, IndexInv, NEW h \in DOMAIN blocks \ {0},
         NEW c \in Range(blocks[h].sys) \cap Callbacks
  PROVE  /\ AdapterGetScheduledTransactionResult(c) = Ok(SealedResult(c, blocks[h], SystemCode(blocks[h], c)))
         /\ GetTransactionResult(c) = SealedResult(c, blocks[h], SystemCode(blocks[h], c))
         /\ AdapterGetTransactionResult(c, BlockID(blocks[h])) = SealedResult(c, blocks[h], SystemCode(blocks[h], c))
  <1> DEFINE b == blocks[h]
             id == BlockID(b)
             r == SealedResult(c, b, SystemCode(b, c))
  <1>0. ReadInv /\ h \in 1..latest /\ h \in 0..latest /\ c \in Callbacks
    BY BlockAbove DEF SoundInv
  <1>1. scheduledTransactionIndex[c] = id /\ scheduledTransactionBlockIndex[c] = id /\ id # ZeroID
    BY <1>0, BlockFound DEF IndexInv
  <1>2. /\ SystemTransactionsForBlockID(id) = {b.sys} /\ c \in Range(b.sys)
        /\ getSystemTransactionResult(id, c) = r /\ GetSystemTransactionResult(c, id) = {r}
    BY <1>0, SystemFound
  <1>3. ~ContainsTransaction(pending, c)
    <2>1. pending.txs \in Seq(Txs)
      BY <1>0 DEF ReadInv, ChainInv, TypeOK, PendingBlocks
    <2>2. Range(pending.txs) \subseteq Txs
      BY <2>1 DEF Range
    <2> QED BY <1>0, <2>2, NamesAssumption DEF ContainsTransaction
  <1> HIDE DEF b, id, r
  <1>4. GetScheduledTransactionResult(c) = {r}
    BY <1>1, <1>2 DEF GetScheduledTransactionResult
  <1>5. AdapterGetScheduledTransactionResult(c) = Ok(r)
    BY <1>4, Answers DEF AdapterGetScheduledTransactionResult
  <1>6. GetTransactionResult(c) = r
    BY <1>0, <1>1, <1>2, <1>3 DEF GetTransactionResult
  <1>7. AdapterGetTransactionResult(c, id) = r
    BY <1>1, <1>2 DEF AdapterGetTransactionResult
  <1> QED BY <1>5, <1>6, <1>7 DEF b, id, r

\* Where neither system transactions nor calls behind the store fail: all ways to a block, a transaction, a
\* callback and their results, through either adapter, lead to what the chain holds.
THEOREM AllLookupsAgree ==
  ASSUME NothingFails
  PROVE  QueriesSpec => []LookupsAgree
  <1>1. SoundInv /\ IndexInv => LookupsAgree
    BY AdaptersAgree, CallbackFound DEF LookupsAgree
  <1>2. QueriesSpec => [](SoundInv /\ IndexInv)
    BY LookupInvariant
  <1> QED BY <1>1, <1>2, PTL

-----------------------------------------------------------------------------
(* Events                                                                  *)

\* An emitter that occurs at most once.
LEMMA EventsOfOne ==
  ASSUME NEW S, NEW s \in Seq(S), NEW x,
         \A i, j \in 1..Len(s) : s[i] = x /\ s[j] = x => i = j
  PROVE  EventsOf(s, x) = IF x \in Range(s) THEN <<x>> ELSE <<>>
  <1>1. DOMAIN s = 1..Len(s)
    BY LenProperties
  <1>2. CASE x \in Range(s)
    <2>1. PICK i \in 1..Len(s) : s[i] = x
      BY <1>1, <1>2 DEF Range
    <2>2. {j \in DOMAIN s : s[j] = x} = {i}
      BY <1>1, <2>1
    <2>3. Cardinality({i}) = 1
      BY FS_Singleton
    <2>4. EventsOf(s, x) = [k \in 1..1 |-> x]
      BY <2>2, <2>3 DEF EventsOf
    <2> QED BY <1>2, <2>4
  <1>3. CASE x \notin Range(s)
    <2>1. {j \in DOMAIN s : s[j] = x} = {}
      BY <1>3 DEF Range
    <2>2. Cardinality({}) = 0
      BY FS_EmptySet
    <2>3. EventsOf(s, x) = [k \in 1..0 |-> x]
      BY <2>1, <2>2 DEF EventsOf
    <2> QED BY <1>3, <2>3
  <1> QED BY <1>2, <1>3

\* The events of a block: each transaction and each callback once, the system chunk
\* once.
LEMMA EventsOfBlock ==
  ASSUME SoundInv, NEW h \in DOMAIN blocks \ {0}, NEW x \in Txs \cup Callbacks \cup {Chunk, Bootstrap}
  PROVE  EventsOf(blocks[h].events, x)
           = IF x \in Range(blocks[h].txs) \cup Range(blocks[h].sys) THEN <<x>> ELSE <<>>
  <1> DEFINE b == blocks[h]
             S == Callbacks \cup {Process, Chunk}
  <1>0. ReadInv
    BY DEF SoundInv
  <1>1. b.events = AllOf(b)
    BY DEF SoundInv, EventsOncePerExecution, AllOf
  <1>2. /\ b.txs \in Seq(Txs) /\ IsSystem(b.sys) /\ b.sys \in Seq(S)
        /\ DOMAIN b.txs = 1..Len(b.txs) /\ DOMAIN b.sys = 1..Len(b.sys)
    BY <1>0, BlockAbove DEF IsSystem
  <1>3. PICK n \in Nat, m \in Nat \ {0} : Joined(AllOf(b), b.txs, n, b.sys, m)
    BY <1>0, AllOfBlock
  <1>4. /\ n = Len(b.txs) /\ m = Len(b.sys) /\ Len(AllOf(b)) = n + m
        /\ \A i \in 1..n : AllOf(b)[i] = b.txs[i] /\ b.txs[i] \in Range(b.txs)
        /\ \A i \in 1..m : AllOf(b)[n + i] = b.sys[i] /\ b.sys[i] \in Range(b.sys)
        /\ Places(n, m)
    BY <1>3 DEF Joined
  <1>p. \A i \in 1..n : AllOf(b)[i] = b.txs[i]
    BY <1>4
  <1>q. \A i \in 1..m : AllOf(b)[n + i] = b.sys[i]
    BY <1>4
  <1>5. \A i, j \in 1..n : b.txs[i] = b.txs[j] => i = j
    BY <1>0, <1>4 DEF ReadInv, PoolInv, SealedAtMostOnce
  <1>6. \A i, j \in 1..m : b.sys[i] = x /\ b.sys[j] = x => i = j
    <2>1. CASE x \in Txs
      <3>1. x \notin Range(b.sys)
        BY <1>2, <2>1, UserIsNotSystem
      <3> QED BY <1>4, <3>1
    <2>2. CASE x \in Callbacks
      BY <1>2, <1>4, <2>2 DEF IsSystem
    <2>3. CASE x = Chunk
      BY <1>2, <1>4, <2>3 DEF IsSystem
    <2>4. CASE x = Bootstrap
      <3>1. Bootstrap \notin S
        BY IdentifiersAssumption DEF Bootstrap, Process, Chunk
      <3>2. Range(b.sys) \subseteq S
        BY <1>2 DEF Range
      <3> QED BY <1>4, <2>4, <3>1, <3>2
    <2> QED BY <2>1, <2>2, <2>3, <2>4
  <1>7. x \in Range(b.txs) => x \notin Range(b.sys)
    <2>1. Range(b.txs) \subseteq Txs
      BY <1>2 DEF Range
    <2> QED BY <1>2, <2>1, UserIsNotSystem
  <1>8. AllOf(b) \in Seq(Txs \cup S)
    <2>1. b.txs \in Seq(Txs \cup S) /\ b.sys \in Seq(Txs \cup S)
      BY <1>2
    <2> HIDE DEF S
    <2> QED BY <2>1, ConcatProperties DEF AllOf
  <1> HIDE DEF b, S
  <1>9. ASSUME NEW i \in 1..(n + m), NEW j \in 1..(n + m), AllOf(b)[i] = x, AllOf(b)[j] = x
        PROVE  i = j
    <2>1. CASE i \in 1..n /\ j \in 1..n
      BY <1>p, <1>5, <1>9, <2>1
    <2>2. ASSUME NEW u \in 1..m, NEW v \in 1..m, i = n + u, j = n + v PROVE i = j
      BY <1>q, <1>6, <1>9, <2>2
    <2>3. ASSUME NEW u \in 1..n, NEW v \in 1..m, AllOf(b)[u] = x, AllOf(b)[n + v] = x PROVE FALSE
      BY <1>4, <1>7, <2>3
    <2>4. /\ i \in 1..n \/ (i - n \in 1..m /\ n + (i - n) = i)
          /\ j \in 1..n \/ (j - n \in 1..m /\ n + (j - n) = j)
      BY <1>4 DEF Places
    <2> QED BY <1>9, <2>1, <2>2, <2>3, <2>4
  <1>10. x \in Range(AllOf(b)) <=> x \in Range(b.txs) \cup Range(b.sys)
    <2>0. DOMAIN AllOf(b) = 1..(n + m)
      BY <1>3 DEF Joined
    <2>1. ASSUME x \in Range(AllOf(b)) PROVE x \in Range(b.txs) \cup Range(b.sys)
      <3>1. PICK i \in 1..(n + m) : AllOf(b)[i] = x
        BY <2>0, <2>1 DEF Range
      <3>2. i \in 1..n \/ (i - n \in 1..m /\ n + (i - n) = i)
        BY <1>4 DEF Places
      <3>3. \A v \in 1..m : AllOf(b)[n + v] \in Range(b.sys)
        BY <1>4
      <3> QED BY <1>4, <3>1, <3>2, <3>3
    <2>2. ASSUME x \in Range(b.txs) PROVE x \in Range(AllOf(b))
      <3>1. PICK i \in 1..n : b.txs[i] = x
        BY <1>2, <1>4, <2>2 DEF Range
      <3>2. i \in 1..(n + m) /\ AllOf(b)[i] = x
        BY <1>p, <3>1
      <3> QED BY <2>0, <3>2 DEF Range
    <2>3. ASSUME x \in Range(b.sys) PROVE x \in Range(AllOf(b))
      <3>1. PICK i \in 1..m : b.sys[i] = x
        BY <1>2, <1>4, <2>3 DEF Range
      <3>2. n + i \in 1..(n + m) /\ AllOf(b)[n + i] = x
        BY <1>q, <3>1
      <3> QED BY <2>0, <3>2 DEF Range
    <2> QED BY <2>1, <2>2, <2>3
  <1>11. \A i, j \in 1..Len(AllOf(b)) : AllOf(b)[i] = x /\ AllOf(b)[j] = x => i = j
    BY <1>4, <1>9
  <1>12. EventsOf(AllOf(b), x) = IF x \in Range(AllOf(b)) THEN <<x>> ELSE <<>>
    BY <1>8, <1>11, EventsOfOne
  <1> QED BY <1>1, <1>10, <1>12 DEF b

\* x was executed in the block at height h.
RanIn(x, h) == x \in Range(blocks[h].txs) \cup Range(blocks[h].sys)

\* The genesis block has no transactions, and only the events of the bootstrap.
LEMMA GenesisIsEmpty ==
  ASSUME ReadInv, NEW x
  PROVE  /\ blocks[0].txs = <<>> /\ blocks[0].sys = <<>> /\ ~RanIn(x, 0)
         /\ EventsOf(blocks[0].events, x) = IF x = Bootstrap THEN <<x>> ELSE <<>>
  <1>1. blocks[0].txs = <<>> /\ blocks[0].sys = <<>> /\ blocks[0].events = <<Bootstrap>>
    BY DEF ReadInv, SystemInv, GenesisBlock
  <1>2. Range(<<>>) = {} /\ Range(<<Bootstrap>>) = {Bootstrap}
    BY DEF Range
  <1>3. PICK s : s = <<Bootstrap>>
    OBVIOUS
  <1>4. s \in Seq({Bootstrap}) /\ Len(s) = 1
    BY <1>3
  <1>5. \A i, j \in 1..Len(s) : s[i] = x /\ s[j] = x => i = j
    BY <1>4
  <1>6. EventsOf(s, x) = IF x \in Range(s) THEN <<x>> ELSE <<>>
    BY <1>4, <1>5, EventsOfOne
  <1> QED BY <1>1, <1>2, <1>3, <1>6 DEF RanIn

\* The result of what was executed in a block names the block.
LEMMA ResultNamesBlock ==
  ASSUME SoundInv, IndexInv, NEW x \in Txs \cup Callbacks, NEW h \in 0..latest, RanIn(x, h)
  PROVE  GetTransactionResult(x).status = "sealed" /\ GetTransactionResult(x).height = h
  <1>0. /\ ReadInv /\ h \in DOMAIN blocks \ {0} /\ blocks[h].height = h
    BY BlockFound, GenesisIsEmpty DEF SoundInv
  <1>1. IsSystem(blocks[h].sys) /\ Range(blocks[h].txs) \subseteq Txs
    BY <1>0, BlockAbove, ResultFound
  <1>2. ASSUME NEW code, GetTransactionResult(x) = SealedResult(x, blocks[h], code)
        PROVE  GetTransactionResult(x).status = "sealed" /\ GetTransactionResult(x).height = h
    BY <1>0, <1>2 DEF SealedResult
  <1>3. CASE x \in Txs
    <2>1. x \in Range(blocks[h].txs)
      BY <1>1, <1>3, UserIsNotSystem DEF RanIn
    <2>2. GetTransactionResult(x) = SealedResult(x, blocks[h], blocks[h].results[x])
      BY <1>0, <2>1, ResultFound, NothingHeld
    <2> QED BY <1>2, <2>2
  <1>4. CASE x \in Callbacks
    <2>1. x \in Range(blocks[h].sys)
      BY <1>1, <1>4, NamesAssumption DEF RanIn
    <2>2. GetTransactionResult(x) = SealedResult(x, blocks[h], SystemCode(blocks[h], x))
      BY <1>0, <1>4, <2>1, CallbackFound
    <2> QED BY <1>2, <2>2
  <1> QED BY <1>3, <1>4

\* What was executed in no block has no sealed result.
LEMMA NoBlockNoResult ==
  ASSUME SoundInv, NEW x \in Txs \cup Callbacks, \A h \in 0..latest : ~RanIn(x, h)
  PROVE  GetTransactionResult(x).status # "sealed"
  <1>0. ReadInv /\ DOMAIN blocks = 0..latest
    BY DEF SoundInv, ReadInv, ChainInv, ChainLinked
  <1>1. CASE x \in Txs
    <2>1. ~Stored(x)
      BY <1>0 DEF Stored, RanIn
    <2>2. GetTransactionResult(x) \in {Pending, Unknown}
      BY <1>0, <1>1, <2>1, NotStored
    <2> QED BY <2>2 DEF Pending, Unknown
  <1>2. CASE x \in Callbacks
    <2>1. x \notin Txs
      BY <1>2, NamesAssumption
    <2>2. TransactionResultByID(x) = {}
      BY <2>1 DEF TransactionResultByID
    <2>3. ASSUME NEW id PROVE SystemTransactionResultByID(id, x) = {}
      <3>1. \A b \in BlockByID(id) : x \notin Range(b.sys)
        BY <1>0 DEF BlockByID, RanIn
      <3> QED BY <3>1 DEF SystemTransactionResultByID
    <2>4. ASSUME NEW id PROVE getSystemTransactionResult(id, x) = Unknown
      BY <2>3, Answers DEF getSystemTransactionResult
    <2>5. OrUnknown(TransactionResultByID(x)) = Unknown
      BY <2>2, Answers
    <2>6. GetTransactionResult(x) \in {Pending, Unknown}
      BY <2>4, <2>5 DEF GetTransactionResult
    <2> QED BY <2>6 DEF Pending, Unknown
  <1> QED BY <1>1, <1>2

\* What a client expects to find at a height.
EventsExpected(x, h) ==
    IF GetTransactionResult(x).status = "sealed" /\ GetTransactionResult(x).height = h
    THEN <<x>> ELSE <<>>

LEMMA EventsFound ==
  ASSUME SoundInv, IndexInv, NEW x \in Txs \cup Callbacks, NEW h \in 0..latest
  PROVE  EventsByHeight(h, x) = EventsExpected(x, h)
  <1>0. ReadInv /\ h \in DOMAIN blocks
    BY DEF SoundInv, ReadInv, ChainInv, ChainLinked
  <1>1. EventsByHeight(h, x) = IF RanIn(x, h) THEN <<x>> ELSE <<>>
    <2>1. CASE h = 0
      BY <1>0, <2>1, GenesisIsEmpty, IdentifiersAssumption, NamesAssumption DEF EventsByHeight
    <2>2. CASE h # 0
      <3>1. EventsOf(blocks[h].events, x) = IF RanIn(x, h) THEN <<x>> ELSE <<>>
        BY <1>0, <2>2, EventsOfBlock DEF RanIn
      <3> QED BY <1>0, <3>1 DEF EventsByHeight
    <2> QED BY <2>1, <2>2
  <1>2. CASE RanIn(x, h)
    BY <1>1, <1>2, ResultNamesBlock DEF EventsExpected
  <1>3. CASE ~RanIn(x, h)
    <2>1. ASSUME NEW g \in 0..latest, RanIn(x, g) PROVE EventsExpected(x, h) = <<>>
      <3>1. GetTransactionResult(x).height = g /\ g # h
        BY <1>3, <2>1, ResultNamesBlock
      <3> QED BY <3>1 DEF EventsExpected
    <2>2. CASE \A g \in 0..latest : ~RanIn(x, g)
      BY <1>1, <1>3, <2>2, NoBlockNoResult DEF EventsExpected
    <2> QED BY <1>1, <1>3, <2>1, <2>2
  <1> QED BY <1>2, <1>3

LEMMA EventsAgree ==
  ASSUME SoundInv, IndexInv
  PROVE  EventsMatchResults
  <1> DEFINE ids == [i \in 1..(latest + 1) |-> BlockID(blocks[i - 1])]
  <1> SUFFICES ASSUME NEW x \in Txs \cup Callbacks
               PROVE  /\ \A i \in DOMAIN ids : SDKGetEventsForBlockIDs(x, ids).value[i]
                                                 = [block |-> ids[i], events |-> EventsExpected(x, i - 1)]
                      /\ \A from \in 0..latest, to \in 0..(latest + 1) :
                            LET found == AdapterGetEventsForHeightRange(x, from, to).value
                            IN  /\ DOMAIN found = (from..to) \cap (0..latest)
                                /\ \A h \in DOMAIN found : found[h] = EventsExpected(x, h)
                                /\ SDKGetEventsForHeightRange(x, from, to) = Ok(found)
    BY DEF EventsMatchResults, EventsExpected
  <1>0. ReadInv /\ latest \in Nat /\ DOMAIN blocks = 0..latest
    BY DEF SoundInv, ReadInv, ChainInv, TypeOK, ChainLinked
  <1>1. \A v : Ok(v).value = v
    BY DEF Ok
  <1>2. ASSUME NEW i \in DOMAIN ids
        PROVE  SDKGetEventsForBlockIDs(x, ids).value[i]
                 = [block |-> ids[i], events |-> EventsExpected(x, i - 1)]
    <2>1. i \in 1..(latest + 1) /\ i - 1 \in 0..latest /\ DOMAIN ids = 1..(latest + 1)
      BY <1>0
    <2>2. ASSUME NEW j \in 1..(latest + 1)
          PROVE  BlockByID(ids[j]) = {blocks[j - 1]} /\ blocks[j - 1].height = j - 1
      <3>1. j - 1 \in 0..latest
        BY <1>0
      <3>2. ids[j] = BlockID(blocks[j - 1])
        OBVIOUS
      <3> QED BY <1>0, <3>1, <3>2, BlockFound
    <2> HIDE DEF ids
    <2>3. ASSUME NEW j \in 1..i PROVE BlockByID(ids[j]) # {}
      <3>1. j \in 1..(latest + 1)
        BY <1>0, <2>1
      <3> QED BY <2>2, <3>1
    <2>4. (CHOOSE b \in BlockByID(ids[i]) : TRUE).height = i - 1
      <3>1. (CHOOSE b \in BlockByID(ids[i]) : TRUE) = blocks[i - 1]
        BY <2>1, <2>2
      <3> QED BY <2>1, <2>2, <3>1
    <2>5. GetEventsForBlockIDs(x, ids)[i]
            = [block |-> ids[i],
               events |-> EventsByHeight((CHOOSE b \in BlockByID(ids[i]) : TRUE).height, x)]
      BY <1>2, <2>3 DEF GetEventsForBlockIDs
    <2>6. EventsByHeight(i - 1, x) = EventsExpected(x, i - 1)
      BY <2>1, EventsFound
    <2>7. SDKGetEventsForBlockIDs(x, ids).value = GetEventsForBlockIDs(x, ids)
      BY <1>1 DEF SDKGetEventsForBlockIDs
    <2> QED BY <2>4, <2>5, <2>6, <2>7
  <1>3. ASSUME NEW from \in 0..latest, NEW to \in 0..(latest + 1)
        PROVE  LET found == AdapterGetEventsForHeightRange(x, from, to).value
               IN  /\ DOMAIN found = (from..to) \cap (0..latest)
                   /\ \A h \in DOMAIN found : found[h] = EventsExpected(x, h)
                   /\ SDKGetEventsForHeightRange(x, from, to) = Ok(found)
    <2>1. {g \in from..to : from..g \subseteq DOMAIN blocks} = (from..to) \cap (0..latest)
      BY <1>0
    <2>2. PICK found : found = GetEventsForHeightRange(x, from, to)
      OBVIOUS
    <2>3. /\ DOMAIN found = (from..to) \cap (0..latest)
          /\ \A h \in DOMAIN found : found[h] = EventsByHeight(h, x)
      BY <2>1, <2>2 DEF GetEventsForHeightRange
    <2>4. \A h \in DOMAIN found : found[h] = EventsExpected(x, h)
      BY <2>3, EventsFound
    <2>5. /\ AdapterGetEventsForHeightRange(x, from, to).value = found
          /\ SDKGetEventsForHeightRange(x, from, to) = Ok(found)
      BY <1>1, <2>2 DEF AdapterGetEventsForHeightRange, SDKGetEventsForHeightRange
    <2> QED BY <2>3, <2>4, <2>5
  <1> QED BY <1>2, <1>3

\* Where neither system transactions nor calls behind the store fail: over any range of heights or list of blocks a
\* client finds the event of a transaction or callback once, under the block that its result names.
THEOREM EventsFollowResults ==
  ASSUME NothingFails
  PROVE  QueriesSpec => []EventsMatchResults
  <1>1. SoundInv /\ IndexInv => EventsMatchResults
    BY EventsAgree
  <1>2. QueriesSpec => [](SoundInv /\ IndexInv)
    BY LookupInvariant
  <1> QED BY <1>1, <1>2, PTL

-----------------------------------------------------------------------------
(* Subscriptions                                                           *)

\* The first k results of block b, as they are read one by one.
ResultsTo(b, k) == [j \in 1..k |-> SealedResult(b.txs[j], b, b.results[b.txs[j]])]

\* The EVM's events of block b.
EVMEvents(b) ==
    LET transactions == [x \in EVMTransactions |-> Emitted(b, x)]
        block == [x \in EVMBlocks |-> Emitted(b, x)]
    IN  IF b.txs = <<>> THEN <<transactions, block>> ELSE <<block>>

\* The response r of a subscription of this kind is that for block b.
IsResponse(kind, r, b) ==
    /\ r.block = BlockID(b)
    /\ kind = "data" =>
          /\ r.results = [j \in DOMAIN b.txs |-> SealedResult(b.txs[j], b, b.results[b.txs[j]])]
          /\ r.events = [j \in DOMAIN b.txs |-> <<b.txs[j]>>]
          /\ r.evm = EVMEvents(b)

SubFields == {"state", "kind", "tx", "start", "next", "notified", "block", "results", "evmTxEvents",
              "reported", "delivered"}

IsSub(q) == q = [f \in SubFields |-> q[f]]

\* What subscription q has delivered of the chain B: the cursor is behind the delivered
\* blocks, each of which is in the chain.
DeliveredOK(q, B) ==
    /\ q.start \in Nat /\ q.next \in Nat
    /\ q.delivered \in Seq(Range(q.delivered)) /\ q.next = q.start + Len(q.delivered)
    /\ q.kind # "status" =>
          \A i \in 1..Len(q.delivered) :
             /\ (q.start + i) - 1 \in DOMAIN B
             /\ IsResponse(q.kind, q.delivered[i], B[(q.start + i) - 1])

\* What its streamer has read so far for the next response.
ReadingOK(q, B) ==
    /\ q.state \in {"none", "starting", "waiting", "sending", "reading", "events", "closed"}
    /\ q.state \in {"starting", "waiting", "sending"} => q.results = <<>>
    /\ q.state \in {"reading", "events"} =>
          /\ q.next \in DOMAIN B /\ q.block = B[q.next]
          /\ \E k \in 0..Len(q.block.txs) : q.results = ResultsTo(q.block, k)
    /\ q.state = "events" =>
          /\ q.kind = "data" /\ Len(q.results) = Len(q.block.txs)
          /\ q.evmTxEvents = [x \in EVMTransactions |-> Emitted(q.block, x)]

SubOK(q, B) == IsSub(q) /\ DeliveredOK(q, B) /\ ReadingOK(q, B)

StreamInv == subs = [s \in Subs |-> subs[s]] /\ \A s \in Subs : SubOK(subs[s], blocks)

\* A chain that grows does not change what was read of it.
LEMMA GrownChain ==
  ASSUME NEW q, NEW B, NEW C, \A h \in DOMAIN B : h \in DOMAIN C /\ C[h] = B[h], SubOK(q, B)
  PROVE  SubOK(q, C)
  <1>1. DeliveredOK(q, C)
    BY DEF SubOK, DeliveredOK
  <1>2. ReadingOK(q, C)
    BY DEF SubOK, ReadingOK
  <1> QED BY <1>1, <1>2 DEF SubOK

\* A step that delivers nothing.
LEMMA NothingDelivered ==
  ASSUME NEW q, NEW B, SubOK(q, B), NEW r, IsSub(r), ReadingOK(r, B),
         r.kind = q.kind, r.start = q.start, r.next = q.next, r.delivered = q.delivered
  PROVE  SubOK(r, B)
  BY DEF SubOK, DeliveredOK

\* What is left as it is when the state changes and the results do not.
LEMMA StateChanges ==
  ASSUME NEW q, NEW B, SubOK(q, B), NEW r, IsSub(r),
         r.kind = q.kind, r.start = q.start, r.next = q.next, r.delivered = q.delivered,
         r.results = q.results, r.block = q.block, r.evmTxEvents = q.evmTxEvents,
         \/ r.state = q.state
         \/ r.state = "closed"
         \/ q.state \in {"starting", "waiting", "sending"} /\ r.state \in {"waiting", "sending"}
  PROVE  SubOK(r, B)
  <1>1. ReadingOK(r, B)
    BY DEF SubOK, ReadingOK
  <1> QED BY <1>1, NothingDelivered

\* A response for the next height is delivered.
LEMMA DeliverOK ==
  ASSUME NEW q, NEW B, SubOK(q, B), q.state \in {"reading", "events"}, NEW r,
         q.kind # "status" => IsResponse(q.kind, r, B[q.next])
  PROVE  /\ SubOK(Deliver(q, r), B)
         /\ SubOK([Deliver(q, r) EXCEPT !.reported = TRUE], B)
  <1> DEFINE d == Deliver(q, r)
             e == [Deliver(q, r) EXCEPT !.reported = TRUE]
             n == Len(q.delivered)
  <1>0. IsSub(q)
    BY DEF SubOK
  <1>1. /\ IsSub(d) /\ d.state = "sending" /\ d.kind = q.kind /\ d.start = q.start
        /\ d.next = q.next + 1 /\ d.results = <<>> /\ d.delivered = Append(q.delivered, r)
    BY <1>0 DEF Deliver, IsSub, SubFields
  <1>2. /\ IsSub(e) /\ e.state = "sending" /\ e.kind = q.kind /\ e.start = q.start
        /\ e.next = q.next + 1 /\ e.results = <<>> /\ e.delivered = Append(q.delivered, r)
    <2> HIDE DEF d
    <2>1. e = [d EXCEPT !.reported = TRUE]
      BY DEF d
    <2> HIDE DEF e
    <2> QED BY <1>1, <2>1 DEF IsSub, SubFields
  <1>3. PICK c : c = Append(q.delivered, r)
    OBVIOUS
  <1>4. /\ q.delivered \in Seq(Range(q.delivered)) /\ n \in Nat
        /\ q.start \in Nat /\ q.next \in Nat /\ q.next = q.start + n
    BY LenProperties DEF SubOK, DeliveredOK
  <1> HIDE DEF n, d, e
  <1>5. /\ Len(c) = n + 1 /\ c[n + 1] = r /\ \A i \in 1..n : c[i] = q.delivered[i]
        /\ DOMAIN c = 1..(n + 1)
    BY <1>3, <1>4 DEF n
  <1>6. c \in Seq(Range(c))
    <2>1. c \in Seq(Range(q.delivered) \cup {r})
      BY <1>3, <1>4
    <2>2. \A i \in 1..Len(c) : c[i] \in Range(c)
      BY <1>5 DEF Range
    <2>3. c = [i \in 1..Len(c) |-> c[i]] /\ Len(c) \in Nat
      BY <2>1
    <2> QED BY <2>2, <2>3
  <1>7. ASSUME q.kind # "status", NEW i \in 1..(n + 1)
        PROVE  /\ (q.start + i) - 1 \in DOMAIN B
               /\ IsResponse(q.kind, c[i], B[(q.start + i) - 1])
    <2>1. CASE i \in 1..n
      BY <1>5, <1>7, <2>1 DEF SubOK, DeliveredOK, n
    <2>2. CASE i = n + 1
      <3>1. (q.start + i) - 1 = q.next
        BY <1>4, <2>2
      <3>2. q.next \in DOMAIN B
        BY DEF SubOK, ReadingOK
      <3> QED BY <1>5, <1>7, <2>2, <3>1, <3>2
    <2> QED BY <1>4, <2>1, <2>2
  <1>8. q.next + 1 = q.start + Len(c) /\ q.next + 1 \in Nat
    <2>1. PICK i, j \in Nat : i = q.start /\ j = q.next
      BY <1>4
    <2>2. j = i + n /\ n \in Nat /\ Len(c) = n + 1
      BY <1>4, <1>5, <2>1
    <2>3. j + 1 = i + (n + 1) /\ j + 1 \in Nat
      BY <2>2
    <2> QED BY <2>1, <2>2, <2>3
  <1>9. ASSUME NEW f, IsSub(f), f.state = "sending", f.results = <<>>, f.kind = q.kind, f.start = q.start,
               f.next = q.next + 1, f.delivered = c
        PROVE  SubOK(f, B)
    <2>1. DeliveredOK(f, B)
      BY <1>4, <1>5, <1>6, <1>7, <1>8, <1>9 DEF DeliveredOK
    <2>2. ReadingOK(f, B)
      BY <1>9 DEF ReadingOK
    <2> QED BY <1>9, <2>1, <2>2 DEF SubOK
  <1>10. SubOK(d, B)
    BY <1>1, <1>3, <1>9
  <1>11. SubOK(e, B)
    BY <1>2, <1>3, <1>9
  <1> QED BY <1>10, <1>11 DEF d, e

LEMMA OpenedOK ==
  ASSUME NEW kind, NEW t, NEW h \in Nat, NEW B
  PROVE  SubOK(Opened(kind, t, h), B)
  <1> DEFINE o == Opened(kind, t, h)
  <1>0. IsSub(NoSub)
    BY DEF NoSub, IsSub, SubFields
  <1>1. NoSub.results = <<>> /\ NoSub.delivered = <<>>
    BY DEF NoSub
  <1>2. /\ IsSub(o) /\ o.state = "starting" /\ o.kind = kind /\ o.start = h /\ o.next = h
        /\ o.results = <<>> /\ o.delivered = <<>>
    BY <1>0, <1>1 DEF Opened, IsSub, SubFields
  <1> HIDE DEF o
  <1>3. <<>> \in Seq(Range(o.delivered)) /\ Len(<<>>) = 0
    OBVIOUS
  <1>4. DeliveredOK(o, B)
    BY <1>2, <1>3 DEF DeliveredOK
  <1>5. ReadingOK(o, B)
    BY <1>2 DEF ReadingOK
  <1> QED BY <1>2, <1>4, <1>5 DEF SubOK, o

\* Nothing is delivered on no subscription.
LEMMA NoSubOK ==
  ASSUME NEW B
  PROVE  SubOK(NoSub, B)
  <1>1. IsSub(NoSub)
    BY DEF NoSub, IsSub, SubFields
  <1>2. DeliveredOK(NoSub, B)
    BY DEF DeliveredOK, NoSub
  <1>3. ReadingOK(NoSub, B)
    BY DEF ReadingOK, NoSub
  <1> QED BY <1>1, <1>2, <1>3 DEF SubOK

\* One result more.
LEMMA NextResult ==
  ASSUME NEW b, NEW k \in Nat
  PROVE  /\ Len(ResultsTo(b, k)) = k
         /\ Append(ResultsTo(b, k), SealedResult(b.txs[k + 1], b, b.results[b.txs[k + 1]]))
              = ResultsTo(b, k + 1)
  <1> DEFINE v(j) == SealedResult(b.txs[j], b, b.results[b.txs[j]])
             S == {v(j) : j \in 1..(k + 1)}
  <1>1. PICK f : f = ResultsTo(b, k)
    OBVIOUS
  <1>2. PICK g : g = ResultsTo(b, k + 1)
    OBVIOUS
  <1>3. f = [j \in 1..k |-> v(j)] /\ g = [j \in 1..(k + 1) |-> v(j)]
    BY <1>1, <1>2 DEF ResultsTo
  <1>4. \A j \in 1..k : j \in 1..(k + 1)
    OBVIOUS
  <1>5. \A j \in 1..(k + 1) : v(j) \in S
    OBVIOUS
  <1>6. v(k + 1) = SealedResult(b.txs[k + 1], b, b.results[b.txs[k + 1]])
    OBVIOUS
  <1> HIDE DEF v, S
  <1>7. f \in Seq(S) /\ g \in Seq(S) /\ Len(f) = k /\ Len(g) = k + 1
    BY <1>3, <1>4, <1>5
  <1>8. PICK w : w = v(k + 1)
    OBVIOUS
  <1>9. Append(f, w) = g
    <2>1. w \in S /\ g[k + 1] = w /\ \A j \in 1..k : g[j] = f[j]
      BY <1>3, <1>4, <1>5, <1>8
    <2>2. /\ Append(f, w) \in Seq(S) /\ Len(Append(f, w)) = k + 1
          /\ Append(f, w)[k + 1] = w /\ \A j \in 1..k : Append(f, w)[j] = f[j]
      BY <1>7, <2>1
    <2>3. PICK a : a = Append(f, w)
      OBVIOUS
    <2>4. \A j \in 1..(k + 1) : a[j] = g[j]
      <3>1. \A j \in 1..(k + 1) : j \in 1..k \/ j = k + 1
        OBVIOUS
      <3> QED BY <2>1, <2>2, <2>3, <3>1
    <2> QED BY <1>7, <2>2, <2>3, <2>4, SeqEqual
  <1> QED BY <1>1, <1>2, <1>6, <1>7, <1>8, <1>9

\* What the last call of a data subscription adds.
LEMMA EventsOfAll ==
  ASSUME NEW b, b.txs \in Seq(Txs)
  PROVE  /\ ResultsTo(b, Len(b.txs))
              = [j \in DOMAIN b.txs |-> SealedResult(b.txs[j], b, b.results[b.txs[j]])]
         /\ ResultEvents(ResultsTo(b, Len(b.txs))) = [j \in DOMAIN b.txs |-> <<b.txs[j]>>]
  <1> DEFINE f == ResultsTo(b, Len(b.txs))
  <1>1. DOMAIN b.txs = 1..Len(b.txs)
    BY LenProperties
  <1>2. f = [j \in DOMAIN b.txs |-> SealedResult(b.txs[j], b, b.results[b.txs[j]])]
    BY <1>1 DEF ResultsTo
  <1> HIDE DEF f
  <1>3. DOMAIN f = DOMAIN b.txs
    BY <1>2
  <1>4. \A x, c : SealedResult(x, b, c).status = "sealed" /\ SealedResult(x, b, c).tx = x
    BY DEF SealedResult
  <1>5. \A j \in DOMAIN f : f[j].status = "sealed" /\ f[j].tx = b.txs[j]
    BY <1>2, <1>3, <1>4
  <1>6. ResultEvents(f) = [j \in DOMAIN f |-> <<b.txs[j]>>]
    BY <1>5 DEF ResultEvents
  <1> QED BY <1>2, <1>3, <1>6 DEF f

\* A result that is read is the sealed one of the block.
LEMMA ReadResultOK ==
  ASSUME SoundInv, NEW q, SubOK(q, blocks), q.state = "reading",
         Len(q.results) + 1 <= Len(q.block.txs)
  PROVE  SubOK([q EXCEPT !.results = Append(@, GetTransactionResult(q.block.txs[Len(q.results) + 1]))], blocks)
  <1> DEFINE b == q.block
             v == GetTransactionResult(b.txs[Len(q.results) + 1])
             r == [q EXCEPT !.results = Append(@, v)]
  <1>0. IsSub(q)
    BY DEF SubOK
  <1>1. /\ IsSub(r) /\ r.state = q.state /\ r.kind = q.kind /\ r.start = q.start /\ r.next = q.next
        /\ r.block = q.block /\ r.delivered = q.delivered /\ r.results = Append(q.results, v)
    BY <1>0 DEF IsSub, SubFields
  <1> HIDE DEF r
  <1>2. q.next \in DOMAIN blocks /\ b = blocks[q.next]
    BY DEF SubOK, ReadingOK
  <1>3. PICK k \in 0..Len(b.txs) : q.results = ResultsTo(b, k)
    BY DEF SubOK, ReadingOK
  <1>4. /\ ReadInv /\ latest \in Nat /\ DOMAIN blocks = 0..latest
    BY DEF SoundInv, ReadInv, ChainInv, TypeOK, ChainLinked
  <1>5. b.txs \in Seq(Txs)
    <2>1. b \in Blocks
      BY <1>2, <1>4, BlockFound
    <2> QED BY <2>1 DEF Blocks
  <1>6. Len(b.txs) \in Nat /\ k \in Nat /\ Len(q.results) = k
    BY <1>3, <1>5, NextResult, LenProperties
  <1>7. k + 1 \in 1..Len(b.txs) /\ Len(b.txs) # 0
    BY <1>6
  <1>8. b.txs[k + 1] \in Range(b.txs)
    BY <1>5, <1>7 DEF Range
  <1>9. q.next \in DOMAIN blocks \ {0}
    <2>1. b.txs # <<>>
      BY <1>6, <1>7
    <2> QED BY <1>2, <1>4, <2>1, GenesisIsEmpty
  <1>10. v = SealedResult(b.txs[k + 1], b, b.results[b.txs[k + 1]])
    <2>1. ~Held(b)
      BY <1>2, <1>4, NothingHeld
    <2>2. GetTransactionResult(b.txs[k + 1]) = IF Held(blocks[q.next]) THEN Pending
                           ELSE SealedResult(b.txs[k + 1], blocks[q.next], blocks[q.next].results[b.txs[k + 1]])
      BY <1>2, <1>4, <1>8, <1>9, ResultFound
    <2> QED BY <1>2, <1>6, <2>1, <2>2
  <1> HIDE DEF v, b
  <1>11. r.results = ResultsTo(b, k + 1)
    BY <1>1, <1>3, <1>6, <1>10, NextResult
  <1>12. ReadingOK(r, blocks)
    <2>1. k + 1 \in 0..Len(b.txs)
      BY <1>6, <1>7
    <2> QED BY <1>1, <1>2, <1>11, <2>1 DEF ReadingOK, b
  <1>13. SubOK(r, blocks)
    BY <1>1, <1>12, NothingDelivered
  <1> QED BY <1>13 DEF r, v, b

\* The events that are read are those of the block.
LEMMA EmittedFound ==
  ASSUME SoundInv, NEW h \in DOMAIN blocks, NEW x \in Txs \cup Callbacks \cup {Chunk, Bootstrap}
  PROVE  EventsByHeight(h, x) = Emitted(blocks[h], x)
  <1>0. /\ ReadInv /\ latest \in Nat /\ DOMAIN blocks = 0..latest /\ h \in Nat /\ blocks[h].height = h
    BY BlockFound DEF SoundInv, ReadInv, ChainInv, TypeOK, ChainLinked
  <1>1. EventsByHeight(h, x) = EventsOf(blocks[h].events, x)
    BY DEF EventsByHeight
  <1>2. CASE h = 0
    <2>1. blocks[0].height = 0
      BY <1>0, <1>2
    <2> QED BY <1>0, <1>1, <1>2, <2>1, GenesisIsEmpty DEF Emitted, RanIn
  <1>3. CASE h # 0
    <2>1. EventsOf(blocks[h].events, x)
            = IF x \in Range(blocks[h].txs) \cup Range(blocks[h].sys) THEN <<x>> ELSE <<>>
      BY <1>3, EventsOfBlock
    <2> QED BY <1>0, <1>1, <1>3, <2>1 DEF Emitted
  <1> QED BY <1>2, <1>3

\* So are those of a type.
LEMMA TypeFound ==
  ASSUME SoundInv, NEW h \in DOMAIN blocks
  PROVE  /\ EventsOfType(h, EVMTransactions) = [x \in EVMTransactions |-> Emitted(blocks[h], x)]
         /\ EventsOfType(h, EVMBlocks) = [x \in EVMBlocks |-> Emitted(blocks[h], x)]
  <1>1. \A x \in EVMTransactions \cup EVMBlocks : EventsByHeight(h, x) = Emitted(blocks[h], x)
    BY EmittedFound DEF EVMTransactions, EVMBlocks
  <1> QED BY <1>1 DEF EventsOfType

\* The events of the EVM's transactions are read.
LEMMA TransactionEventsOK ==
  ASSUME SoundInv, NEW q, SubOK(q, blocks), q.state = "reading", q.kind = "data",
         Len(q.results) = Len(q.block.txs)
  PROVE  SubOK([q EXCEPT !.state = "events", !.evmTxEvents = EventsOfType(q.next, EVMTransactions)], blocks)
  <1> DEFINE e == EventsOfType(q.next, EVMTransactions)
             r == [q EXCEPT !.state = "events", !.evmTxEvents = e]
  <1>0. IsSub(q)
    BY DEF SubOK
  <1>1. /\ IsSub(r) /\ r.state = "events" /\ r.kind = q.kind /\ r.start = q.start /\ r.next = q.next
        /\ r.block = q.block /\ r.delivered = q.delivered /\ r.results = q.results /\ r.evmTxEvents = e
    BY <1>0 DEF IsSub, SubFields
  <1> HIDE DEF r, e
  <1>2. q.next \in DOMAIN blocks /\ q.block = blocks[q.next]
    BY DEF SubOK, ReadingOK
  <1>3. e = [x \in EVMTransactions |-> Emitted(q.block, x)]
    BY <1>2, TypeFound DEF e
  <1>4. \E k \in 0..Len(q.block.txs) : q.results = ResultsTo(q.block, k)
    BY DEF SubOK, ReadingOK
  <1>5. ReadingOK(r, blocks)
    BY <1>1, <1>2, <1>3, <1>4 DEF ReadingOK
  <1>6. SubOK(r, blocks)
    BY <1>1, <1>5, NothingDelivered
  <1> QED BY <1>6 DEF r, e

\* A response with execution data is that of the block.
LEMMA DataResponseOK ==
  ASSUME SoundInv, NEW q, SubOK(q, blocks), q.state = "events"
  PROVE  IsResponse("data", DataResponse(q, EventsOfType(q.next, EVMBlocks)), blocks[q.next])
  <1> DEFINE b == q.block
             e == EventsOfType(q.next, EVMBlocks)
             r == DataResponse(q, e)
  <1>1. q.next \in DOMAIN blocks /\ b = blocks[q.next]
    BY DEF SubOK, ReadingOK
  <1>2. PICK k \in 0..Len(b.txs) : q.results = ResultsTo(b, k)
    BY DEF SubOK, ReadingOK
  <1>3. /\ ReadInv /\ latest \in Nat /\ DOMAIN blocks = 0..latest
    BY DEF SoundInv, ReadInv, ChainInv, TypeOK, ChainLinked
  <1>4. b.txs \in Seq(Txs)
    <2>1. b \in Blocks
      BY <1>1, <1>3, BlockFound
    <2> QED BY <2>1 DEF Blocks
  <1>5. Len(b.txs) \in Nat /\ k \in Nat
    BY <1>2, <1>4, LenProperties
  <1>6. q.results = ResultsTo(b, Len(b.txs))
    <2>1. Len(q.results) = Len(b.txs)
      BY DEF SubOK, ReadingOK
    <2> QED BY <1>2, <1>5, <2>1, NextResult
  <1>7. /\ e = [x \in EVMBlocks |-> Emitted(b, x)]
        /\ q.evmTxEvents = [x \in EVMTransactions |-> Emitted(b, x)]
    BY <1>1, TypeFound DEF SubOK, ReadingOK
  <1> HIDE DEF b, e
  <1>8. /\ r.block = BlockID(b) /\ r.results = q.results /\ r.events = ResultEvents(q.results)
        /\ r.evm = IF b.txs = <<>> THEN <<q.evmTxEvents, e>> ELSE <<e>>
    BY DEF DataResponse, b
  <1> HIDE DEF r
  <1>9. r.evm = EVMEvents(b)
    BY <1>7, <1>8 DEF EVMEvents
  <1>10. IsResponse("data", r, b)
    BY <1>4, <1>6, <1>8, <1>9, EventsOfAll DEF IsResponse
  <1> QED BY <1>1, <1>10 DEF r, e

\* A step of one subscription.
LEMMA OneChanges ==
  ASSUME StreamInv, NEW s \in Subs, NEW q, subs' = [subs EXCEPT ![s] = q], blocks' = blocks,
         SubOK(q, blocks)
  PROVE  StreamInv'
  BY DEF StreamInv

\* A step of the streamer of s, or of its client.
SubStep(s) == \/ SubscribeBlocks(s) \/ SubscribeExecutionData(s) \/ SubscribeTransactionStatuses(s)
              \/ Cancel(s) \/ Streamer(s)

LEMMA SubStepOK ==
  ASSUME SoundInv, StreamInv, NEW s \in Subs, SubStep(s)
  PROVE  StreamInv'
  <1> DEFINE q == subs[s]
  <1>0. /\ latest \in Nat /\ DOMAIN blocks = 0..latest /\ ReadInv
        /\ \A h \in 0..MaxHeight : h \in Nat
    BY DEF SoundInv, ReadInv, ChainInv, TypeOK, ChainLinked
  <1>1. /\ SubOK(q, blocks) /\ IsSub(q) /\ q.next \in Nat
    BY DEF StreamInv, SubOK, DeliveredOK, ReadingOK
  <1>2. blocks' = blocks
    BY DEF SubStep, SubscribeBlocks, SubscribeExecutionData, SubscribeTransactionStatuses, Cancel,
           Streamer, Stream, Wake, CheckHeight, ReadBlock, ReadResult,
           ReadTransactionEvents, ReadBlockEvents, ReadStatus, vars
  <1>3. CASE SubscribeBlocks(s)
    <2>1. PICK h \in 0..MaxHeight : subs' = [subs EXCEPT ![s] = Opened("blocks", "none", h)]
      BY <1>3 DEF SubscribeBlocks
    <2> QED BY <1>0, <1>2, <2>1, OpenedOK, OneChanges
  <1>4. CASE SubscribeExecutionData(s)
    <2>1. PICK h \in 0..MaxHeight : subs' = [subs EXCEPT ![s] = Opened("data", "none", h)]
      BY <1>4 DEF SubscribeExecutionData
    <2> QED BY <1>0, <1>2, <2>1, OpenedOK, OneChanges
  <1>5. CASE SubscribeTransactionStatuses(s)
    <2>1. PICK t \in Txs, h \in DOMAIN blocks : subs' = [subs EXCEPT ![s] = Opened("status", t, h)]
      BY <1>5 DEF SubscribeTransactionStatuses
    <2>2. h \in Nat
      BY <1>0
    <2> QED BY <1>2, <2>1, <2>2, OpenedOK, OneChanges
  <1>6. CASE Cancel(s)
    <2> DEFINE r == [q EXCEPT !.state = "closed"]
    <2>1. subs' = [subs EXCEPT ![s] = r]
      BY <1>6 DEF Cancel
    <2>2. /\ IsSub(r) /\ r.state = "closed" /\ r.kind = q.kind /\ r.start = q.start /\ r.next = q.next
          /\ r.block = q.block /\ r.delivered = q.delivered /\ r.results = q.results
          /\ r.evmTxEvents = q.evmTxEvents
      BY <1>1 DEF IsSub, SubFields
    <2> HIDE DEF r, q
    <2>3. SubOK(r, blocks)
      BY <1>1, <2>2, StateChanges
    <2> QED BY <1>2, <2>1, <2>3, OneChanges
  <1>7. CASE Stream(s)
    <2> DEFINE r == [q EXCEPT !.state = "waiting", !.notified = TRUE]
    <2>1. subs' = [subs EXCEPT ![s] = r] /\ q.state = "starting"
      BY <1>7 DEF Stream, StreamInv
    <2>2. /\ IsSub(r) /\ r.state = "waiting" /\ r.kind = q.kind /\ r.start = q.start /\ r.next = q.next
          /\ r.block = q.block /\ r.delivered = q.delivered /\ r.results = q.results
          /\ r.evmTxEvents = q.evmTxEvents
      BY <1>1 DEF IsSub, SubFields
    <2> HIDE DEF r, q
    <2>3. SubOK(r, blocks)
      BY <1>1, <2>1, <2>2, StateChanges
    <2> QED BY <1>2, <2>1, <2>3, OneChanges
  <1>8. CASE Wake(s)
    <2> DEFINE r == [q EXCEPT !.state = "sending", !.notified = FALSE]
    <2>1. subs' = [subs EXCEPT ![s] = r] /\ q.state = "waiting"
      BY <1>8 DEF Wake, StreamInv
    <2>2. /\ IsSub(r) /\ r.state = "sending" /\ r.kind = q.kind /\ r.start = q.start /\ r.next = q.next
          /\ r.block = q.block /\ r.delivered = q.delivered /\ r.results = q.results
          /\ r.evmTxEvents = q.evmTxEvents
      BY <1>1 DEF IsSub, SubFields
    <2> HIDE DEF r, q
    <2>3. SubOK(r, blocks)
      BY <1>1, <2>1, <2>2, StateChanges
    <2> QED BY <1>2, <2>1, <2>3, OneChanges
  <1>9. CASE CheckHeight(s)
    <2> DEFINE w == [q EXCEPT !.state = "waiting"]
               r == [q EXCEPT !.state = "reading", !.block = blocks[q.next]]
    <2>1. subs' = [subs EXCEPT ![s] = IF q.next > latest THEN w ELSE r] /\ q.state = "sending"
      BY <1>9 DEF CheckHeight, StreamInv
    <2>2. /\ IsSub(w) /\ w.state = "waiting" /\ w.kind = q.kind /\ w.start = q.start /\ w.next = q.next
          /\ w.block = q.block /\ w.delivered = q.delivered /\ w.results = q.results
          /\ w.evmTxEvents = q.evmTxEvents
      BY <1>1 DEF IsSub, SubFields
    <2>3. /\ IsSub(r) /\ r.state = "reading" /\ r.kind = q.kind /\ r.start = q.start /\ r.next = q.next
          /\ r.block = blocks[q.next] /\ r.delivered = q.delivered /\ r.results = q.results
          /\ r.evmTxEvents = q.evmTxEvents
      BY <1>1 DEF IsSub, SubFields
    <2> HIDE DEF r, w, q
    <2>4. SubOK(w, blocks)
      BY <1>1, <2>1, <2>2, StateChanges
    <2>5. ASSUME ~(q.next > latest) PROVE SubOK(r, blocks)
      <3>1. q.results = <<>>
        BY <1>1, <2>1 DEF SubOK, ReadingOK
      <3>2. q.next \in DOMAIN blocks /\ blocks[q.next].txs \in Seq(Txs)
        <4>1. q.next \in 0..latest
          BY <1>0, <1>1, <2>5
        <4>2. blocks[q.next] \in Blocks
          BY <1>0, <4>1, BlockFound
        <4> QED BY <1>0, <4>1, <4>2 DEF Blocks
      <3>3. 0 \in 0..Len(r.block.txs)
        BY <2>3, <3>2, LenProperties
      <3>4. ResultsTo(r.block, 0) = <<>>
        BY DEF ResultsTo
      <3>5. ReadingOK(r, blocks)
        BY <2>3, <3>1, <3>2, <3>3, <3>4 DEF ReadingOK
      <3> QED BY <1>1, <2>3, <3>5, NothingDelivered
    <2>6. SubOK(IF q.next > latest THEN w ELSE r, blocks)
      BY <2>4, <2>5
    <2> QED BY <1>2, <2>1, <2>6, OneChanges
  <1>10. CASE ReadBlock(s)
    <2>1. PICK b \in BlockByHeight(q.next) : subs' = [subs EXCEPT ![s] = Deliver(q, [block |-> BlockID(b)])]
      BY <1>10 DEF ReadBlock, StreamInv
    <2>2. q.state = "reading" /\ q.kind = "blocks"
      BY <1>10 DEF ReadBlock
    <2>3. b = blocks[q.next]
      BY <2>1 DEF BlockByHeight
    <2> HIDE DEF q
    <2>4. IsResponse(q.kind, [block |-> BlockID(b)], blocks[q.next])
      BY <2>2, <2>3 DEF IsResponse
    <2>5. SubOK(Deliver(q, [block |-> BlockID(b)]), blocks)
      BY <1>1, <2>2, <2>4, DeliverOK
    <2> QED BY <1>2, <2>1, <2>5, OneChanges
  <1>11. CASE ReadResult(s)
    <2> DEFINE r == [q EXCEPT !.results = Append(@, GetTransactionResult(q.block.txs[Len(q.results) + 1]))]
    <2>1. /\ subs' = [subs EXCEPT ![s] = r] /\ q.state = "reading"
          /\ Len(q.results) + 1 <= Len(q.block.txs)
      BY <1>11 DEF ReadResult, StreamInv
    <2>2. SubOK(r, blocks)
      BY <1>1, <2>1, ReadResultOK
    <2> QED BY <1>2, <2>1, <2>2, OneChanges
  <1>12. CASE ReadTransactionEvents(s)
    <2> DEFINE r == [q EXCEPT !.state = "events", !.evmTxEvents = EventsOfType(q.next, EVMTransactions)]
    <2>1. /\ subs' = [subs EXCEPT ![s] = r] /\ q.state = "reading" /\ q.kind = "data"
          /\ Len(q.results) = Len(q.block.txs)
      BY <1>12 DEF ReadTransactionEvents, StreamInv
    <2>2. SubOK(r, blocks)
      BY <1>1, <2>1, TransactionEventsOK
    <2> QED BY <1>2, <2>1, <2>2, OneChanges
  <1>14. CASE ReadBlockEvents(s)
    <2> DEFINE a == DataResponse(q, EventsOfType(q.next, EVMBlocks))
    <2>1. /\ subs' = [subs EXCEPT ![s] = Deliver(q, a)] /\ q.state = "events"
      BY <1>14 DEF ReadBlockEvents, StreamInv
    <2> HIDE DEF q
    <2>2. IsResponse("data", a, blocks[q.next])
      BY <1>1, <2>1, DataResponseOK
    <2>3. q.kind = "data"
      BY <1>1, <2>1 DEF SubOK, ReadingOK
    <2> HIDE DEF a
    <2>4. SubOK(Deliver(q, a), blocks)
      BY <1>1, <2>1, <2>2, <2>3, DeliverOK
    <2> QED BY <1>2, <2>1, <2>4, OneChanges
  <1>13. CASE ReadStatus(s)
    <2> DEFINE a == [statuses |-> Statuses, result |-> GetTransactionResult(q.tx)]
               c == [q EXCEPT !.state = "closed"]
               d == [Deliver(q, a) EXCEPT !.reported = TRUE]
    <2>1. /\ subs' = [subs EXCEPT ![s] = IF q.reported THEN c ELSE d] /\ q.state = "reading" /\ q.kind = "status"
      BY <1>13 DEF ReadStatus, StreamInv
    <2>2. /\ IsSub(c) /\ c.state = "closed" /\ c.kind = q.kind /\ c.start = q.start /\ c.next = q.next
          /\ c.block = q.block /\ c.delivered = q.delivered /\ c.results = q.results
          /\ c.evmTxEvents = q.evmTxEvents
      BY <1>1 DEF IsSub, SubFields
    <2> HIDE DEF q, c, a
    <2>3. SubOK(c, blocks)
      BY <1>1, <2>2, StateChanges
    <2>4. SubOK(d, blocks)
      BY <1>1, <2>1, DeliverOK
    <2> HIDE DEF d
    <2>5. SubOK(IF q.reported THEN c ELSE d, blocks)
      BY <2>3, <2>4
    <2> QED BY <1>2, <2>1, <2>5, OneChanges
  <1> QED BY <1>3, <1>4, <1>5, <1>6, <1>7, <1>8, <1>9, <1>10, <1>11, <1>12, <1>13, <1>14
    DEF SubStep, Streamer

\* The steps of the blockchain: none of them takes back what was read.
LEMMA ChainStepOK ==
  ASSUME SoundInv, StreamInv, Operation \/ StopAll
  PROVE  StreamInv'
  <1>1. Next
    BY DEF Operation, StopAll, Next
  <1>2. \A h \in DOMAIN blocks : h \in DOMAIN blocks' /\ blocks'[h] = blocks[h]
    BY <1>1, BlocksStay DEF SoundInv, ReadInv
  <1>3. \A s \in Subs : SubOK(subs[s], blocks')
    BY <1>2, GrownChain DEF StreamInv
  <1>4. ASSUME NEW s \in Subs, NEW v
        PROVE  /\ SubOK([subs[s] EXCEPT !.notified = v], blocks')
               /\ SubOK([subs[s] EXCEPT !.state = "closed"], blocks')
    <2> DEFINE q == subs[s]
               n == [q EXCEPT !.notified = v]
               c == [q EXCEPT !.state = "closed"]
    <2>0. SubOK(q, blocks') /\ IsSub(q)
      BY <1>3 DEF SubOK
    <2>1. /\ IsSub(c) /\ c.state = "closed" /\ c.kind = q.kind /\ c.start = q.start /\ c.next = q.next
          /\ c.block = q.block /\ c.delivered = q.delivered /\ c.results = q.results
          /\ c.evmTxEvents = q.evmTxEvents
      BY <2>0 DEF IsSub, SubFields
    <2>2. /\ IsSub(n) /\ n.state = q.state /\ n.kind = q.kind /\ n.start = q.start /\ n.next = q.next
          /\ n.block = q.block /\ n.delivered = q.delivered /\ n.results = q.results
          /\ n.evmTxEvents = q.evmTxEvents
      BY <2>0 DEF IsSub, SubFields
    <2> HIDE DEF q, c, n
    <2>3. SubOK(c, blocks') /\ SubOK(n, blocks')
      BY <2>0, <2>1, <2>2, StateChanges
    <2> QED BY <2>3 DEF q, c, n
  <1>5. CASE UNCHANGED subs
    BY <1>3, <1>5 DEF StreamInv
  <1>6. CASE Publish
    BY <1>4, <1>6 DEF Publish, StreamInv
  <1>7. CASE StopAll
    BY <1>3, <1>4, <1>7 DEF StopAll, StreamInv
  <1> QED BY <1>5, <1>6, <1>7 DEF Operation

\* To the subscriptions the blockchain is as it is without them.
LEMMA StreamingRefine == StreamingSpec => Spec
  <1>1. StreamingInit => Init
    BY DEF StreamingInit, QueriesInit
  <1>2. [StreamingNext]_streamingVars => [Next]_vars
    <2> SUFFICES ASSUME [StreamingNext]_streamingVars PROVE [Next]_vars
      OBVIOUS
    <2>1. CASE UNCHANGED streamingVars
      BY <2>1 DEF streamingVars
    <2>2. CASE Operation \/ StopAll
      BY <2>2 DEF Operation, StopAll, Next
    <2>3. ASSUME NEW s \in Subs, SubStep(s) PROVE UNCHANGED vars
      BY <2>3 DEF SubStep, SubscribeBlocks, SubscribeExecutionData, SubscribeTransactionStatuses, Cancel,
                  Streamer, Stream, Wake, CheckHeight, ReadBlock, ReadResult,
           ReadTransactionEvents, ReadBlockEvents, ReadStatus
    <2> QED BY <2>1, <2>2, <2>3 DEF StreamingNext, SubStep
  <1> QED BY <1>1, <1>2, PTL DEF StreamingSpec, Spec

LEMMA StreamInvariant ==
  ASSUME NothingFails
  PROVE  StreamingSpec => []StreamInv
  <1>1. StreamingInit => StreamInv
    <2> SUFFICES ASSUME StreamingInit PROVE StreamInv
      OBVIOUS
    <2> QED BY NoSubOK DEF StreamingInit, StreamInv
  <1>2. SoundInv /\ StreamInv /\ [StreamingNext]_streamingVars => StreamInv'
    <2> SUFFICES ASSUME SoundInv, StreamInv, [StreamingNext]_streamingVars PROVE StreamInv'
      OBVIOUS
    <2>1. CASE UNCHANGED streamingVars
      BY <2>1 DEF streamingVars, StreamInv, vars
    <2>2. CASE Operation \/ StopAll
      BY <2>2, ChainStepOK
    <2>3. ASSUME NEW s \in Subs, SubStep(s) PROVE StreamInv'
      BY <2>3, SubStepOK
    <2> QED BY <2>1, <2>2, <2>3 DEF StreamingNext, SubStep
  <1>3. Spec => []SoundInv
    BY SoundInvariant
  <1> QED BY <1>1, <1>2, <1>3, StreamingRefine, PTL DEF StreamingSpec

\* Where neither system transactions nor calls behind the store fail: although block, results and
\* events are read in separate calls between which the chain grows, what a
\* subscription has delivered is the chain from its first height on, each block
\* once and in order, with the results and the events of that block.
THEOREM DeliveredFollowsTheChain ==
  ASSUME NothingFails
  PROVE  StreamingSpec => []DeliveredIsTheChain
  <1>1. StreamInv => DeliveredIsTheChain
    <2> SUFFICES ASSUME StreamInv, NEW s \in Subs, subs[s].kind # "status",
                        NEW i \in DOMAIN subs[s].delivered
                 PROVE  IsResponse(subs[s].kind, subs[s].delivered[i], blocks[subs[s].start + i - 1])
      BY DEF DeliveredIsTheChain, IsResponse, EVMEvents
    <2>1. DeliveredOK(subs[s], blocks)
      BY DEF StreamInv, SubOK
    <2>2. DOMAIN subs[s].delivered = 1..Len(subs[s].delivered)
      BY <2>1, LenProperties DEF DeliveredOK
    <2> QED BY <2>1, <2>2 DEF DeliveredOK
  <1> QED BY <1>1, StreamInvariant, PTL

=============================================================================

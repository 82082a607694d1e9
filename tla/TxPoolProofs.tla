---------------------------- MODULE TxPoolProofs ----------------------------
(***************************************************************************)
(* Blockchain implements TxPool, for every set of transactions and         *)
(* callbacks, every set of faults and every bound.                         *)
(***************************************************************************)
EXTENDS BlockchainProofs

\* The refinement mapping.
Pooled == pending.txs
Logged == [h \in 1..latest |-> blocks[h].txs]
Held == pending.finalized /\ pending.height = latest

\* The steps of TxPool, with the mapping in place of its variables.
AbstractStep ==
    \/ \E t \in Txs : /\ Acceptable(pending, t)
                      /\ Pooled' = Append(Pooled, t)
                      /\ Logged' = Logged /\ Held' = Held
    \/ \E batch : /\ ~Held
                  /\ \/ batch = Pooled
                     \/ \E t \in Txs : Acceptable(pending, t) /\ batch = Append(Pooled, t)
                  /\ Logged' = Append(Logged, batch)
                  /\ \/ Pooled' = <<>> /\ Held' = FALSE
                     \/ Pooled' = batch /\ Held' = TRUE
    \/ Pooled' = <<>> /\ Held' = FALSE /\ Logged' = Logged
    \/ UNCHANGED <<Pooled, Logged, Held>>

\* What is acceptable to the blockchain is fresh to the pool.
LEMMA AcceptableIsFresh ==
  ASSUME ChainInv, NEW t \in Txs, Acceptable(pending, t)
  PROVE  Pool!Fresh(t)
  <1>1. t \notin Range(pending.txs) /\ \A h \in DOMAIN blocks : t \notin Range(blocks[h].txs)
    BY DEF Acceptable, ContainsTransaction, Stored
  <1>2. 1..latest \subseteq DOMAIN blocks
    BY DEF ChainInv, TypeOK, ChainLinked
  <1> QED BY <1>1, <1>2 DEF Pool!Fresh, Pool!Sealed, Pool!Range, Range

\* An abstract step in these terms is a step of the pool.
LEMMA AbstractStepIsPoolStep ==
  ASSUME ChainInv, AbstractStep
  PROVE  [Pool!Next]_(Pool!vars)
  <1>1. ASSUME NEW t \in Txs, Acceptable(pending, t),
               Pooled' = Append(Pooled, t), Logged' = Logged, Held' = Held
        PROVE  Pool!Next
    BY <1>1, AcceptableIsFresh DEF Pool!Next, Pool!Accept, Pooled, Logged, Held
  <1>2. ASSUME NEW batch, ~Held,
               \/ batch = Pooled
               \/ \E t \in Txs : Acceptable(pending, t) /\ batch = Append(Pooled, t),
               Logged' = Append(Logged, batch),
               \/ Pooled' = <<>> /\ Held' = FALSE
               \/ Pooled' = batch /\ Held' = TRUE
        PROVE  Pool!Next
    <2>1. batch \in Pool!Batches
      BY <1>2, AcceptableIsFresh DEF Pool!Batches, Pooled
    <2>2. Pool!Seal(batch)
      BY <1>2 DEF Pool!Seal, Pooled, Logged, Held
    <2> QED BY <2>1, <2>2 DEF Pool!Next
  <1>3. CASE Pooled' = <<>> /\ Held' = FALSE /\ Logged' = Logged
    BY <1>3 DEF Pool!Next, Pool!Drop, Pooled, Logged, Held
  <1>4. CASE UNCHANGED <<Pooled, Logged, Held>>
    BY <1>4 DEF Pool!vars, Pooled, Logged, Held
  <1> QED BY <1>1, <1>2, <1>3, <1>4 DEF AbstractStep

\* Every step of the blockchain is an abstract step.
LEMMA StepIsAbstract ==
  ASSUME ChainInv, ChainInv', [Next]_vars
  PROVE  AbstractStep
  <1>0. /\ latest \in Nat /\ DOMAIN blocks = 0..latest
        /\ \A h \in DOMAIN blocks : blocks[h] \in Blocks /\ blocks[h].txs \in Seq(Txs)
        /\ pending.txs \in Seq(Txs) /\ pending.finalized \in BOOLEAN
        /\ \/ pending.height = latest + 1
           \/ pending.height = latest /\ pending.finalized
    BY DEF ChainInv, TypeOK, ChainLinked, Blocks, PendingBlocks
  <1>1. Shape
    BY StepShape DEF ChainInv
  <1>2. CASE KeepStep
    <2>1. Logged' = Logged
      BY <1>2 DEF KeepStep, Logged
    <2>2. Held' = Held
      <3>1. pending'.height = pending.height /\ latest' = latest
            /\ (pending.finalized => pending'.finalized) /\ pending'.finalized \in BOOLEAN
        BY <1>2, FieldTypes DEF KeepStep, Kept
      <3> QED BY <1>0, <3>1 DEF Held
    <2>3. \/ Pooled' = Pooled
          \/ \E t \in Txs : Acceptable(pending, t) /\ Pooled' = Append(Pooled, t)
      BY <1>2 DEF KeepStep, Kept, Pooled
    <2> QED BY <2>1, <2>2, <2>3 DEF AbstractStep
  <1>3. CASE RenewStep
    <2>1. pending'.txs = <<>> /\ pending'.height = latest + 1
      BY <1>0, <1>3, NewPendingType DEF RenewStep, ChainInv, ChainLinked
    <2>2. latest' = latest /\ blocks' = blocks
      BY <1>3 DEF RenewStep
    <2>3. Held' = FALSE
      BY <1>0, <2>1, <2>2 DEF Held
    <2> QED BY <2>1, <2>2, <2>3 DEF AbstractStep, Pooled, Logged
  <1>4. ASSUME NEW p, NEW due, StoreStep(p, due)
        PROVE  AbstractStep
    <2> DEFINE b == BlockOf(p, due)
    <2>1. /\ p.height = latest + 1 /\ latest' = latest + 1 /\ DOMAIN blocks' = 0..(latest + 1)
          /\ \A h \in 0..latest : blocks'[h] = blocks[h]
          /\ blocks'[latest + 1] = b /\ b \in Blocks
          /\ WellFormed(p)
      BY <1>4, StoreFacts
    <2>2. /\ b.txs = p.txs /\ b.height = p.height /\ due \in Seq(Callbacks)
          /\ p.txs \in Seq(Txs)
      BY <1>4, <2>1, BlockOfType, FieldTypes DEF StoreStep, ChainInv, TypeOK
    <2>3. pending' \in NewPendingBlocks(b) \/ pending' = Finalize(AfterChunk(p, due))
      BY <1>4 DEF StoreStep
    <2> HIDE DEF b
    <2>4. Logged' = Append(Logged, p.txs)
      <3>1. Logged \in Seq(Seq(Txs)) /\ Len(Logged) = latest
        <4>1. \A h \in 1..latest : blocks[h].txs \in Seq(Txs)
          BY <1>0
        <4> QED BY <1>0, <4>1 DEF Logged
      <3>2. /\ Append(Logged, p.txs) = [h \in 1..(latest + 1) |->
                                          IF h <= latest THEN Logged[h] ELSE p.txs]
        BY <1>0, <2>2, <3>1, AppendProperties
      <3>3. \A h \in 1..(latest + 1) :
               blocks'[h].txs = IF h <= latest THEN Logged[h] ELSE p.txs
        BY <1>0, <2>1, <2>2 DEF Logged
      <3>4. Logged' = [h \in 1..(latest + 1) |-> blocks'[h].txs]
        BY <2>1 DEF Logged
      <3> QED BY <3>2, <3>3, <3>4
    <2>5. ~Held
      BY <1>0, <1>4 DEF StoreStep, Prepared, Held
    <2>6. \/ p.txs = Pooled
          \/ \E t \in Txs : Acceptable(pending, t) /\ p.txs = Append(Pooled, t)
      BY <1>4 DEF StoreStep, Prepared, Kept, Pooled
    <2>7. \/ Pooled' = <<>> /\ Held' = FALSE
          \/ Pooled' = p.txs /\ Held' = TRUE
      <3>1. CASE pending' \in NewPendingBlocks(b)
        <4>1. pending'.txs = <<>> /\ pending'.height = latest + 2
          BY <1>0, <2>1, <2>2, <3>1, NewPendingType
        <4> QED BY <1>0, <2>1, <4>1 DEF Pooled, Held
      <3>2. CASE pending' = Finalize(AfterChunk(p, due))
        <4>1. Ran(p, AfterChunk(p, due))
          BY <2>1, <2>2, ChunkType
        <4>2. pending'.txs = p.txs /\ pending'.finalized = TRUE /\ pending'.height = p.height
          BY <3>2, <4>1, FinalizeType DEF Ran, SameBlock
        <4> QED BY <2>1, <4>2 DEF Pooled, Held
      <3> QED BY <2>3, <3>1, <3>2
    <2> QED BY <2>4, <2>5, <2>6, <2>7 DEF AbstractStep
  <1> QED BY <1>1, <1>2, <1>3, <1>4 DEF Shape

\* The blockchain implements the pool that clients are promised: every call,
\* also one that fails half way, accepts, seals, drops or changes nothing.
THEOREM BlockchainImplementsTxPool == Spec => ImplementsTxPool
  <1>1. Init => Pool!Init
    <2> SUFFICES ASSUME Init PROVE Pool!Init
      OBVIOUS
    <2>1. pending.txs = <<>> /\ pending.finalized = FALSE /\ latest = 0
      BY DEF Init, NewPendingBlocks, PendingOn
    <2>2. [h \in 1..latest |-> blocks[h].txs] = <<>>
      <3>1. 1..latest = {}
        BY <2>1
      <3> QED BY <3>1
    <2> QED BY <2>1, <2>2 DEF Pool!Init
  <1>2. ChainInv /\ ChainInv' /\ [Next]_vars => [Pool!Next]_(Pool!vars)
    BY StepIsAbstract, AbstractStepIsPoolStep
  <1> QED BY <1>1, <1>2, ChainInvariant, PTL DEF Spec, ImplementsTxPool, Pool!Spec

=============================================================================

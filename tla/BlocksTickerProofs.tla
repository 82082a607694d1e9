------------------------ MODULE BlocksTickerProofs --------------------------
(***************************************************************************)
(* The safety of block production on a timer, for every set of clients'    *)
(* transactions and any number of ticker goroutines.                       *)
(***************************************************************************)
EXTENDS BlocksTicker, SequenceTheorems, TLAPS

\* The chain's part of the state holds transactions of a set U, and the execution
\* index stays within the pending block.
ChainTypes(U) ==
    /\ txs \in Seq(U) /\ sealed \in Seq(U)
    /\ accepted \in Seq(U) /\ executions \in Seq(U)
    /\ index \in 0..Len(txs)

TickerInv(U) == ChainTypes(U) /\ EachOnceInOrder

\* A commit that is not refused finds the whole block executed.
LEMMA CommitFindsAllExecuted ==
  ASSUME NEW U, ChainTypes(U), CommitAllowed
  PROVE  index = Len(txs)
  BY LenProperties DEF ChainTypes, CommitAllowed, ExecutionStarted, ExecutionComplete, Empty

\* A client adds a transaction only before the execution has begun.
LEMMA AddKeepsOrder ==
  ASSUME NEW U, TickerInv(U), NEW t \in U, AddTransaction(t)
  PROVE  TickerInv(U)'
  <1>1. /\ txs \in Seq(U) /\ sealed \in Seq(U) /\ accepted \in Seq(U)
        /\ sealed \o txs = accepted /\ executions = sealed \o SubSeq(txs, 1, index)
        /\ Len(txs) \in Nat
    BY LenProperties DEF TickerInv, ChainTypes, EachOnceInOrder
  <1>2. index = 0 /\ index' = 0
    BY <1>1 DEF TickerInv, ChainTypes, AddTransaction, ExecutionStarted
  <1>3. /\ txs' = Append(txs, t) /\ accepted' = Append(accepted, t)
        /\ sealed' = sealed /\ executions' = executions
    BY DEF AddTransaction
  <1>4. ChainTypes(U)'
    BY <1>1, <1>2, <1>3, AppendProperties DEF TickerInv, ChainTypes
  <1>5. sealed \o Append(txs, t) = Append(sealed \o txs, t)
    BY <1>1
  <1>6. SubSeq(txs', 1, index') = <<>> /\ SubSeq(txs, 1, index) = <<>>
    BY <1>2, SubSeqEmpty
  <1> QED BY <1>1, <1>3, <1>4, <1>5, <1>6 DEF TickerInv, EachOnceInOrder

\* Executing appends what remained of the block, once.
LEMMA ExecuteKeepsOrder ==
  ASSUME NEW U, TickerInv(U), ExecuteBlock
  PROVE  TickerInv(U)'
  <1> DEFINE ran == SubSeq(txs, 1, index)
             rest == SubSeq(txs, index + 1, Len(txs))
  <1>1. /\ txs \in Seq(U) /\ sealed \in Seq(U) /\ index \in 0..Len(txs)
        /\ Len(txs) \in Nat /\ executions \in Seq(U)
        /\ executions = sealed \o ran
    BY LenProperties DEF TickerInv, ChainTypes, EachOnceInOrder
  <1>2. /\ index' = Len(txs) /\ executions' = executions \o rest
        /\ txs' = txs /\ sealed' = sealed /\ accepted' = accepted
    BY DEF ExecuteBlock
  <1>3. ran \in Seq(U) /\ rest \in Seq(U)
    <2>1. /\ \A i \in 1..index : txs[i] \in U
          /\ \A i \in (index + 1)..Len(txs) : txs[i] \in U
      BY <1>1, ElementOfSeq
    <2> QED BY <1>1, <2>1, SubSeqProperties
  <1>4. ran \o rest = txs
    <2>1. ran \o rest = SubSeq(txs, 1, Len(txs))
      <3>1. 1 \in 1..(Len(txs) + 1) /\ index \in (1 - 1)..Len(txs) /\ Len(txs) \in index..Len(txs)
        BY <1>1
      <3> QED BY ONLY <1>1, <3>1, ConcatAdjacentSubSeq
    <2> QED BY <1>1, <2>1, SubSeqFull
  <1>5. SubSeq(txs', 1, index') = txs
    BY <1>1, <1>2, SubSeqFull
  <1> HIDE DEF ran, rest
  <1>6. executions' = sealed \o txs
    <2>1. (sealed \o ran) \o rest = sealed \o (ran \o rest)
      <3>1. sealed \in Seq(U) /\ ran \in Seq(U) /\ rest \in Seq(U)
        BY <1>1, <1>3
      <3> QED BY ONLY <3>1, SMT
    <2> QED BY <1>1, <1>2, <1>4, <2>1
  <1>7. ChainTypes(U)'
    BY <1>1, <1>2, <1>6, ConcatProperties DEF TickerInv, ChainTypes
  <1> QED BY <1>2, <1>5, <1>6, <1>7 DEF TickerInv, EachOnceInOrder

\* Committing moves an executed block to the chain.
LEMMA CommitKeepsOrder ==
  ASSUME NEW U, TickerInv(U), CommitBlock
  PROVE  TickerInv(U)'
  <1>1. /\ txs \in Seq(U) /\ sealed \in Seq(U) /\ accepted \in Seq(U)
        /\ executions \in Seq(U)
        /\ sealed \o txs = accepted /\ executions = sealed \o SubSeq(txs, 1, index)
    BY DEF TickerInv, ChainTypes, EachOnceInOrder
  <1>2. CASE ~CommitAllowed
    BY <1>2 DEF CommitBlock, TickerInv, ChainTypes, EachOnceInOrder
  <1>3. CASE CommitAllowed
    <2>1. /\ sealed' = sealed \o txs /\ txs' = <<>> /\ index' = 0
          /\ accepted' = accepted /\ executions' = executions
      BY <1>3 DEF CommitBlock
    <2>2. executions = sealed \o txs
      BY <1>1, <1>3, CommitFindsAllExecuted, SubSeqFull DEF TickerInv
    <2>3. sealed \o txs \in Seq(U) /\ <<>> \in Seq(U) /\ Len(<<>>) = 0
      BY <1>1, ConcatProperties
    <2>4. SubSeq(txs', 1, index') = <<>>
      BY <2>1, SubSeqEmpty
    <2>5. (sealed \o txs) \o <<>> = sealed \o txs
      BY <2>3, ConcatEmptySeq
    <2>6. ChainTypes(U)'
      BY <1>1, <2>1, <2>3 DEF ChainTypes
    <2> QED BY <1>1, <2>1, <2>2, <2>4, <2>5, <2>6 DEF TickerInv, EachOnceInOrder
  <1> QED BY <1>2, <1>3

\* However ticks, clients and goroutines interleave, and whatever stops when,
\* an accepted transaction is executed once and sealed once, in the order of
\* acceptance.
THEOREM TickerSealsInOrder == Spec => []EachOnceInOrder
  <1>1. Init => TickerInv(Txs)
    <2> SUFFICES ASSUME Init PROVE TickerInv(Txs)
      OBVIOUS
    <2>1. /\ txs = <<>> /\ sealed = <<>> /\ accepted = <<>> /\ executions = <<>> /\ index = 0
      BY DEF Init
    <2>2. <<>> \in Seq(Txs) /\ Len(<<>>) = 0
      OBVIOUS
    <2>3. <<>> \o <<>> = <<>> /\ SubSeq(<<>>, 1, 0) = <<>>
      BY <2>2, ConcatEmptySeq, SubSeqEmpty
    <2> QED BY <2>1, <2>2, <2>3 DEF TickerInv, ChainTypes, EachOnceInOrder
  <1>2. TickerInv(Txs) /\ [Next]_vars => TickerInv(Txs)'
    <2> SUFFICES ASSUME TickerInv(Txs), [Next]_vars PROVE TickerInv(Txs)'
      OBVIOUS
    <2>1. ASSUME NEW t \in Txs, AddTransaction(t) PROVE TickerInv(Txs)'
      BY <2>1, AddKeepsOrder
    <2>2. ASSUME NEW g \in Tickers, CallExecuteBlock(g) PROVE TickerInv(Txs)'
      BY <2>2, ExecuteKeepsOrder DEF CallExecuteBlock
    <2>3. ASSUME NEW g \in Tickers, CallCommitBlock(g) PROVE TickerInv(Txs)'
      BY <2>3, CommitKeepsOrder DEF CallCommitBlock
    <2>4. CASE UNCHANGED chain
      BY <2>4 DEF chain, TickerInv, ChainTypes, EachOnceInOrder
    <2>5. ASSUME NEW g \in Tickers, TakeTick(g) \/ TakeDone(g) PROVE UNCHANGED chain
      BY <2>5 DEF TakeTick, TakeDone
    <2>6. CASE Tick \/ Shutdown \/ Stop
      BY <2>4, <2>6 DEF Tick, Shutdown, Stop
    <2>7. CASE UNCHANGED vars
      BY <2>4, <2>7 DEF vars
    <2> QED BY <2>1, <2>2, <2>3, <2>4, <2>5, <2>6, <2>7 DEF Next
  <1>3. TickerInv(Txs) => EachOnceInOrder
    BY DEF TickerInv
  <1> QED BY <1>1, <1>2, <1>3, PTL DEF Spec

=============================================================================

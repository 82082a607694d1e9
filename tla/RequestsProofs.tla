-------------------------- MODULE RequestsProofs ---------------------------
(***************************************************************************)
(* Safety of overlapping requests, for any number of clients, goroutines   *)
(* and transactions and any casts of them: what the calls of the           *)
(* blockchain keep (from BlocksTickerProofs), what follows for a creator   *)
(* that does not find its result, and which account, block and state a     *)
(* client is answered with.                                                *)
(***************************************************************************)
EXTENDS Requests, BlocksTickerProofs, WellFoundedInduction

\* The order of the chain, for transactions of some set.
OrderInv == \E U : TickerInv(U)

\* A set of transactions may be made larger.
LEMMA LargerSet ==
  ASSUME NEW U, NEW V, U \subseteq V, TickerInv(U)
  PROVE  TickerInv(V)
  <1>1. ASSUME NEW s \in Seq(U) PROVE s \in Seq(V)
    BY <1>1
  <1> QED BY <1>1 DEF TickerInv, ChainTypes

\* executeAndCommitBlock seals the pending block and what was added to it, after
\* executing what remained of both.
LEMMA ExecuteAndCommitKeepsOrder ==
  ASSUME NEW U, TickerInv(U), NEW added \in Seq(U), ExecuteAndCommit(added)
  PROVE  TickerInv(U)' /\ sealed' = (sealed \o txs) \o added /\ txs' = <<>>
  <1> DEFINE block == txs \o added
             ran == SubSeq(block, 1, index)
             run == SubSeq(block, index + 1, Len(block))
  <1>1. /\ txs \in Seq(U) /\ sealed \in Seq(U) /\ accepted \in Seq(U) /\ executions \in Seq(U)
        /\ index \in 0..Len(txs) /\ Len(txs) \in Nat /\ Len(added) \in Nat
        /\ sealed \o txs = accepted /\ executions = sealed \o SubSeq(txs, 1, index)
    BY LenProperties DEF TickerInv, ChainTypes, EachOnceInOrder
  <1>2. /\ block \in Seq(U) /\ Len(block) = Len(txs) + Len(added)
        /\ index \in 0..Len(block)
    BY <1>1, ConcatProperties
  <1>3. /\ txs' = <<>> /\ index' = 0 /\ sealed' = sealed \o block
        /\ accepted' = accepted \o added /\ executions' = executions \o run
    BY DEF ExecuteAndCommit
  <1>4. ran = SubSeq(txs, 1, index)
    BY <1>1, <1>2
  <1>5. ran \in Seq(U) /\ run \in Seq(U)
    <2>1. /\ \A i \in 1..index : block[i] \in U
          /\ \A i \in (index + 1)..Len(block) : block[i] \in U
      BY <1>1, <1>2, ElementOfSeq
    <2> QED BY <1>1, <1>2, <2>1, SubSeqProperties
  <1>6. ran \o run = block
    <2>1. ran \o run = SubSeq(block, 1, Len(block))
      <3>1. 1 \in 1..(Len(block) + 1) /\ index \in (1 - 1)..Len(block) /\ Len(block) \in index..Len(block)
        BY <1>1, <1>2
      <3> QED BY ONLY <1>2, <3>1, ConcatAdjacentSubSeq
    <2> QED BY <1>2, <2>1, SubSeqFull
  <1>7. (sealed \o txs) \o added = sealed \o (txs \o added)
    <2>1. sealed \in Seq(U) /\ txs \in Seq(U) /\ added \in Seq(U)
      BY <1>1
    <2> QED BY ONLY <2>1, SMT
  <1> HIDE DEF ran, run
  <1>8. executions' = sealed \o block
    <2>1. (sealed \o ran) \o run = sealed \o (ran \o run)
      <3>1. sealed \in Seq(U) /\ ran \in Seq(U) /\ run \in Seq(U)
        BY <1>1, <1>5
      <3> QED BY ONLY <3>1, SMT
    <2> QED BY <1>1, <1>3, <1>4, <1>6, <2>1
  <1>9. sealed \o block \in Seq(U) /\ <<>> \in Seq(U) /\ Len(<<>>) = 0
    BY <1>1, <1>2, ConcatProperties
  <1>10. ChainTypes(U)'
    <2>1. accepted' = sealed \o block
      BY <1>1, <1>3, <1>7
    <2>2. index' \in 0..Len(txs')
      BY <1>3, <1>9
    <2> HIDE DEF block
    <2> QED BY <1>3, <1>8, <1>9, <2>1, <2>2 DEF ChainTypes
  <1>11. SubSeq(txs', 1, index') = <<>> /\ (sealed \o block) \o <<>> = sealed \o block
    BY <1>3, <1>9, SubSeqEmpty, ConcatEmptySeq
  <1> QED BY <1>1, <1>3, <1>7, <1>8, <1>10, <1>11 DEF TickerInv, EachOnceInOrder

\* Nothing that was accepted leaves the pending block except for the chain, and
\* nothing leaves the chain.
Grows ==
    /\ Range(sealed) \subseteq Range(sealed')
    /\ Range(txs) \cup Range(sealed) \subseteq Range(txs') \cup Range(sealed')

\* Seen from the chain, a step of any client, goroutine or of the start-up is one call.
LEMMA StepIsOneCall ==
  ASSUME RequestsNext
  PROVE  \/ \E t : ExecuteAndCommit(<<t>>)
         \/ ExecuteAndCommit(<<>>)
         \/ \E t : AddTransaction(t)
         \/ ExecuteBlock
         \/ CommitBlock
         \/ UNCHANGED chain
  <1>1. CASE Startup
    BY <1>1 DEF Startup, DeployContract, CreateStartupAccount, FundStartupAccount, Serve, vars
  <1>2. ASSUME NEW c \in Creators, CreateAccount(c) \/ LatestForScript(c) \/ ExecuteScript(c)
        PROVE  \/ \E t : ExecuteAndCommit(<<t>>)
               \/ ExecuteAndCommit(<<>>)
               \/ \E t : AddTransaction(t)
               \/ CommitBlock
               \/ UNCHANGED chain
    BY <1>2 DEF CreateAccount, ReadServiceKey, ReturnServiceKey, BuildTransaction, vars,
       CallSendTransaction, CallExecuteAndCommitBlock, CallCommitBlock2, LatestForScript,
       ExecuteScript, SendTransaction, CommitPending
  <1>3. ASSUME NEW c \in Miners, NewBlock(c) \/ LatestOfNewBlock(c)
        PROVE  CommitBlock \/ UNCHANGED chain
    BY <1>3 DEF NewBlock, LatestOfNewBlock, CommitPending, vars
  <1>4. ASSUME NEW t \in Txs, UserSends(t)
        PROVE  ExecuteAndCommit(<<t>>) \/ AddTransaction(t)
    BY <1>4 DEF UserSends, SendTransaction
  <1>5. CASE \/ Ticking(Tick) \/ Ticking(Stop) \/ Ticking(Shutdown)
             \/ \E g \in Tickers \cap cast : Ticking(TakeTick(g)) \/ Ticking(TakeDone(g))
    BY <1>5 DEF Ticking, Tick, Stop, Shutdown, TakeTick, TakeDone
  <1>6. CASE \E g \in Tickers \cap cast : TickerExecutes(g) \/ TickerCommits(g)
    BY <1>6 DEF TickerExecutes, TickerCommits, CallExecuteBlock, CallCommitBlock
  <1> QED BY <1>1, <1>2, <1>3, <1>4, <1>5, <1>6 DEF RequestsNext

\* Every call keeps the order, and what was accepted.
LEMMA CallsKeepOrder ==
  ASSUME OrderInv,
         \/ \E t : ExecuteAndCommit(<<t>>)
         \/ ExecuteAndCommit(<<>>)
         \/ \E t : AddTransaction(t)
         \/ ExecuteBlock
         \/ CommitBlock
         \/ UNCHANGED chain
  PROVE  OrderInv' /\ Grows
  <1>1. PICK U : TickerInv(U)
    BY DEF OrderInv
  <1>2. txs \in Seq(U) /\ sealed \in Seq(U)
    BY <1>1 DEF TickerInv, ChainTypes
  <1>3. ASSUME NEW V, NEW added \in Seq(V), TickerInv(V), ExecuteAndCommit(added)
        PROVE  OrderInv' /\ Grows
    <2>1. TickerInv(V)' /\ sealed' = (sealed \o txs) \o added /\ txs' = <<>>
      BY <1>3, ExecuteAndCommitKeepsOrder
    <2>2. txs \in Seq(V) /\ sealed \in Seq(V)
      BY <1>3 DEF TickerInv, ChainTypes
    <2>3. sealed \o txs \in Seq(V) /\ Range(sealed \o txs) = Range(sealed) \cup Range(txs)
      BY <2>2, ConcatProperties, RangeConcatenation
    <2>4. Range(sealed') = Range(sealed \o txs) \cup Range(added)
      <3>1. Range((sealed \o txs) \o added) = Range(sealed \o txs) \cup Range(added)
        <4>1. sealed \o txs \in Seq(V) /\ added \in Seq(V)
          BY <1>3, <2>3
        <4>2. PICK w : w = sealed \o txs
          OBVIOUS
        <4>3. Range(w \o added) = Range(w) \cup Range(added)
          BY <4>1, <4>2, RangeConcatenation
        <4> QED BY <4>2, <4>3
      <3> QED BY <2>1, <3>1
    <2> QED BY <2>1, <2>3, <2>4 DEF OrderInv, Grows
  <1>4. ASSUME NEW t, ExecuteAndCommit(<<t>>) PROVE OrderInv' /\ Grows
    <2>1. TickerInv(U \cup {t}) /\ <<t>> \in Seq(U \cup {t})
      BY <1>1, LargerSet
    <2> QED BY <1>3, <1>4, <2>1
  <1>5. CASE ExecuteAndCommit(<<>>)
    <2>1. <<>> \in Seq(U)
      OBVIOUS
    <2> QED BY <1>1, <1>3, <1>5, <2>1
  <1>6. ASSUME NEW t, AddTransaction(t) PROVE OrderInv' /\ Grows
    <2>1. TickerInv(U \cup {t}) /\ t \in U \cup {t}
      BY <1>1, LargerSet
    <2>2. TickerInv(U \cup {t})'
      BY <1>6, <2>1, AddKeepsOrder
    <2>3. sealed' = sealed /\ txs' = Append(txs, t)
      BY <1>6 DEF AddTransaction
    <2>4. Range(txs) \subseteq Range(txs')
      <3>1. /\ txs' \in Seq(U \cup {t}) /\ Len(txs) \in Nat /\ Len(txs') = Len(txs) + 1
            /\ \A i \in 1..Len(txs) : txs'[i] = txs[i]
        BY <1>2, <2>2, <2>3, AppendProperties, LenProperties DEF TickerInv, ChainTypes
      <3>2. /\ Range(txs) = {txs[i] : i \in 1..Len(txs)}
            /\ Range(txs') = {txs'[i] : i \in 1..Len(txs')}
        BY <1>2, <3>1, RangeEquality
      <3> QED BY <3>1, <3>2
    <2> QED BY <2>2, <2>3, <2>4 DEF OrderInv, Grows
  <1>7. CASE ExecuteBlock
    <2>1. TickerInv(U)' /\ sealed' = sealed /\ txs' = txs
      BY <1>1, <1>7, ExecuteKeepsOrder DEF ExecuteBlock
    <2> QED BY <2>1 DEF OrderInv, Grows
  <1>8. CASE CommitBlock
    <2>1. TickerInv(U)'
      BY <1>1, <1>8, CommitKeepsOrder
    <2>2. Range(sealed \o txs) = Range(sealed) \cup Range(txs)
      BY <1>2, RangeConcatenation
    <2>3. \/ sealed' = sealed /\ txs' = txs
          \/ sealed' = sealed \o txs
      BY <1>8 DEF CommitBlock
    <2> QED BY <2>1, <2>2, <2>3 DEF OrderInv, Grows
  <1>9. CASE UNCHANGED chain
    <2>1. TickerInv(U)' /\ sealed' = sealed /\ txs' = txs
      BY <1>1, <1>9 DEF chain, TickerInv, ChainTypes, EachOnceInOrder
    <2> QED BY <2>1 DEF OrderInv, Grows
  <1> QED BY <1>4, <1>5, <1>6, <1>7, <1>8, <1>9

\* At the start nothing is accepted.
LEMMA InitOrder == ASSUME RequestsInit PROVE OrderInv
  <1>1. /\ txs = <<>> /\ sealed = <<>> /\ accepted = <<>> /\ executions = <<>> /\ index = 0
    BY DEF RequestsInit, Init
  <1>2. <<>> \in Seq({}) /\ Len(<<>>) = 0
    OBVIOUS
  <1>3. <<>> \o <<>> = <<>> /\ SubSeq(<<>>, 1, 0) = <<>>
    BY <1>2, ConcatEmptySeq, SubSeqEmpty
  <1>4. TickerInv({})
    BY <1>1, <1>2, <1>3 DEF TickerInv, ChainTypes, EachOnceInOrder
  <1> QED BY <1>4 DEF OrderInv

\* However requests, other clients, the ticker's goroutines and the start-up interleave,
\* an accepted transaction is executed once and sealed once, in the order of acceptance.
THEOREM RequestsSealInOrder == RequestsSpec => []EachOnceInOrder
  <1>1. RequestsInit => OrderInv
    BY InitOrder
  <1>2. OrderInv /\ [RequestsNext]_allVars => OrderInv'
    <2>1. CASE RequestsNext
      BY <2>1, StepIsOneCall, CallsKeepOrder
    <2>2. ASSUME UNCHANGED allVars, OrderInv PROVE OrderInv'
      <3>1. UNCHANGED chain
        BY <2>2 DEF allVars, vars
      <3> QED BY <2>2, <3>1, CallsKeepOrder
    <2> QED BY <2>1, <2>2
  <1>3. OrderInv => EachOnceInOrder
    BY DEF OrderInv, TickerInv
  <1> QED BY <1>1, <1>2, <1>3, PTL DEF RequestsSpec

\* Where a creator is, and what that says of its transaction: once sent it is pending
\* or sealed, and from the call of ExecuteAndCommitBlock on it is sealed.
Domains == DOMAIN at = Clients /\ DOMAIN tx = Creators /\ DOMAIN answer = Clients

TransactionKept(c) ==
    /\ at[c] = "execute" => tx[c] \in Range(txs) \cup Range(sealed)
    /\ at[c] = "commit" => tx[c] \in Range(sealed)
    /\ answer[c] = "not found" => at[c] \notin {"idle", "key", "build"}
    /\ answer[c] = "not found" => tx[c] \in Range(sealed)

KeptInv == OrderInv /\ Domains /\ \A c \in Creators : TransactionKept(c)

\* What a step leaves alone when it is not a step of the creator.
Untouched(c) == at'[c] = at[c] /\ tx'[c] = tx[c] /\ answer'[c] = answer[c]

LEMMA UntouchedIsKept ==
  ASSUME NEW c, TransactionKept(c), Grows, Untouched(c)
  PROVE  TransactionKept(c)'
  BY DEF TransactionKept, Grows, Untouched

\* A creator's own step.
LEMMA OwnStepKeeps ==
  ASSUME NEW c \in Creators, KeptInv, Grows,
         CreateAccount(c) \/ LatestForScript(c) \/ ExecuteScript(c)
  PROVE  TransactionKept(c)' /\ Domains'
  <1> USE DEF Goto, Answer, Domains, TransactionKept
  <1>1. /\ DOMAIN at = Clients /\ DOMAIN tx = Creators /\ DOMAIN answer = Clients
        /\ c \in Clients /\ TransactionKept(c)
    BY DEF KeptInv, Clients
  <1>2. CASE ReadServiceKey(c) \/ ReturnServiceKey(c)
    BY <1>1, <1>2 DEF ReadServiceKey, ReturnServiceKey, vars, chain
  <1>3. CASE BuildTransaction(c)
    BY <1>1, <1>3 DEF BuildTransaction
  <1>4. CASE CallSendTransaction(c)
    <2>1. CASE Refused(tx[c]) /\ Answer(c, "error") /\ at[c] = "send" /\ tx' = tx
      BY <1>1, <2>1
    <2>2. CASE SendTransaction(tx[c]) /\ Goto(c, "execute") /\ answer' = answer /\ tx' = tx
               /\ at[c] = "send"
      <3>1. tx[c] \in Range(txs') \cup Range(sealed')
        <4>1. PICK U : TickerInv(U)
          BY DEF KeptInv, OrderInv
        <4>2. /\ TickerInv(U \cup {tx[c]}) /\ tx[c] \in U \cup {tx[c]}
              /\ <<tx[c]>> \in Seq(U \cup {tx[c]})
          BY <4>1, LargerSet
        <4>3. /\ txs \in Seq(U \cup {tx[c]}) /\ sealed \in Seq(U \cup {tx[c]})
          BY <4>2 DEF TickerInv, ChainTypes
        <4>4. CASE ExecuteAndCommit(<<tx[c]>>)
          <5> DEFINE sent == <<tx[c]>>
          <5>1. sealed' = (sealed \o txs) \o sent
            BY <4>2, <4>4, ExecuteAndCommitKeepsOrder
          <5>2. sealed \o txs \in Seq(U \cup {tx[c]}) /\ sent \in Seq(U \cup {tx[c]})
            BY <4>2, <4>3, ConcatProperties
          <5>3. tx[c] \in Range(sent)
            BY DEF Range
          <5> HIDE DEF sent
          <5>4. Range((sealed \o txs) \o sent) = Range(sealed \o txs) \cup Range(sent)
            <6>1. PICK V, w : w = sealed \o txs /\ w \in Seq(V) /\ sent \in Seq(V)
              BY <5>2
            <6>2. Range(w \o sent) = Range(w) \cup Range(sent)
              BY <6>1, RangeConcatenation
            <6> QED BY <6>1, <6>2
          <5> QED BY <5>1, <5>3, <5>4
        <4>5. CASE AddTransaction(tx[c])
          <5>1. txs' = Append(txs, tx[c])
            BY <4>5 DEF AddTransaction
          <5>2. /\ Len(txs) + 1 \in DOMAIN Append(txs, tx[c])
                /\ Append(txs, tx[c])[Len(txs) + 1] = tx[c]
            BY <4>2, <4>3, AppendProperties, LenProperties
          <5> QED BY <5>1, <5>2 DEF Range
        <4> QED BY <2>2, <4>4, <4>5 DEF SendTransaction
      <3> QED BY <1>1, <2>2, <3>1 DEF Grows
    <2> QED BY <1>4, <2>1, <2>2 DEF CallSendTransaction
  <1>5. CASE CallExecuteAndCommitBlock(c)
    <2>1. CASE Exhausted /\ Answer(c, "error") /\ at[c] = "execute" /\ tx' = tx
      BY <1>1, <2>1
    <2>2. CASE ExecuteAndCommit(<<>>) /\ Goto(c, "commit") /\ answer' = answer /\ tx' = tx
               /\ at[c] = "execute"
      <3>1. Range(txs') = {}
        <4>1. txs' = <<>>
          BY <2>2 DEF ExecuteAndCommit
        <4> QED BY <4>1 DEF Range
      <3>2. tx[c] \in Range(sealed')
        BY <1>1, <2>2, <3>1 DEF Grows
      <3> QED BY <1>1, <2>2, <3>2
    <2> QED BY <1>5, <2>1, <2>2 DEF CallExecuteAndCommitBlock
  <1>6. CASE CallCommitBlock2(c)
    <2>1. at[c] = "commit" /\ at' = [at EXCEPT ![c] = "answered"] /\ tx' = tx
      BY <1>6 DEF CallCommitBlock2
    <2>2. tx[c] \in Range(sealed')
      BY <1>1, <2>1 DEF Grows
    <2>3. DOMAIN answer' = Clients
      BY <1>1, <1>6 DEF CallCommitBlock2
    <2> QED BY <1>1, <2>1, <2>2, <2>3
  <1>7. CASE LatestForScript(c) \/ ExecuteScript(c)
    BY <1>1, <1>7 DEF LatestForScript, ExecuteScript, Grows
  <1> QED BY <1>2, <1>3, <1>4, <1>5, <1>6, <1>7 DEF CreateAccount

\* The steps of everybody else leave a creator alone.
LEMMA OthersLeaveAlone ==
  ASSUME NEW c \in Creators, Domains, RequestsNext,
         ~(CreateAccount(c) \/ LatestForScript(c) \/ ExecuteScript(c))
  PROVE  Untouched(c) /\ Domains'
  <1> USE DEF Goto, Answer, Untouched, Domains
  <1>1. c \in Clients /\ c \notin Miners
    BY RequestsAssumption DEF Clients
  <1>2. CASE UNCHANGED requests
    BY <1>2 DEF requests
  <1>3. CASE Startup
    BY <1>2, <1>3 DEF Startup, DeployContract, CreateStartupAccount, FundStartupAccount, Serve
  <1>4. ASSUME NEW d \in Creators, CreateAccount(d) \/ LatestForScript(d) \/ ExecuteScript(d)
        PROVE  Untouched(c) /\ Domains'
    <2>1. d # c /\ d \in Clients
      BY <1>4 DEF Clients
    <2>2. CASE CreateAccount(d)
      BY <1>1, <2>1, <2>2 DEF CreateAccount, ReadServiceKey, ReturnServiceKey, BuildTransaction,
         CallSendTransaction, CallExecuteAndCommitBlock, CallCommitBlock2
    <2>3. CASE LatestForScript(d) \/ ExecuteScript(d)
      BY <1>1, <2>1, <2>3 DEF LatestForScript, ExecuteScript
    <2> QED BY <1>4, <2>2, <2>3
  <1>5. ASSUME NEW d \in Miners, NewBlock(d) \/ LatestOfNewBlock(d)
        PROVE  Untouched(c) /\ Domains'
    BY <1>1, <1>5 DEF NewBlock, LatestOfNewBlock
  <1>6. ASSUME NEW t \in Txs, UserSends(t) PROVE Untouched(c) /\ Domains'
    BY <1>2, <1>6 DEF UserSends
  <1>7. CASE \/ Ticking(Tick) \/ Ticking(Stop) \/ Ticking(Shutdown)
             \/ \E g \in Tickers \cap cast : Ticking(TakeTick(g)) \/ Ticking(TakeDone(g))
    BY <1>2, <1>7 DEF Ticking
  <1>8. CASE \E g \in Tickers \cap cast : TickerExecutes(g) \/ TickerCommits(g)
    BY <1>2, <1>8 DEF TickerExecutes, TickerCommits
  <1> QED BY <1>3, <1>4, <1>5, <1>6, <1>7, <1>8 DEF RequestsNext

LEMMA KeptInvInit == ASSUME RequestsInit PROVE KeptInv
  <1>1. /\ at = [c \in Clients |-> "idle"] /\ answer = [c \in Clients |-> None]
        /\ tx = [c \in Creators |-> None] /\ Creators \subseteq Clients
    BY DEF RequestsInit, Clients
  <1>2. Domains /\ \A c \in Creators : TransactionKept(c)
    BY <1>1, RequestsAssumption DEF Domains, TransactionKept
  <1> QED BY <1>2, InitOrder DEF KeptInv

LEMMA KeptInvStep ==
  ASSUME KeptInv, [RequestsNext]_allVars
  PROVE  KeptInv'
  <1>1. CASE RequestsNext
    <2>1. OrderInv' /\ Grows
      BY <1>1, StepIsOneCall, CallsKeepOrder DEF KeptInv
    <2>2. ASSUME NEW c \in Creators PROVE TransactionKept(c)' /\ Domains'
      <3>1. CASE CreateAccount(c) \/ LatestForScript(c) \/ ExecuteScript(c)
        BY <2>1, <3>1, OwnStepKeeps
      <3>2. CASE ~(CreateAccount(c) \/ LatestForScript(c) \/ ExecuteScript(c))
        BY <1>1, <2>1, <3>2, OthersLeaveAlone, UntouchedIsKept DEF KeptInv
      <3> QED BY <3>1, <3>2
    <2> QED BY <2>1, <2>2, RequestsAssumption DEF KeptInv
  <1>2. CASE UNCHANGED allVars
    <2>1. UNCHANGED chain /\ UNCHANGED requests
      BY <1>2 DEF allVars, vars
    <2>2. OrderInv' /\ Grows
      BY <2>1, CallsKeepOrder DEF KeptInv
    <2>3. \A c \in Creators : Untouched(c)
      BY <2>1 DEF requests, Untouched
    <2>4. Domains'
      BY <2>1 DEF requests, Domains, KeptInv
    <2> QED BY <2>2, <2>3, <2>4, UntouchedIsKept DEF KeptInv
  <1> QED BY <1>1, <1>2

\* A creator that is told "failed to find result" has its transaction in the chain: the
\* ticker, another client or its own send has executed and sealed it.
THEOREM NotFoundMeansSealed == RequestsSpec => []NotFoundIsSealed
  <1>1. RequestsInit => KeptInv
    BY KeptInvInit
  <1>2. KeptInv /\ [RequestsNext]_allVars => KeptInv'
    BY KeptInvStep
  <1>3. KeptInv => NotFoundIsSealed
    BY DEF KeptInv, TransactionKept, NotFoundIsSealed
  <1> QED BY <1>1, <1>2, <1>3, PTL DEF RequestsSpec

-----------------------------------------------------------------------------
(* What the transactions of a block do, one after the other                *)

\* A set of numbers that is not empty has a smallest one.
LEMMA SmallestNumber ==
  ASSUME NEW T \in SUBSET Nat, T # {}
  PROVE  \E m \in T : \A k \in T : m <= k
  <1>1. PICK m \in T : \A k \in T : ~(<<k, m>> \in OpToRel(<, Nat))
    BY WFMin, NatLessThanWellFounded
  <1>2. ASSUME NEW k \in T, k < m PROVE <<k, m>> \in OpToRel(<, Nat)
    BY <1>2 DEF OpToRel
  <1>3. \A k \in T : ~(k < m)
    BY <1>1, <1>2
  <1>4. m \in Nat /\ \A k \in T : k \in Nat
    OBVIOUS
  <1> QED BY <1>3, <1>4

\* f is the history of the first m transactions of a run.
History(f, before, run, m) ==
    f = [i \in 0..m |-> IF i = 0 THEN before ELSE Effect(f[i - 1], run[i])]

\* There is one: a shortest run without could be continued from the run before it.
LEMMA HistoryExists ==
  ASSUME NEW before, NEW run, Len(run) \in Nat
  PROVE  \A m \in 0..Len(run) : \E f : History(f, before, run, m)
  <1> DEFINE T == {m \in 0..Len(run) : ~ \E f : History(f, before, run, m)}
  <1> SUFFICES ASSUME T # {} PROVE FALSE
    OBVIOUS
  <1>1. PICK m \in T : \A k \in T : m <= k
    <2>1. T \in SUBSET Nat
      OBVIOUS
    <2> HIDE DEF T
    <2> QED BY <2>1, SmallestNumber
  <1>2. m # 0
    <2> DEFINE g == [i \in 0..0 |-> before]
    <2>1. History(g, before, run, 0)
      BY DEF History
    <2> QED BY <2>1
  <1>3. m - 1 \in 0..Len(run) /\ m - 1 \notin T
    BY <1>1, <1>2
  <1>4. PICK f : History(f, before, run, m - 1)
    BY <1>3
  <1> DEFINE g == [i \in 0..m |-> IF i = m THEN Effect(f[m - 1], run[m]) ELSE f[i]]
  <1>5. History(g, before, run, m)
    BY <1>2, <1>3, <1>4 DEF History
  <1> QED BY <1>5

\* Effects is the end of the history.
LEMMA EffectsEndHistory ==
  ASSUME NEW before, NEW run, Len(run) \in Nat
  PROVE  \E f : History(f, before, run, Len(run)) /\ Effects(before, run) = f[Len(run)]
  <1>1. \E f : History(f, before, run, Len(run))
    <2>1. Len(run) \in 0..Len(run)
      OBVIOUS
    <2> QED BY <2>1, HistoryExists
  <1> DEFINE after[i \in 0..Len(run)] == IF i = 0 THEN before ELSE Effect(after[i - 1], run[i])
  <1>2. History(after, before, run, Len(run))
    BY <1>1 DEF History
  <1>3. Effects(before, run) = after[Len(run)]
    BY DEF Effects
  <1> QED BY <1>2, <1>3

\* One transaction takes nothing back.
LEMMA EffectGrows ==
  ASSUME NEW W, NEW before \in Seq(W), NEW t \in W
  PROVE  Effect(before, t) \in Seq(W) /\ Range(before) \subseteq Range(Effect(before, t))
  <1>1. CASE Effect(before, t) = before
    BY <1>1
  <1>2. CASE Effect(before, t) = Append(before, t)
    <2>1. /\ Append(before, t) \in Seq(W) /\ Len(before) \in Nat
          /\ Len(Append(before, t)) = Len(before) + 1
          /\ \A i \in 1..Len(before) : Append(before, t)[i] = before[i]
      BY AppendProperties, LenProperties
    <2>2. /\ Range(before) = {before[i] : i \in 1..Len(before)}
          /\ Range(Append(before, t)) = {Append(before, t)[i] : i \in 1..Len(Append(before, t))}
      BY <2>1, RangeEquality
    <2> QED BY <1>2, <2>1, <2>2
  <1> QED BY <1>1, <1>2 DEF Effect

\* Nor do all the transactions of a run.
LEMMA EffectsGrow ==
  ASSUME NEW W, NEW before \in Seq(W), NEW run \in Seq(W)
  PROVE  Effects(before, run) \in Seq(W) /\ Range(before) \subseteq Range(Effects(before, run))
  <1>1. Len(run) \in Nat /\ \A i \in 1..Len(run) : run[i] \in W
    BY LenProperties, ElementOfSeq
  <1>2. PICK f : History(f, before, run, Len(run)) /\ Effects(before, run) = f[Len(run)]
    BY <1>1, EffectsEndHistory
  <1> DEFINE Good(m) == f[m] \in Seq(W) /\ Range(before) \subseteq Range(f[m])
             T == {m \in 0..Len(run) : ~Good(m)}
  <1>3. f[0] = before /\ \A i \in 1..Len(run) : f[i] = Effect(f[i - 1], run[i])
    BY <1>1, <1>2 DEF History
  <1>4. SUFFICES ASSUME T # {} PROVE FALSE
    BY <1>1, <1>2
  <1>5. PICK m \in T : \A k \in T : m <= k
    <2>1. T \in SUBSET Nat
      OBVIOUS
    <2> HIDE DEF T
    <2> QED BY <1>4, <2>1, SmallestNumber
  <1>6. m # 0
    BY <1>3, <1>5
  <1>7. m - 1 \in 0..Len(run) /\ m \in 1..Len(run) /\ Good(m - 1)
    BY <1>1, <1>5, <1>6
  <1>8. Good(m)
    BY <1>1, <1>3, <1>7, EffectGrows
  <1> QED BY <1>5, <1>8

\* What a block is run with has transactions of the chain only.
LEMMA RestOfBlock ==
  ASSUME NEW U, TickerInv(U), NEW added \in Seq(U)
  PROVE  SubSeq(txs \o added, index + 1, Len(txs \o added)) \in Seq(U) /\ Remaining \in Seq(U)
  <1>1. /\ txs \in Seq(U) /\ index \in 0..Len(txs) /\ Len(txs) \in Nat /\ Len(added) \in Nat
    BY LenProperties DEF TickerInv, ChainTypes
  <1>2. ASSUME NEW block \in Seq(U), index \in 0..Len(block)
        PROVE  SubSeq(block, index + 1, Len(block)) \in Seq(U)
    <2>1. Len(block) \in Nat /\ \A i \in (index + 1)..Len(block) : block[i] \in U
      BY <1>1, <1>2, LenProperties, ElementOfSeq
    <2> QED BY <1>1, <1>2, <2>1, SubSeqProperties
  <1>3. txs \o added \in Seq(U) /\ index \in 0..Len(txs \o added)
    BY <1>1, ConcatProperties
  <1> QED BY <1>1, <1>2, <1>3 DEF Remaining

\* What took effect stays.
ProcessedIsSeq == \E W : processed \in Seq(W)
EffectsStay == ProcessedIsSeq' /\ Range(processed) \subseteq Range(processed')

LEMMA ExecutionsGrow ==
  ASSUME OrderInv, ProcessedIsSeq,
         \/ \E t : ExecuteAndCommit(<<t>>)
         \/ ExecuteAndCommit(<<>>)
         \/ Executes(Remaining)
         \/ UNCHANGED processed
  PROVE  EffectsStay
  <1>1. PICK U : TickerInv(U)
    BY DEF OrderInv
  <1>2. PICK W : processed \in Seq(W)
    BY DEF ProcessedIsSeq
  <1>3. ASSUME NEW V, NEW run \in Seq(V), Executes(run)
        PROVE  EffectsStay
    <2>1. processed \in Seq(V \cup W) /\ run \in Seq(V \cup W)
      BY <1>2
    <2> QED BY <1>3, <2>1, EffectsGrow DEF Executes, EffectsStay, ProcessedIsSeq
  <1>4. ASSUME NEW V, TickerInv(V), NEW added \in Seq(V), ExecuteAndCommit(added)
        PROVE  EffectsStay
    BY <1>3, <1>4, RestOfBlock DEF ExecuteAndCommit
  <1>5. ASSUME NEW t, ExecuteAndCommit(<<t>>) PROVE EffectsStay
    <2>1. TickerInv(U \cup {t}) /\ <<t>> \in Seq(U \cup {t})
      BY <1>1, LargerSet
    <2> QED BY <1>4, <1>5, <2>1
  <1>6. CASE ExecuteAndCommit(<<>>)
    <2>1. <<>> \in Seq(U)
      OBVIOUS
    <2> QED BY <1>1, <1>4, <1>6, <2>1
  <1>7. CASE Executes(Remaining)
    <2>1. <<>> \in Seq(U)
      OBVIOUS
    <2>2. Remaining \in Seq(U)
      BY <1>1, <2>1, RestOfBlock
    <2> QED BY <1>3, <1>7, <2>2
  <1>8. CASE UNCHANGED processed
    BY <1>8 DEF EffectsStay, ProcessedIsSeq
  <1> QED BY <1>5, <1>6, <1>7, <1>8

LEMMA StepEffectsStay ==
  ASSUME OrderInv, ProcessedIsSeq, RequestsNext
  PROVE  EffectsStay
  <1> DEFINE Call == \/ \E t : ExecuteAndCommit(<<t>>)
                     \/ ExecuteAndCommit(<<>>)
                     \/ Executes(Remaining)
                     \/ UNCHANGED processed
  <1>1. CASE Startup
    <2>1. Call
      BY <1>1 DEF Startup, DeployContract, CreateStartupAccount, FundStartupAccount, Serve
    <2> QED BY <2>1, ExecutionsGrow
  <1>2. ASSUME NEW c \in Creators, CreateAccount(c) \/ LatestForScript(c) \/ ExecuteScript(c)
        PROVE  EffectsStay
    <2>1. Call
      BY <1>2 DEF CreateAccount, ReadServiceKey, ReturnServiceKey, BuildTransaction,
         CallSendTransaction, CallExecuteAndCommitBlock, CallCommitBlock2, LatestForScript,
         ExecuteScript, SendTransaction, CommitPending
    <2> QED BY <2>1, ExecutionsGrow
  <1>3. ASSUME NEW c \in Miners, NewBlock(c) \/ LatestOfNewBlock(c) PROVE EffectsStay
    <2>1. Call
      BY <1>3 DEF NewBlock, LatestOfNewBlock, CommitPending
    <2> QED BY <2>1, ExecutionsGrow
  <1>4. ASSUME NEW t \in Txs, UserSends(t) PROVE EffectsStay
    <2>1. Call
      BY <1>4 DEF UserSends, SendTransaction
    <2> QED BY <2>1, ExecutionsGrow
  <1>5. CASE \/ Ticking(Tick) \/ Ticking(Stop) \/ Ticking(Shutdown)
             \/ \E g \in Tickers \cap cast : Ticking(TakeTick(g)) \/ Ticking(TakeDone(g))
    <2>1. Call
      BY <1>5 DEF Ticking
    <2> QED BY <2>1, ExecutionsGrow
  <1>6. CASE \E g \in Tickers \cap cast : TickerExecutes(g) \/ TickerCommits(g)
    <2>1. Call
      BY <1>6 DEF TickerExecutes, TickerCommits, CommitPending
    <2> QED BY <2>1, ExecutionsGrow
  <1> QED BY <1>1, <1>2, <1>3, <1>4, <1>5, <1>6 DEF RequestsNext

\* The chain is only extended.
Extends ==
    /\ Len(sealed) \in Nat /\ Len(sealed') \in Nat /\ Len(sealed) <= Len(sealed')
    /\ \A i \in 1..Len(sealed) : sealed'[i] = sealed[i]

LEMMA CallsExtend ==
  ASSUME OrderInv,
         \/ \E t : ExecuteAndCommit(<<t>>)
         \/ ExecuteAndCommit(<<>>)
         \/ \E t : AddTransaction(t)
         \/ ExecuteBlock
         \/ CommitBlock
         \/ UNCHANGED chain
  PROVE  Extends
  <1>1. PICK U : TickerInv(U)
    BY DEF OrderInv
  <1>2. txs \in Seq(U) /\ sealed \in Seq(U) /\ Len(sealed) \in Nat
    BY <1>1, LenProperties DEF TickerInv, ChainTypes
  <1>3. ASSUME NEW V, NEW s \in Seq(V), sealed \in Seq(V), sealed' = sealed \o s
        PROVE  Extends
    BY <1>2, <1>3, ConcatProperties, LenProperties DEF Extends
  <1>4. CASE sealed' = sealed
    BY <1>2, <1>4 DEF Extends
  <1>5. ASSUME NEW t, ExecuteAndCommit(<<t>>) PROVE Extends
    <2>1. txs \in Seq(U \cup {t}) /\ sealed \in Seq(U \cup {t}) /\ <<t>> \in Seq(U \cup {t})
      BY <1>2
    <2>2. txs \o <<t>> \in Seq(U \cup {t}) /\ sealed' = sealed \o (txs \o <<t>>)
      BY <1>5, <2>1, ConcatProperties DEF ExecuteAndCommit
    <2> QED BY <1>3, <2>1, <2>2
  <1>6. CASE ExecuteAndCommit(<<>>)
    <2>1. <<>> \in Seq(U)
      OBVIOUS
    <2>2. txs \o <<>> \in Seq(U) /\ sealed' = sealed \o (txs \o <<>>)
      BY <1>2, <1>6, <2>1, ConcatProperties DEF ExecuteAndCommit
    <2> QED BY <1>2, <1>3, <2>2
  <1>7. CASE (\E t : AddTransaction(t)) \/ ExecuteBlock \/ UNCHANGED chain
    BY <1>4, <1>7 DEF AddTransaction, ExecuteBlock, chain
  <1>8. CASE CommitBlock
    BY <1>2, <1>3, <1>4, <1>8 DEF CommitBlock
  <1> QED BY <1>5, <1>6, <1>7, <1>8

-----------------------------------------------------------------------------
(* Which transaction is whose                                              *)

\* The creator's own send was accepted, and nothing has failed since.
Sent(c) == at[c] \in {"execute", "commit"} \/ answer[c] = "address"

\* A transaction that was accepted from a creator is none of the start-up's; one
\* that an address was returned for is sealed and took effect; and the script of
\* its creator reads a chain that has it.
OwnState(c) ==
    /\ Sent(c) => tx[c] \in Range(txs) \cup Range(sealed) /\ tx[c] \notin available
    /\ answer[c] = "address" => /\ at[c] \in {"answered", "script", "done"}
                                /\ tx[c] \in Range(sealed) /\ Succeeded(tx[c])
    /\ at[c] \in {"script", "done"} => answer[c] = "address"
    /\ at[c] = "script" => /\ view[c] \in 0..Len(sealed)
                           /\ \E i \in 1..view[c] : sealed[i] = tx[c]
    /\ at[c] = "done" => tx[c] \in Range(results[c])

\* No transaction was accepted from two creators.
Distinct == \A c, d \in Creators : c # d /\ Sent(c) /\ Sent(d) => tx[c] # tx[d]

\* The block that a request has committed is in the chain.
MinerState(c) ==
    /\ number[c] \in Nat /\ view[c] \in Nat
    /\ at[c] = "committed" => number[c] <= Len(sealed)
    /\ answer[c] = "block" => at[c] = "answered" /\ view[c] >= number[c]

\* Before the server is returned no client runs; what the start-up made is sealed.
StartState ==
    /\ ~serving => \A c \in Clients : at[c] = "idle" /\ answer[c] = None
    /\ funding # None => funding \in Range(sealed)
    /\ available \subseteq Range(sealed)

MoreDomains == DOMAIN results = Creators /\ DOMAIN view = Clients /\ DOMAIN number = Clients

OwnInv ==
    /\ KeptInv /\ ProcessedIsSeq /\ MoreDomains /\ StartState /\ Distinct
    /\ \A c \in Creators : OwnState(c)
    /\ \A c \in Miners : MinerState(c)

\* What every step does to the chain and to the state of execution.
Progress == Grows /\ Extends /\ EffectsStay

\* A step that leaves a creator alone.
Quiet(c) == Untouched(c) /\ results'[c] = results[c] /\ view'[c] = view[c]

LEMMA SucceededStays ==
  ASSUME NEW t, Progress, Succeeded(t)
  PROVE  Succeeded(t)'
  BY DEF Progress, EffectsStay, Succeeded

LEMMA QuietIsOwn ==
  ASSUME NEW c, OwnState(c), Progress, Quiet(c), available' = available \/ ~Sent(c)
  PROVE  OwnState(c)'
  <1> USE DEF Quiet, Untouched
  <1>1. Sent(c)' = Sent(c)
    BY DEF Sent
  <1>2. (Sent(c) => tx[c] \in Range(txs) \cup Range(sealed) /\ tx[c] \notin available)'
    BY <1>1 DEF OwnState, Progress, Grows
  <1>3. (answer[c] = "address" => /\ at[c] \in {"answered", "script", "done"}
                                  /\ tx[c] \in Range(sealed) /\ Succeeded(tx[c]))'
    <2>1. Succeeded(tx[c]) => Succeeded(tx[c])'
      BY SucceededStays
    <2> QED BY <2>1 DEF OwnState, Progress, Grows
  <1>4. (at[c] = "script" => view[c] \in 0..Len(sealed) /\ \E i \in 1..view[c] : sealed[i] = tx[c])'
    BY DEF OwnState, Progress, Extends
  <1>5. (at[c] = "done" => tx[c] \in Range(results[c]))'
    BY DEF OwnState
  <1>6. (at[c] \in {"script", "done"} => answer[c] = "address")'
    BY DEF OwnState
  <1> QED BY <1>2, <1>3, <1>4, <1>5, <1>6 DEF OwnState

LEMMA QuietMiner ==
  ASSUME NEW c, MinerState(c), Progress, at'[c] = at[c], answer'[c] = answer[c],
         view'[c] = view[c], number'[c] = number[c]
  PROVE  MinerState(c)'
  BY DEF MinerState, Progress, Extends

\* A step of one creator: it is the only one that changes.
LEMMA CreatorStep ==
  ASSUME NEW c \in Creators, OwnInv, Progress, Domains', RequestsNext,
         CreateAccount(c) \/ LatestForScript(c) \/ ExecuteScript(c)
  PROVE  /\ MoreDomains' /\ UNCHANGED startup /\ serving
         /\ \A d \in Creators \ {c} : Quiet(d)
         /\ \A d \in Miners : /\ at'[d] = at[d] /\ answer'[d] = answer[d]
                              /\ view'[d] = view[d] /\ number'[d] = number[d]
  <1> USE DEF Goto, Answer, Quiet, Untouched
  <1>1. /\ DOMAIN at = Clients /\ DOMAIN tx = Creators /\ DOMAIN answer = Clients
        /\ DOMAIN results = Creators /\ DOMAIN view = Clients /\ DOMAIN number = Clients
        /\ c \in Clients /\ c \notin Miners /\ Creators \subseteq Clients /\ Miners \subseteq Clients
    BY RequestsAssumption DEF OwnInv, KeptInv, Domains, MoreDomains, Clients
  <1>2. serving
    <2>1. at[c] = "idle" => serving
      BY DEF CreateAccount, ReadServiceKey, ReturnServiceKey, BuildTransaction, CallSendTransaction,
             CallExecuteAndCommitBlock, CallCommitBlock2, LatestForScript, ExecuteScript
    <2> QED BY <1>1, <2>1 DEF OwnInv, StartState
  <1>3. CASE ReadServiceKey(c)
    BY <1>1, <1>2, <1>3 DEF ReadServiceKey, MoreDomains
  <1>4. CASE ReturnServiceKey(c)
    BY <1>1, <1>2, <1>4 DEF ReturnServiceKey, MoreDomains
  <1>5. CASE BuildTransaction(c)
    BY <1>1, <1>2, <1>5 DEF BuildTransaction, MoreDomains
  <1>6. CASE CallSendTransaction(c)
    BY <1>1, <1>2, <1>6 DEF CallSendTransaction, MoreDomains
  <1>7. CASE CallExecuteAndCommitBlock(c)
    BY <1>1, <1>2, <1>7 DEF CallExecuteAndCommitBlock, MoreDomains
  <1>8. CASE CallCommitBlock2(c)
    BY <1>1, <1>2, <1>8 DEF CallCommitBlock2, MoreDomains
  <1>9. CASE LatestForScript(c)
    BY <1>1, <1>2, <1>9 DEF LatestForScript, MoreDomains
  <1>10. CASE ExecuteScript(c)
    BY <1>1, <1>2, <1>10 DEF ExecuteScript, MoreDomains
  <1> QED BY <1>3, <1>4, <1>5, <1>6, <1>7, <1>8, <1>9, <1>10 DEF CreateAccount

\* The creator's own state after its step.  Its transaction becomes an accepted one
\* only by its own send, when nobody's is the same.
LEMMA CreatorKeepsOwn ==
  ASSUME NEW c \in Creators, OwnInv, Progress, KeptInv', RequestsNext,
         CreateAccount(c) \/ LatestForScript(c) \/ ExecuteScript(c)
  PROVE  /\ OwnState(c)'
         /\ Sent(c)' => /\ tx'[c] = tx[c]
                        /\ Sent(c) \/ tx[c] \notin Range(txs) \cup Range(sealed)
  <1> USE DEF Goto, Answer
  <1>1. /\ DOMAIN at = Clients /\ DOMAIN tx = Creators /\ DOMAIN answer = Clients
        /\ DOMAIN results = Creators /\ DOMAIN view = Clients /\ c \in Clients
        /\ OwnState(c) /\ TransactionKept(c)' /\ available \subseteq Range(sealed)
    BY DEF OwnInv, KeptInv, Domains, MoreDomains, Clients, StartState
  <1>2. available' = available
    BY CreatorStep DEF startup, KeptInv
  <1>3. CASE at'[c] \notin {"execute", "commit", "script", "done"} /\ answer'[c] # "address"
    BY <1>3 DEF OwnState, Sent
  <1>4. CASE ReadServiceKey(c) \/ ReturnServiceKey(c) \/ BuildTransaction(c)
    <2>1. at'[c] \in {"key", "build", "send"} /\ answer'[c] = answer[c]
          /\ at[c] \in {"idle", "key", "build"}
      BY <1>1, <1>4 DEF ReadServiceKey, ReturnServiceKey, BuildTransaction
    <2> QED BY <1>1, <1>3, <2>1 DEF OwnState
  <1>5. CASE CallSendTransaction(c)
    <2>1. CASE Answer(c, "error")
      BY <1>1, <1>3, <2>1
    <2>2. CASE SendTransaction(tx[c]) /\ Goto(c, "execute") /\ answer' = answer /\ tx' = tx
               /\ at[c] = "send"
      <3>1. tx[c] \notin Range(txs) \cup Range(sealed)
        BY <2>2 DEF SendTransaction, Refused
      <3>2. at'[c] = "execute" /\ answer'[c] # "address"
        BY <1>1, <2>2 DEF OwnState
      <3>3. tx'[c] \in Range(txs') \cup Range(sealed') /\ tx'[c] \notin available'
        BY <1>1, <1>2, <2>2, <3>1, <3>2 DEF TransactionKept
      <3> QED BY <2>2, <3>1, <3>2, <3>3 DEF OwnState
    <2> QED BY <1>5, <2>1, <2>2 DEF CallSendTransaction
  <1>6. CASE CallExecuteAndCommitBlock(c)
    <2>1. CASE Answer(c, "error")
      BY <1>1, <1>3, <2>1
    <2>2. CASE Goto(c, "commit") /\ answer' = answer /\ tx' = tx /\ at[c] = "execute"
      <3>1. at'[c] = "commit" /\ answer'[c] # "address" /\ Sent(c)
        BY <1>1, <2>2 DEF OwnState, Sent
      <3>2. tx'[c] \in Range(sealed') /\ tx'[c] \notin available'
        BY <1>1, <1>2, <2>2, <3>1 DEF TransactionKept, OwnState
      <3> QED BY <2>2, <3>1, <3>2 DEF OwnState
    <2> QED BY <1>6, <2>1, <2>2 DEF CallExecuteAndCommitBlock
  <1>7. CASE CallCommitBlock2(c)
    <2>1. /\ at[c] = "commit" /\ tx' = tx /\ at'[c] = "answered" /\ Sent(c)
          /\ answer'[c] = IF CommitAllowed THEN OwnResult(c) ELSE "error"
      BY <1>1, <1>7 DEF CallCommitBlock2, Sent
    <2>2. CASE answer'[c] # "address"
      BY <1>3, <2>1, <2>2
    <2>3. CASE answer'[c] = "address"
      <3>1. Succeeded(tx[c])
        BY <2>1, <2>3 DEF OwnResult
      <3>2. Succeeded(tx[c])'
        BY <2>1, <3>1, SucceededStays
      <3>3. tx[c] \in Range(sealed) /\ tx[c] \notin available
        BY <1>1, <2>1 DEF OwnState, OwnInv, KeptInv, TransactionKept
      <3>4. tx'[c] \in Range(sealed') /\ tx'[c] \notin available'
        BY <1>2, <2>1, <3>3 DEF Progress, Grows
      <3> QED BY <2>1, <2>3, <3>2, <3>4 DEF OwnState
    <2> QED BY <2>2, <2>3
  <1>8. CASE LatestForScript(c)
    <2>1. /\ at'[c] = "script" /\ answer[c] = "address" /\ view'[c] = Len(sealed) /\ tx' = tx
          /\ answer' = answer /\ sealed' = sealed /\ txs' = txs /\ processed' = processed /\ Sent(c)
      BY <1>1, <1>8 DEF LatestForScript, vars, chain, Sent
    <2>2. tx[c] \in Range(sealed) /\ Succeeded(tx[c]) /\ tx[c] \notin available
      BY <1>1, <2>1 DEF OwnState
    <2>3. \E i \in 1..Len(sealed) : sealed[i] = tx[c]
      <3>1. PICK U : sealed \in Seq(U)
        BY DEF OwnInv, KeptInv, OrderInv, TickerInv, ChainTypes
      <3> QED BY <2>2, <3>1, RangeEquality
    <2>4. view'[c] \in 0..Len(sealed')
      BY <2>1 DEF Progress, Extends
    <2>5. Succeeded(tx[c])'
      BY <2>1, <2>2 DEF Succeeded
    <2> QED BY <1>2, <2>1, <2>2, <2>3, <2>4, <2>5 DEF OwnState
  <1>9. CASE ExecuteScript(c)
    <2>1. /\ at[c] = "script" /\ at'[c] = "done" /\ tx' = tx /\ results'[c] = SubSeq(sealed, 1, view[c])
          /\ answer' = answer /\ sealed' = sealed /\ txs' = txs /\ processed' = processed
      BY <1>1, <1>9 DEF ExecuteScript, vars, chain
    <2>2. /\ answer[c] = "address" /\ tx[c] \in Range(sealed) /\ Succeeded(tx[c])
          /\ tx[c] \notin available /\ view[c] \in 0..Len(sealed) /\ Sent(c)
      BY <1>1, <2>1 DEF OwnState, Sent
    <2>3. PICK i \in 1..view[c] : sealed[i] = tx[c]
      BY <1>1, <2>1 DEF OwnState
    <2>4. tx[c] \in Range(SubSeq(sealed, 1, view[c]))
      <3>1. PICK U : sealed \in Seq(U)
        BY DEF OwnInv, KeptInv, OrderInv, TickerInv, ChainTypes
      <3>2. Len(sealed) \in Nat
        BY <3>1, LenProperties
      <3>3. i \in DOMAIN SubSeq(sealed, 1, view[c]) /\ SubSeq(sealed, 1, view[c])[i] = tx[c]
        BY <2>2, <2>3, <3>1, <3>2
      <3> QED BY <3>3 DEF Range
    <2>5. Succeeded(tx[c])'
      BY <2>1, <2>2 DEF Succeeded
    <2> QED BY <1>2, <2>1, <2>2, <2>4, <2>5 DEF OwnState
  <1> QED BY <1>4, <1>5, <1>6, <1>7, <1>8, <1>9 DEF CreateAccount

\* The chain and the effects make progress in every step.
LEMMA StepMakesProgress ==
  ASSUME OwnInv, [RequestsNext]_allVars
  PROVE  Progress
  <1>1. CASE RequestsNext
    BY <1>1, StepIsOneCall, CallsKeepOrder, CallsExtend, StepEffectsStay DEF OwnInv, KeptInv, Progress
  <1>2. CASE UNCHANGED allVars
    <2>1. UNCHANGED chain /\ UNCHANGED processed
      BY <1>2 DEF allVars, vars
    <2> QED BY <2>1, CallsKeepOrder, CallsExtend, ExecutionsGrow DEF OwnInv, KeptInv, Progress
  <1> QED BY <1>1, <1>2

\* A step that leaves the clients alone, and the start-up too or before they run.
LEMMA IdleStep ==
  ASSUME OwnInv, Progress, KeptInv', UNCHANGED requests, UNCHANGED startup
  PROVE  OwnInv'
  <1> USE DEF requests, startup
  <1>1. \A c \in Creators : OwnState(c)'
    BY QuietIsOwn DEF OwnInv, Quiet, Untouched
  <1>2. \A c \in Miners : MinerState(c)'
    BY QuietMiner DEF OwnInv
  <1>3. Distinct'
    BY DEF OwnInv, Distinct, Sent
  <1>4. StartState'
    BY DEF OwnInv, StartState, Progress, Grows
  <1>5. ProcessedIsSeq' /\ MoreDomains'
    BY DEF OwnInv, Progress, EffectsStay, MoreDomains
  <1> QED BY <1>1, <1>2, <1>3, <1>4, <1>5 DEF OwnInv

\* The start-up, while no client runs.
LEMMA StartupStep ==
  ASSUME OwnInv, Progress, KeptInv', Startup
  PROVE  OwnInv'
  <1>1. UNCHANGED requests /\ ~serving
    BY DEF Startup, DeployContract, CreateStartupAccount, FundStartupAccount, Serve
  <1>2. \A c \in Clients : at[c] = "idle" /\ answer[c] = None
    BY <1>1 DEF OwnInv, StartState
  <1>3. \A c \in Creators : ~Sent(c) /\ ~Sent(c)'
    BY <1>1, <1>2, RequestsAssumption DEF Sent, Clients, requests
  <1>4. \A c \in Creators : OwnState(c)'
    BY <1>1, <1>3, QuietIsOwn DEF OwnInv, Quiet, Untouched, requests
  <1>5. \A c \in Miners : MinerState(c)'
    BY <1>1, QuietMiner DEF OwnInv, requests
  <1>6. Distinct'
    BY <1>3 DEF Distinct
  <1>7. ProcessedIsSeq' /\ MoreDomains'
    BY <1>1 DEF OwnInv, Progress, EffectsStay, MoreDomains, requests
  <1>8. ASSUME NEW t, ExecuteAndCommit(<<t>>) PROVE t \in Range(sealed')
    <2>1. PICK U : TickerInv(U)
      BY DEF OwnInv, KeptInv, OrderInv
    <2>2. TickerInv(U \cup {t}) /\ <<t>> \in Seq(U \cup {t})
      BY <2>1, LargerSet
    <2>3. txs \in Seq(U \cup {t}) /\ sealed \in Seq(U \cup {t})
      BY <2>2 DEF TickerInv, ChainTypes
    <2> DEFINE sent == <<t>>
    <2>4. sealed' = (sealed \o txs) \o sent
      BY <1>8, <2>2, ExecuteAndCommitKeepsOrder
    <2>5. sealed \o txs \in Seq(U \cup {t}) /\ sent \in Seq(U \cup {t})
      BY <2>2, <2>3, ConcatProperties
    <2>6. t \in Range(sent)
      BY DEF Range
    <2> HIDE DEF sent
    <2>7. Range((sealed \o txs) \o sent) = Range(sealed \o txs) \cup Range(sent)
      <3>1. PICK V, w : w = sealed \o txs /\ w \in Seq(V) /\ sent \in Seq(V)
        BY <2>5
      <3>2. Range(w \o sent) = Range(w) \cup Range(sent)
        BY <3>1, RangeConcatenation
      <3> QED BY <3>1, <3>2
    <2> QED BY <2>4, <2>6, <2>7
  <1>9. StartState'
    <2>1. \A c \in Clients : at'[c] = "idle" /\ answer'[c] = None
      BY <1>1, <1>2 DEF requests
    <2>2. /\ funding # None => funding \in Range(sealed') /\ available \subseteq Range(sealed')
          /\ available \subseteq Range(sealed')
      BY DEF OwnInv, StartState, Progress, Grows
    <2>3. ASSUME NEW ok, DeployContract(ok) PROVE StartState'
      BY <2>1, <2>2, <2>3 DEF DeployContract, StartState
    <2>4. ASSUME NEW ok, CreateStartupAccount(ok) PROVE StartState'
      BY <1>8, <2>1, <2>2, <2>4 DEF CreateStartupAccount, StartState
    <2>5. ASSUME NEW ok, FundStartupAccount(ok) PROVE StartState'
      BY <2>1, <2>2, <2>5 DEF FundStartupAccount, StartState
    <2>6. CASE Serve
      BY <2>1, <2>2, <2>6 DEF Serve, StartState
    <2> QED BY <2>3, <2>4, <2>5, <2>6 DEF Startup
  <1> QED BY <1>4, <1>5, <1>6, <1>7, <1>9 DEF OwnInv

\* A step of a creator.
LEMMA CreatorsStep ==
  ASSUME NEW c \in Creators, OwnInv, Progress, KeptInv', RequestsNext,
         CreateAccount(c) \/ LatestForScript(c) \/ ExecuteScript(c)
  PROVE  OwnInv'
  <1>1. /\ MoreDomains' /\ UNCHANGED startup /\ serving
        /\ \A d \in Creators \ {c} : Quiet(d)
        /\ \A d \in Miners : /\ at'[d] = at[d] /\ answer'[d] = answer[d]
                             /\ view'[d] = view[d] /\ number'[d] = number[d]
    BY CreatorStep DEF KeptInv
  <1>2. /\ OwnState(c)'
        /\ Sent(c)' => /\ tx'[c] = tx[c]
                       /\ Sent(c) \/ tx[c] \notin Range(txs) \cup Range(sealed)
    BY CreatorKeepsOwn
  <1>3. \A d \in Creators : OwnState(d)'
    BY <1>1, <1>2, QuietIsOwn DEF OwnInv, startup
  <1>4. \A d \in Miners : MinerState(d)'
    BY <1>1, QuietMiner DEF OwnInv
  <1>5. \A d \in Creators \ {c} : tx'[d] = tx[d] /\ Sent(d)' = Sent(d)
    BY <1>1 DEF Quiet, Untouched, Sent
  <1>6. \A d \in Creators : Sent(d) => tx[d] \in Range(txs) \cup Range(sealed)
    BY DEF OwnInv, OwnState
  <1>7. Distinct'
    BY <1>2, <1>5, <1>6 DEF OwnInv, Distinct
  <1>8. StartState'
    BY <1>1 DEF OwnInv, StartState, Progress, Grows, startup
  <1> QED BY <1>1, <1>3, <1>4, <1>7, <1>8 DEF OwnInv, Progress, EffectsStay

\* A step of a client of /emulator/newBlock.
LEMMA MinersStep ==
  ASSUME NEW c \in Miners, OwnInv, Progress, KeptInv', NewBlock(c) \/ LatestOfNewBlock(c)
  PROVE  OwnInv'
  <1> USE DEF Goto, Answer
  <1>1. /\ DOMAIN at = Clients /\ DOMAIN answer = Clients
        /\ DOMAIN results = Creators /\ DOMAIN view = Clients /\ DOMAIN number = Clients
        /\ c \in Clients /\ c \notin Creators /\ Creators \subseteq Clients /\ Miners \subseteq Clients
    BY RequestsAssumption DEF OwnInv, KeptInv, Domains, MoreDomains, Clients
  <1>2. /\ MoreDomains' /\ UNCHANGED startup /\ tx' = tx
        /\ \A d \in Creators : Quiet(d)
        /\ \A d \in Miners \ {c} : /\ at'[d] = at[d] /\ answer'[d] = answer[d]
                                   /\ view'[d] = view[d] /\ number'[d] = number[d]
    <2>1. CASE NewBlock(c)
      BY <1>1, <2>1 DEF NewBlock, MoreDomains, Quiet, Untouched
    <2>2. CASE LatestOfNewBlock(c)
      BY <1>1, <2>2 DEF LatestOfNewBlock, MoreDomains, Quiet, Untouched
    <2> QED BY <2>1, <2>2
  <1>3. serving
    <2>1. at[c] = "idle" => serving
      BY DEF NewBlock, LatestOfNewBlock
    <2> QED BY <1>1, <2>1 DEF OwnInv, StartState
  <1>4. MinerState(c) /\ Len(sealed) \in Nat /\ Len(sealed') \in Nat
    BY DEF OwnInv, Progress, Extends
  <1>5. MinerState(c)'
    <2>1. CASE NewBlock(c)
      <3>1. /\ at[c] = "idle" /\ number'[c] = Len(sealed') /\ view' = view
            /\ at'[c] \in {"committed", "answered"} /\ answer'[c] \in {answer[c], "error"}
        BY <1>1, <2>1 DEF NewBlock
      <3> QED BY <1>4, <3>1 DEF MinerState
    <2>2. CASE LatestOfNewBlock(c)
      <3>1. /\ at[c] = "committed" /\ number' = number /\ view'[c] = Len(sealed)
            /\ at'[c] = "answered" /\ sealed' = sealed
        BY <1>1, <2>2 DEF LatestOfNewBlock, vars, chain
      <3> QED BY <1>4, <3>1 DEF MinerState
    <2> QED BY <2>1, <2>2
  <1>6. \A d \in Miners : MinerState(d)'
    BY <1>2, <1>5, QuietMiner DEF OwnInv
  <1>7. \A d \in Creators : OwnState(d)'
    BY <1>2, QuietIsOwn DEF OwnInv, startup
  <1>8. Distinct'
    BY <1>2 DEF OwnInv, Distinct, Sent, Quiet, Untouched
  <1>9. StartState'
    BY <1>2, <1>3 DEF OwnInv, StartState, Progress, Grows, startup
  <1> QED BY <1>2, <1>6, <1>7, <1>8, <1>9 DEF OwnInv, Progress, EffectsStay

LEMMA OwnInvStep ==
  ASSUME OwnInv, [RequestsNext]_allVars
  PROVE  OwnInv'
  <1>1. Progress /\ KeptInv'
    BY StepMakesProgress, KeptInvStep DEF OwnInv
  <1>2. CASE UNCHANGED requests /\ UNCHANGED startup
    BY <1>1, <1>2, IdleStep
  <1>3. CASE UNCHANGED allVars
    BY <1>2, <1>3 DEF allVars
  <1>4. CASE RequestsNext
    <2>1. CASE Startup
      BY <1>1, <2>1, StartupStep
    <2>2. ASSUME NEW c \in Creators, CreateAccount(c) \/ LatestForScript(c) \/ ExecuteScript(c)
          PROVE  OwnInv'
      BY <1>1, <1>4, <2>2, CreatorsStep
    <2>3. ASSUME NEW c \in Miners, NewBlock(c) \/ LatestOfNewBlock(c) PROVE OwnInv'
      BY <1>1, <2>3, MinersStep
    <2>4. ASSUME NEW t \in Txs, UserSends(t) PROVE OwnInv'
      BY <1>2, <2>4 DEF UserSends
    <2>5. CASE \/ Ticking(Tick) \/ Ticking(Stop) \/ Ticking(Shutdown)
               \/ \E g \in Tickers \cap cast : Ticking(TakeTick(g)) \/ Ticking(TakeDone(g))
      BY <1>2, <2>5 DEF Ticking
    <2>6. CASE \E g \in Tickers \cap cast : TickerExecutes(g) \/ TickerCommits(g)
      BY <1>2, <2>6 DEF TickerExecutes, TickerCommits
    <2> QED BY <1>4, <2>1, <2>2, <2>3, <2>4, <2>5, <2>6 DEF RequestsNext
  <1> QED BY <1>3, <1>4

LEMMA OwnInvariant == RequestsSpec => []OwnInv
  <1>1. ASSUME RequestsInit PROVE OwnInv
    <2>1. /\ at = [c \in Clients |-> "idle"] /\ answer = [c \in Clients |-> None]
          /\ number = [c \in Clients |-> 0] /\ view = [c \in Clients |-> 0]
          /\ results = [c \in Creators |-> <<>>] /\ processed = <<>>
          /\ funding = None /\ available = {} /\ Creators \subseteq Clients /\ Miners \subseteq Clients
      BY <1>1 DEF RequestsInit, Clients
    <2>2. (\A c \in Creators : OwnState(c) /\ ~Sent(c)) /\ \A c \in Miners : MinerState(c)
      BY <2>1, RequestsAssumption DEF OwnState, Sent, MinerState
    <2>3. StartState /\ MoreDomains /\ Distinct
      BY <2>1, <2>2 DEF StartState, MoreDomains, Distinct
    <2>4. ProcessedIsSeq
      <3>1. <<>> \in Seq({})
        OBVIOUS
      <3> QED BY <2>1, <3>1 DEF ProcessedIsSeq
    <2> QED BY <1>1, <2>2, <2>3, <2>4, KeptInvInit DEF OwnInv
  <1>2. OwnInv /\ [RequestsNext]_allVars => OwnInv'
    BY OwnInvStep
  <1> QED BY <1>1, <1>2, PTL DEF RequestsSpec

\* CreateAccount returns the address of an account that its own transaction made: the
\* transaction is sealed and took effect, is none of the start-up's, and no other call
\* returned an address for it, although overlapping calls may build the same one.
THEOREM AddressesAreOwn == RequestsSpec => []AddressIsOwn
  <1>1. ASSUME OwnInv PROVE AddressIsOwn
    <2>1. \A c \in Creators : answer[c] = "address" => Sent(c)
      BY DEF Sent
    <2> QED BY <1>1, <2>1 DEF OwnInv, OwnState, Distinct, AddressIsOwn
  <1> QED BY <1>1, OwnInvariant, PTL

\* What a client did is in what it reads next: the account in the state of its script,
\* the committed block at or below the one that /emulator/newBlock answers with.
THEOREM OwnWritesAreRead == RequestsSpec => []ClientsSeeTheirOwn
  <1>1. ASSUME OwnInv PROVE ClientsSeeTheirOwn
    BY <1>1 DEF OwnInv, OwnState, MinerState, ClientsSeeTheirOwn
  <1> QED BY <1>1, OwnInvariant, PTL

=============================================================================

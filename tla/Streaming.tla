----------------------------- MODULE Streaming -----------------------------
(***************************************************************************)
(* Subscriptions (server/access/streamBackend.go, adapters/access.go): the *)
(* blockchain notifies the streamers of a committed block, and each        *)
(* streamer sends what it finds from its cursor on, while the chain grows. *)
(* A streamer reads the chain in several calls, each of which takes the    *)
(* blockchain's lock for itself: one step of this module is one such call. *)
(*                                                                         *)
(* The streamer, the subscription with its cursor and the broadcaster are  *)
(* parts of flow-go: a notification sets a flag, and the streamer that     *)
(* takes it sends until the next height is not ready.                      *)
(***************************************************************************)
EXTENDS Queries

CONSTANT Subs       \* subscriptions that clients may open

VARIABLE subs

streamingVars == <<vars, indexes, subs>>

\* The statuses that are reported for a transaction, in their order.
Statuses == <<"pending", "finalized", "executed", "sealed">>

\* kind and tx: what is asked for; start, next: the first and the next height;
\* notified: the notifier's channel holds a token; block, results, evmTxEvents: what
\* the call of getData has read so far; reported: lastStatus is a final status.
NoSub == [state |-> "none", kind |-> "blocks", tx |-> "none", start |-> 0, next |-> 0,
          notified |-> FALSE, block |-> GenesisBlock, results |-> <<>>,
          evmTxEvents |-> <<>>, reported |-> FALSE, delivered |-> <<>>]

Active(s) == subs[s].state \notin {"none", "closed"}

-----------------------------------------------------------------------------
(* Opening and closing                                                     *)

Opened(kind, t, h) ==
    [NoSub EXCEPT !.state = "starting", !.kind = kind, !.tx = t, !.start = h, !.next = h]

\* Blocks, headers or digests, from any height; a block identifier and the latest
\* block stand for the height of a stored block.
SubscribeBlocks(s) ==
    /\ subs[s].state = "none"
    /\ \E h \in 0..MaxHeight : subs' = [subs EXCEPT ![s] = Opened("blocks", "none", h)]
    /\ UNCHANGED <<vars, indexes>>

\* Execution data, events or account statuses, likewise.
SubscribeExecutionData(s) ==
    /\ subs[s].state = "none"
    /\ \E h \in 0..MaxHeight : subs' = [subs EXCEPT ![s] = Opened("data", "none", h)]
    /\ UNCHANGED <<vars, indexes>>

\* The statuses of a transaction, from a stored block.
SubscribeTransactionStatuses(s) ==
    /\ subs[s].state = "none"
    /\ \E t \in Txs, h \in DOMAIN blocks :
          subs' = [subs EXCEPT ![s] = Opened("status", t, h)]
    /\ UNCHANGED <<vars, indexes>>

\* The client goes away, or does not receive in time.
Cancel(s) ==
    /\ Active(s)
    /\ subs' = [subs EXCEPT ![s].state = "closed"]
    /\ UNCHANGED <<vars, indexes>>

-----------------------------------------------------------------------------
(* The streamer's goroutine                                                *)

\* Registers the notifier and notifies itself.
Stream(s) ==
    /\ subs[s].state = "starting"
    /\ subs' = [subs EXCEPT ![s].state = "waiting", ![s].notified = TRUE]
    /\ UNCHANGED <<vars, indexes>>

Wake(s) ==
    /\ subs[s].state = "waiting" /\ subs[s].notified
    /\ subs' = [subs EXCEPT ![s].state = "sending", ![s].notified = FALSE]
    /\ UNCHANGED <<vars, indexes>>

\* The first call of getData: validateHeight for blocks and statuses, the block
\* itself for execution data.  Without a block, the streamer waits again.
CheckHeight(s) ==
    /\ subs[s].state = "sending"
    /\ subs' = [subs EXCEPT ![s] =
                  IF @.next > latest THEN [@ EXCEPT !.state = "waiting"]
                  ELSE [@ EXCEPT !.state = "reading", !.block = blocks[subs[s].next]]]
    /\ UNCHANGED <<vars, indexes>>

Deliver(sub, response) ==
    [sub EXCEPT !.delivered = Append(@, response), !.next = @ + 1, !.state = "sending",
                !.block = GenesisBlock, !.results = <<>>, !.evmTxEvents = <<>>]

\* getBlockResponse, getBlockHeaderResponse, getBlockDigestResponse.
ReadBlock(s) ==
    /\ subs[s].state = "reading" /\ subs[s].kind = "blocks"
    /\ \E b \in BlockByHeight(subs[s].next) :
          subs' = [subs EXCEPT ![s] = Deliver(@, [block |-> BlockID(b)])]
    /\ UNCHANGED <<vars, indexes>>

\* getExecutionDataFunc: the result of the next transaction of the block.
ReadResult(s) ==
    LET n == Len(subs[s].results) + 1
    IN  /\ subs[s].state = "reading" /\ subs[s].kind = "data"
        /\ n <= Len(subs[s].block.txs)
        /\ subs' = [subs EXCEPT ![s].results = Append(@, GetTransactionResult(subs[s].block.txs[n]))]
        /\ UNCHANGED <<vars, indexes>>

\* The events that come with each result: one that is not sealed has none.
ResultEvents(results) ==
    [i \in DOMAIN results |-> IF results[i].status = "sealed" THEN <<results[i].tx>> ELSE <<>>]

\* Who emits EVM.TransactionExecuted, and who EVM.BlockExecuted.
EVMTransactions == Txs \cup Callbacks \cup {Bootstrap}
EVMBlocks == {Chunk, Bootstrap}

\* GetEventsByHeight for the type of event that the members of E emit: for each
\* of them the list of its events.
EventsOfType(h, E) == [x \in E |-> EventsByHeight(h, x)]

\* All results of the block have been read; the events of the EVM's transactions
\* follow.
ReadTransactionEvents(s) ==
    /\ subs[s].state = "reading" /\ subs[s].kind = "data"
    /\ Len(subs[s].results) = Len(subs[s].block.txs)
    /\ subs' = [subs EXCEPT ![s].state = "events",
                            ![s].evmTxEvents = EventsOfType(subs[s].next, EVMTransactions)]
    /\ UNCHANGED <<vars, indexes>>

\* getExecutionDataResponse, and the responses that filter the events of it.  A
\* block with transactions has a chunk, with the events of their results and behind
\* them those of the EVM's block; any other, the genesis block among them, gets one
\* with the events of the EVM's transactions and of its block.
DataResponse(sub, evmBlockEvents) ==
    [block |-> BlockID(sub.block), results |-> sub.results, events |-> ResultEvents(sub.results),
     evm |-> IF sub.block.txs = <<>> THEN <<sub.evmTxEvents, evmBlockEvents>> ELSE <<evmBlockEvents>>]

\* Mutant: the events are read from the latest block.
ReadLatestEvents(s) ==
    /\ subs[s].state = "events"
    /\ subs' = [subs EXCEPT ![s] = Deliver(@, DataResponse(@, EventsOfType(latest, EVMBlocks)))]
    /\ UNCHANGED <<vars, indexes>>

\* The last call: the events of the EVM's block, with which the response is complete.
ReadBlockEvents(s) ==
    /\ subs[s].state = "events"
    /\ subs' = [subs EXCEPT ![s] = Deliver(@, DataResponse(@, EventsOfType(@.next, EVMBlocks)))]
    /\ UNCHANGED <<vars, indexes>>

\* Mutant: lastStatus is not kept.
ReadStatusAgain(s) ==
    /\ subs[s].state = "reading" /\ subs[s].kind = "status"
    /\ subs' = [subs EXCEPT ![s] =
                  Deliver(@, [statuses |-> Statuses, result |-> GetTransactionResult(@.tx)])]
    /\ UNCHANGED <<vars, indexes>>

\* getTransactionStatusResponse: GetTransactionResult knows an answer for every
\* transaction and none of them is an error, so that the current status is
\* always taken to be sealed and all statuses are reported.
ReadStatus(s) ==
    /\ subs[s].state = "reading" /\ subs[s].kind = "status"
    /\ subs' = [subs EXCEPT ![s] =
                  IF @.reported THEN [@ EXCEPT !.state = "closed"]
                  ELSE [Deliver(@, [statuses |-> Statuses, result |-> GetTransactionResult(@.tx)])
                          EXCEPT !.reported = TRUE]]
    /\ UNCHANGED <<vars, indexes>>

Streamer(s) == \/ Stream(s) \/ Wake(s) \/ CheckHeight(s)
               \/ ReadBlock(s) \/ ReadResult(s)
               \/ ReadTransactionEvents(s) \/ ReadBlockEvents(s) \/ ReadStatus(s)

-----------------------------------------------------------------------------
(* The blockchain                                                          *)

\* Mutant: listeners are not told of blocks without transactions.
PublishTransactionsOnly ==
    subs' = [s \in Subs |->
               [subs[s] EXCEPT !.notified = @ \/ /\ subs[s].state \notin {"none", "starting"}
                                                 /\ blocks'[latest'].txs # <<>>]]

\* Every registered notifier gets a token, unless it holds one.
Publish ==
    subs' = [s \in Subs |->
               [subs[s] EXCEPT !.notified = @ \/ subs[s].state \notin {"none", "starting"}]]

\* An operation of the blockchain.  A commit that reaches its end publishes.
Operation ==
    /\ \/ \E t \in Txs : AddTransaction(t) \/ SendTransaction(t)
       \/ ExecuteBlock \/ ExecuteNextTransaction
       \/ CommitBlock \/ ExecuteAndCommitBlock \/ ResetPendingBlock
       \/ EnableAutoMine \/ DisableAutoMine
    /\ Index
    /\ IF latest' # latest /\ pending'.height = latest' + 1 THEN Publish ELSE UNCHANGED subs

\* A restart ends every subscription.
StopAll ==
    /\ Restart
    /\ subs' = [s \in Subs |-> IF Active(s) THEN [subs[s] EXCEPT !.state = "closed"] ELSE subs[s]]
    /\ UNCHANGED indexes

StreamingInit == QueriesInit /\ subs = [s \in Subs |-> NoSub]

StreamingNext == Operation \/ StopAll \/ \E s \in Subs :
                    \/ SubscribeBlocks(s) \/ SubscribeExecutionData(s) \/ SubscribeTransactionStatuses(s)
                    \/ Cancel(s) \/ Streamer(s)

\* The goroutine of a streamer is scheduled.
StreamingSpec ==
    /\ StreamingInit /\ [][StreamingNext]_streamingVars
    /\ \A s \in Subs : WF_streamingVars(Streamer(s))

-----------------------------------------------------------------------------
(* Properties                                                              *)

\* The events of block b that x emits when it runs.
Emitted(b, x) ==
    IF x \in Range(b.txs) \cup Range(b.sys) \/ (x = Bootstrap /\ b.height = 0) THEN <<x>> ELSE <<>>

\* A subscription delivers the blocks of the chain from its first height on,
\* each once and in order; with execution data come the sealed result of every
\* transaction of that block with its events, and the EVM's events of that block:
\* those of its EVM block and, where no transaction of a user gives the block a
\* chunk (those of the bootstrap in the genesis block are among them), also those
\* of its EVM transactions.  Block, results and the two types of events are read in
\* separate calls between which the chain grows.
DeliveredIsTheChain ==
    \A s \in Subs : subs[s].kind # "status" =>
        \A i \in DOMAIN subs[s].delivered :
            LET b == blocks[subs[s].start + i - 1]
                r == subs[s].delivered[i]
                transactions == [x \in EVMTransactions |-> Emitted(b, x)]
                block == [x \in EVMBlocks |-> Emitted(b, x)]
            IN  /\ r.block = BlockID(b)
                /\ subs[s].kind = "data" =>
                      /\ r.results = [j \in DOMAIN b.txs |-> SealedResult(b.txs[j], b, b.results[b.txs[j]])]
                      /\ r.events = [j \in DOMAIN b.txs |-> <<b.txs[j]>>]
                      /\ r.evm = IF b.txs = <<>> THEN <<transactions, block>> ELSE <<block>>

\* A client that stays learns of every block from its first height on: no
\* notification is lost, whenever the subscription starts and however many
\* blocks are committed while its streamer sends or goes to sleep.
EveryBlockIsDelivered ==
    \A s \in Subs, h \in 0..MaxHeight :
        Active(s) /\ subs[s].kind # "status" /\ subs[s].start <= h /\ h <= latest
            ~> ~Active(s) \/ Len(subs[s].delivered) > h - subs[s].start

\* A status subscription for a transaction that is sealed reports once and ends
\* when a block follows the one it started at: it neither repeats itself nor stays
\* open after the final status was sent.
StatusSubscriptionEnds ==
    \A s \in Subs :
        Active(s) /\ subs[s].kind = "status" /\ subs[s].start < latest
          /\ GetTransactionResult(subs[s].tx).status = "sealed"
            ~> ~Active(s) /\ Len(subs[s].delivered) <= 1

\* A transaction is reported as sealed only when its execution is sealed.
ReportedSealedIsSealed ==
    \A s \in Subs : subs[s].kind = "status" =>
        \A i \in DOMAIN subs[s].delivered : subs[s].delivered[i].result.status = "sealed"

=============================================================================

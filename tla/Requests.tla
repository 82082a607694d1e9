----------------------------- MODULE Requests ------------------------------
(***************************************************************************)
(* Requests that are sequences of separately locked calls, while the block *)
(* ticker and the other clients come in between: CreateAccount and         *)
(* ExecuteScriptAtLatestBlock of the SDK adapter (adapters/sdk.go) and     *)
(* /emulator/newBlock of the admin server (server/utils/emulator.go), and  *)
(* before them what NewEmulatorServer does on its own: deploying contracts *)
(* and creating accounts (server/server.go, emulator/contracts.go).  The   *)
(* server produces blocks on a ticker, or on every transaction sent.       *)
(*                                                                         *)
(* A transaction of the service account is known by its content, the       *)
(* sequence number of the service key and its reference block; it takes    *)
(* effect if its number is the next one.  Empty blocks are not counted: a  *)
(* block is told apart from others only as a reference, and a height is    *)
(* the number of transactions sealed up to it.  The code of a transaction  *)
(* that creates an account for a client does not fail.                     *)
(***************************************************************************)
EXTENDS BlocksTicker, SequencesExt

CONSTANTS
    Creators,       \* clients of the SDK adapter, each creates one account
    Miners,         \* clients of /emulator/newBlock, each for one request
    Content,        \* creator -> the keys and contracts it asks for
    NumContracts,   \* contracts that the server deploys when it starts
    NumAccounts,    \* accounts that the server creates when it starts
    None,
    Casts           \* bound: the sets of clients, transactions, goroutines and
                    \* "shutdown" that take part together

Clients == Creators \cup Miners

ASSUME RequestsAssumption ==
    /\ Creators # {} /\ Creators \cap Miners = {}
    /\ None \notin Clients \cup {"not found", "address", "block"}
    /\ NumContracts \in Nat /\ NumAccounts \in Nat
    /\ UNION Casts \subseteq Clients \cup Txs \cup Tickers \cup {"shutdown"}

VARIABLES
    cast,           \* those of Casts that take part
    autoMine,       \* conf.AutoMine: set when the server has no block time
    processed,      \* service transactions that took effect, in order
    latest,         \* the latest block as a reference, None if nobody has read it
    at,             \* where each client is in its request
    number,         \* creator: sequence number; miner: height of its block
    tx,             \* creator: the transaction it built
    results,        \* creator: the transactions that a call returned results of
    answer,         \* creator: what CreateAccount returned
    view,           \* the height that GetLatestBlock gave to a client
    contracts,      \* start-up: contracts still to be deployed
    accounts,       \* start-up: accounts still to be created
    funding,        \* start-up: the account that is to be funded
    available,      \* start-up: the accounts announced as available
    serving         \* NewEmulatorServer has returned a server

startup == <<contracts, accounts, funding, available, serving>>
requests == <<at, number, tx, results, answer, view>>
setup == <<cast, autoMine>>
allVars == <<vars, cast, autoMine, processed, latest, requests, startup>>

-----------------------------------------------------------------------------
(* The calls of the blockchain                                             *)

\* A service transaction takes effect if its number is the next one.
Effect(before, t) == IF t \notin Txs /\ t.seq = Len(before) THEN Append(before, t) ELSE before

\* The transactions of a run, one after the other.
Effects(before, run) ==
    LET after[i \in 0..Len(run)] == IF i = 0 THEN before ELSE Effect(after[i - 1], run[i])
    IN  after[Len(run)]

Executes(run) == processed' = Effects(processed, run)

Remaining == SubSeq(txs, index + 1, Len(txs))

\* The transactions were executed and their code did not fail.
Succeeded(t) == t \in Range(processed) /\ t.ok

Refused(t) == ExecutionStarted \/ t \in Range(txs) \/ t \in Range(sealed)

\* addTransaction of the added ones, then executeAndCommitBlock, under one lock.
ExecuteAndCommit(added) ==
    LET block == txs \o added
        run == SubSeq(block, index + 1, Len(block))
    IN  /\ txs' = <<>> /\ index' = 0
        /\ sealed' = sealed \o block
        /\ accepted' = accepted \o added
        /\ executions' = executions \o run
        /\ Executes(run)
        /\ latest' = None

\* executeBlock fails on a block that is executed already.
Exhausted == ExecutionComplete /\ ~Empty

\* Mutant: the error of addTransaction is not returned.
SendIgnoringErrors(t) ==
    IF Refused(t)
    THEN UNCHANGED <<chain, processed, latest>>
    ELSE AddTransaction(t) /\ UNCHANGED <<processed, latest>>

\* SendTransaction: with autoMine the block is executed and committed at once.
SendTransaction(t) ==
    /\ ~Refused(t)
    /\ IF autoMine
       THEN ExecuteAndCommit(<<t>>)
       ELSE AddTransaction(t) /\ UNCHANGED <<processed, latest>>

CommitPending ==
    /\ CommitBlock
    /\ latest' = IF CommitAllowed THEN None ELSE latest
    /\ UNCHANGED processed

-----------------------------------------------------------------------------
(* NewEmulatorServer, before anybody else runs: each transaction is added, *)
(* executed and committed before the next one is built                     *)

SealedNumber == Len(SelectSeq(processed, LAMBDA t : t \in Range(sealed)))

ServiceTransaction(content, seq, ref, ok) ==
    [content |-> content, seq |-> seq, ref |-> ref, ok |-> ok]

StartupTransaction(content, ref, ok) == ServiceTransaction(content, SealedNumber, ref, ok)

\* deployContract.  The first failure ends DeployContracts; it is only logged.
DeployContract(ok) ==
    LET t == StartupTransaction("contract", contracts, ok)
    IN  /\ ~serving /\ contracts > 0
        /\ ExecuteAndCommit(<<t>>)
        /\ contracts' = IF t \in Range(processed') /\ ok THEN contracts - 1 ELSE 0
        /\ UNCHANGED <<ticker, setup, requests, accounts, funding, available, serving>>

\* An account that cannot be created is skipped.
CreateStartupAccount(ok) ==
    LET t == StartupTransaction("account", accounts, ok)
    IN  /\ ~serving /\ contracts = 0 /\ accounts > 0 /\ funding = None
        /\ ExecuteAndCommit(<<t>>)
        /\ IF t \in Range(processed') /\ ok
           THEN funding' = t /\ UNCHANGED accounts
           ELSE accounts' = accounts - 1 /\ UNCHANGED funding
        /\ UNCHANGED <<ticker, setup, requests, contracts, available, serving>>

\* One that cannot be funded exists but is not announced.
FundStartupAccount(ok) ==
    LET t == StartupTransaction("fund", accounts, ok)
    IN  /\ ~serving /\ funding # None
        /\ ExecuteAndCommit(<<t>>)
        /\ available' = IF t \in Range(processed') /\ ok THEN available \cup {funding} ELSE available
        /\ accounts' = accounts - 1
        /\ funding' = None
        /\ UNCHANGED <<ticker, setup, requests, contracts, serving>>

\* There is no server when accounts were asked for and none was made.
Serve ==
    /\ ~serving /\ contracts = 0 /\ accounts = 0
    /\ NumAccounts = 0 \/ available # {}
    /\ serving' = TRUE
    /\ UNCHANGED <<vars, setup, processed, latest, requests, contracts, accounts, funding, available>>

-----------------------------------------------------------------------------
(* CreateAccount and ExecuteScriptAtLatestBlock                            *)

Goto(c, place) == at' = [at EXCEPT ![c] = place]

Answer(c, what) ==
    /\ Goto(c, "answered")
    /\ answer' = [answer EXCEPT ![c] = what]

\* ServiceKey reads the account in the latest block.
ReadServiceKey(c) ==
    /\ serving /\ c \in cast /\ at[c] = "idle"
    /\ Goto(c, "key")
    /\ number' = [number EXCEPT ![c] = SealedNumber]
    /\ UNCHANGED <<vars, setup, processed, latest, tx, results, answer, view, startup>>

\* It then writes the number to b.serviceKey and returns that, without a lock: the
\* number may be what another call wrote.
ReturnServiceKey(c) ==
    /\ at[c] = "key"
    /\ Goto(c, "build")
    /\ \E d \in {e \in Creators : at[e] = "key"} : number' = [number EXCEPT ![c] = number[d]]
    /\ UNCHANGED <<vars, setup, processed, latest, tx, results, answer, view, startup>>

\* GetLatestBlock gives the reference block of the transaction.
BuildTransaction(c) ==
    /\ at[c] = "build"
    /\ Goto(c, "send")
    /\ latest' = IF latest = None THEN c ELSE latest
    /\ tx' = [tx EXCEPT ![c] = ServiceTransaction(Content[c], number[c], latest', TRUE)]
    /\ UNCHANGED <<vars, setup, processed, number, results, answer, view, startup>>

CallSendTransaction(c) ==
    /\ at[c] = "send"
    /\ \/ /\ SendTransaction(tx[c])
          /\ Goto(c, "execute")
          /\ UNCHANGED answer
       \/ /\ Refused(tx[c])
          /\ Answer(c, "error")
          /\ UNCHANGED <<chain, processed, latest>>
    /\ UNCHANGED <<ticker, setup, number, tx, results, view, startup>>

CallExecuteAndCommitBlock(c) ==
    /\ at[c] = "execute"
    /\ \/ /\ ~Exhausted
          /\ ExecuteAndCommit(<<>>)
          /\ results' = [results EXCEPT ![c] = Remaining]
          /\ Goto(c, "commit")
          /\ UNCHANGED answer
       \/ /\ Exhausted
          /\ Answer(c, "error")
          /\ UNCHANGED <<chain, processed, latest, results>>
    /\ UNCHANGED <<ticker, setup, number, tx, view, startup>>

\* Mutant: the last result is taken for the one of the transaction.
LastResult(c) ==
    IF results[c] = <<>> THEN "not found"
    ELSE IF Last(results[c]) \in Txs \/ Succeeded(Last(results[c])) THEN "address" ELSE "error"

\* The result of the transaction among those that ExecuteAndCommitBlock returned.
OwnResult(c) ==
    IF tx[c] \notin Range(results[c]) THEN "not found"
    ELSE IF Succeeded(tx[c]) THEN "address" ELSE "error"

\* A second commit follows; when it is refused the results are not looked at.
CallCommitBlock2(c) ==
    /\ at[c] = "commit"
    /\ CommitPending
    /\ Answer(c, IF CommitAllowed THEN OwnResult(c) ELSE "error")
    /\ UNCHANGED <<ticker, setup, number, tx, results, view, startup>>

\* ExecuteScriptAtLatestBlock: GetLatestBlock, then ExecuteScriptAtBlockHeight.
LatestForScript(c) ==
    /\ at[c] = "answered" /\ c \in Creators /\ answer[c] = "address"
    /\ Goto(c, "script")
    /\ view' = [view EXCEPT ![c] = Len(sealed)]
    /\ UNCHANGED <<vars, setup, processed, latest, number, tx, results, answer, startup>>

\* Mutant: the script reads the state that the block was built on.
ExecuteScriptBelow(c) ==
    /\ at[c] = "script"
    /\ Goto(c, "done")
    /\ results' = [results EXCEPT ![c] = SubSeq(sealed, 1, view[c] - 1)]
    /\ UNCHANGED <<vars, setup, processed, latest, number, tx, answer, view, startup>>

ExecuteScript(c) ==
    /\ at[c] = "script"
    /\ Goto(c, "done")
    /\ results' = [results EXCEPT ![c] = SubSeq(sealed, 1, view[c])]
    /\ UNCHANGED <<vars, setup, processed, latest, number, tx, answer, view, startup>>

-----------------------------------------------------------------------------
(* /emulator/newBlock, other clients and the ticker                        *)

NewBlock(c) ==
    /\ serving /\ c \in cast /\ at[c] = "idle"
    /\ CommitPending
    /\ IF CommitAllowed THEN Goto(c, "committed") /\ UNCHANGED answer ELSE Answer(c, "error")
    /\ number' = [number EXCEPT ![c] = Len(sealed')]
    /\ UNCHANGED <<ticker, setup, tx, results, view, startup>>

LatestOfNewBlock(c) ==
    /\ at[c] = "committed"
    /\ view' = [view EXCEPT ![c] = Len(sealed)]
    /\ Answer(c, "block")
    /\ UNCHANGED <<vars, setup, processed, latest, number, tx, results, startup>>

UserSends(t) ==
    /\ serving /\ t \in cast
    /\ SendTransaction(t)
    /\ UNCHANGED <<ticker, setup, requests, startup>>

\* The timer runs from NewBlocksTicker on; the goroutines from Start on.
Ticking(A) == serving /\ ~autoMine /\ A /\ UNCHANGED <<setup, processed, latest, requests, startup>>

TickerExecutes(g) ==
    /\ CallExecuteBlock(g)
    /\ Executes(Remaining)
    /\ UNCHANGED <<setup, latest, requests, startup>>

TickerCommits(g) ==
    /\ CallCommitBlock(g)
    /\ CommitPending
    /\ UNCHANGED <<setup, requests, startup>>

-----------------------------------------------------------------------------

RequestsInit ==
    /\ Init
    /\ cast \in Casts
    /\ autoMine \in BOOLEAN
    /\ processed = <<>> /\ latest = None
    /\ at = [c \in Clients |-> "idle"]
    /\ number = [c \in Clients |-> 0]
    /\ tx = [c \in Creators |-> None]
    /\ results = [c \in Creators |-> <<>>]
    /\ answer = [c \in Clients |-> None]
    /\ view = [c \in Clients |-> 0]
    /\ contracts = NumContracts /\ accounts = NumAccounts
    /\ funding = None /\ available = {} /\ serving = FALSE

Startup ==
    \/ \E ok \in BOOLEAN : DeployContract(ok) \/ CreateStartupAccount(ok) \/ FundStartupAccount(ok)
    \/ Serve

CreateAccount(c) ==
    \/ ReadServiceKey(c) \/ ReturnServiceKey(c) \/ BuildTransaction(c)
    \/ CallSendTransaction(c) \/ CallExecuteAndCommitBlock(c) \/ CallCommitBlock2(c)

RequestsNext ==
    \/ Startup
    \/ \E c \in Creators : CreateAccount(c) \/ LatestForScript(c) \/ ExecuteScript(c)
    \/ \E c \in Miners : NewBlock(c) \/ LatestOfNewBlock(c)
    \/ \E t \in Txs : UserSends(t)
    \/ Ticking(Tick) \/ Ticking(Stop)
    \/ "shutdown" \in cast /\ Ticking(Shutdown)
    \/ \E g \in Tickers \cap cast : \/ Ticking(TakeTick(g)) \/ Ticking(TakeDone(g))
                          \/ TickerExecutes(g) \/ TickerCommits(g)

\* As for the ticker alone; nothing is assumed of the clients.
RequestsFairness ==
    /\ WF_allVars(Ticking(Tick))
    /\ WF_allVars(\E g \in Tickers \cap cast : Ticking(TakeTick(g)))
    /\ WF_allVars(Ticking(Stop))
    /\ \A g \in Tickers : /\ WF_allVars(g \in cast /\ TickerExecutes(g))
                          /\ WF_allVars(g \in cast /\ TickerCommits(g))
                          /\ SF_allVars(g \in cast /\ Ticking(TakeDone(g)))

RequestsSpec == RequestsInit /\ [][RequestsNext]_allVars /\ RequestsFairness

-----------------------------------------------------------------------------
(* Properties                                                              *)

\* CreateAccount returns an address only for an account of its own: its transaction
\* is sealed and took effect, and no other client, nor the start of the server, got
\* the same account, although calls overlap and may build the same transaction.
AddressIsOwn ==
    \A c \in Creators : answer[c] = "address" =>
        /\ tx[c] \in Range(sealed) /\ Succeeded(tx[c]) /\ tx[c] \notin available
        /\ \A d \in Creators \ {c} : answer[d] = "address" => tx[d] # tx[c]

\* When CreateAccount fails to find its result, the transaction is not lost: another
\* call has executed and sealed it.
NotFoundIsSealed ==
    \A c \in Creators : answer[c] = "not found" => tx[c] \in Range(sealed)

\* A client sees what it did: a script that it runs at the latest block after
\* CreateAccount returned finds the account, and the block that /emulator/newBlock
\* answers with is not below the one that it committed.
ClientsSeeTheirOwn ==
    /\ \A c \in Creators : at[c] = "done" => tx[c] \in Range(results[c])
    /\ \A c \in Miners : answer[c] = "block" => view[c] >= number[c]

=============================================================================

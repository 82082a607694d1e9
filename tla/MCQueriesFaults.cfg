SPECIFICATION QueriesSpec
CONSTANTS
    t1 = t1
    t2 = t2
    c1 = c1
    c2 = c2
    Txs <- MCTxs
    Callbacks <- MCCallbacks
    Schedules <- MCSchedules
    ScheduledTransactionsEnabled = TRUE
    MaxViewIncrease = 1
    Faults = {"vm", "merge", "scheduled", "chunk", "store", "index"}
    MaxHeight = 2
    MaxEvents = 2
VIEW WithoutStarts
INVARIANTS
    TypeOK
    ChainLinked
    SealedAtMostOnce
    SealedHasResult
    LedgerIsHistory
    BlockResultsComplete
    ResultsMatchState
PROPERTIES
    ChainIsAppendOnly
    SealedIsFinal
    ImplementsTxPool

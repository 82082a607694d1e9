SPECIFICATION QueriesSpec
CONSTANTS
    t1 = t1
    t2 = t2
    c1 = c1
    c2 = c2
    Txs <- MCTxs
    Callbacks <- TwoCallbacks
    Schedules <- BothSchedules
    ScheduledTransactionsEnabled = TRUE
    MaxViewIncrease = 1
    Faults = {"vm", "merge", "store", "reverts"}
    MaxHeight = 3
    MaxEvents = 4
INVARIANTS
    EventsOncePerExecution
    CallbacksAccountedFor
    RandomSourceIsFresh
    LookupsAgree
    EventsMatchResults

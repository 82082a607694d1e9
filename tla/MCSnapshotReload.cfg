SPECIFICATION ReloadSpec
CONSTANTS
    t1 = t1
    t2 = t2
    Txs <- MCTxs
    Callbacks <- NoCallbacks
    Schedules <- NoSchedules
    ScheduledTransactionsEnabled = TRUE
    MaxViewIncrease = 2
    Faults = {}
    MaxHeight = 2
    MaxEvents = 2
PROPERTY
    ChainIsAppendOnly

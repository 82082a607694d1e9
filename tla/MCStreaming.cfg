SPECIFICATION StreamingSpec
CONSTANTS
    t1 = t1
    t2 = t2
    c1 = c1
    s1 = s1
    Txs <- TwoTxs
    Callbacks = {c1}
    Schedules <- FirstSchedules
    ScheduledTransactionsEnabled = TRUE
    MaxViewIncrease = 1
    Faults = {"store"}
    MaxHeight = 2
    MaxEvents = 2
    Subs = {s1}
INVARIANTS
    DeliveredIsTheChain
PROPERTIES
    EveryBlockIsDelivered
    StatusSubscriptionEnds

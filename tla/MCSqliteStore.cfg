SPECIFICATION Spec
CONSTANTS
    t1 = t1
    c1 = c1
    none = none
    Backends = {"sqlite", "redis"}
    Txs <- MCTxs
    Callbacks <- MCCallbacks
    Empty <- none
    SnapshotNames <- OneSnapshot
    RollbackUsed = TRUE
    MaxTorn = 1
    MaxBlocks = 3
    MaxCreates = 2
INVARIANTS
    TypeOK
    BlocksAreWhole
    HeadIsLatest
    LedgerReadsTheChain
    ResultsMatchTheChain
    ScheduledResultsFound
    LatestIsStored
PROPERTY
    SnapshotsAreCreatedOnce

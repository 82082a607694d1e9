SPECIFICATION Spec
CONSTANTS
    t1 = t1
    c1 = c1
    none = none
    Backends = {"sqlite"}
    Txs <- MCTxs
    Callbacks <- NoCallbacks
    Empty <- none
    SnapshotNames = {}
    RollbackUsed = FALSE
    MaxTorn = 1
    MaxBlocks = 1
    MaxCreates = 1
INVARIANTS
    CommitIsAtomic

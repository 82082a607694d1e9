SPECIFICATION Spec
CONSTANTS
    p1 = p1
    p2 = p2
    r1 = r1
    None = None
    Processes <- TwoProcesses
    Readers = {1}
    Registers <- MCRegisters
    Remote <- MCRemote
    ForkHeights <- MCForkHeights
    BlockBuffer = 1
    Width = 8
    MaxAttempts = 2
    Tips = {0, 2}
    RollbackHeights <- MCRollbackHeights
    ReadHeights <- MCReadHeights
    DiskFailures <- OneProcess
    QueriedHeights <- MCQueriedHeights
    MaxHeight <- MCMaxHeight
INVARIANTS
    ReadsAreConsistent
    LocalBlocksFollowTheFork
    ForkIsPinned
PROPERTIES
    ReadsEnd

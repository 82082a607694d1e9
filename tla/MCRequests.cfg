CHECK_DEADLOCK FALSE
SPECIFICATION RequestsSpec
CONSTANTS
    t1 = t1
    t2 = t2
    t3 = t3
    g1 = g1
    g2 = g2
    a = a
    b = b
    m = m
    none = none
    Txs <- ThreeTxs
    Tickers <- TwoTickers
    Creators <- TwoCreators
    Miners <- OneMiner
    Content <- SameContent
    NumContracts = 1
    NumAccounts = 1
    None <- none
    Casts <- MCCasts
INVARIANTS
    EachOnceInOrder
    AddressIsOwn
    NotFoundIsSealed
    ClientsSeeTheirOwn
PROPERTIES
    AcceptedIsSealed
    ShutdownCompletes

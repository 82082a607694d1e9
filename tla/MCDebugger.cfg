CHECK_DEADLOCK FALSE
SPECIFICATION Spec
CONSTANTS
    k1 = k1
    k2 = k2
    Clients <- TwoClients
    Requests <- TwoRequests
    MaxWork = 3
INVARIANTS
    StopIsNotFatal
    OrderlyEndIsHarmless
PROPERTIES
    RequestsAreAnswered
    StopEndsServer

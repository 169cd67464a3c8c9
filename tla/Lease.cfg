SPECIFICATION Spec
CONSTANTS
    Calls = {call1, call2, call3}
    FireAndForgets = {fnf1}
    Nobody = Nobody
    IdCount = 3
    Reentrant = {"reject"}
    MaxPending = 2
    Grants = {1, 2}
    MaxLeases = 2
    LateRequests = FALSE
SYMMETRY Symmetry
INVARIANTS
    TypeOK
    OwnStreams
    RequestsTold
    NobodyWaitsInVain
    InOrder
PROPERTIES
    LeaseRespected
CHECK_DEADLOCK FALSE

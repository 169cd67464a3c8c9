SPECIFICATION Spec
CONSTANTS
    InitialDemands = {0, 1}
    Demands = {0, 1}
    MaxPayloads = 1
    MaxRequests = 1
    MaxExtensions = 1
    Leased = TRUE
    Chunked = FALSE
    CloseInHandler = TRUE
INVARIANTS
    RegistryExact
    HalfCloseAgreement
    DemandConserved
    NoProtocolErrors
CHECK_DEADLOCK FALSE
CONSTRAINT
    FewCalls

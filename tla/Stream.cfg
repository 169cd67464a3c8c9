SPECIFICATION FairSpec
CONSTANTS
    InitialDemands = {0, 1}
    Demands = {0, 1}
    MaxPayloads = 2
    MaxRequests = 1
    MaxExtensions = 1
    Leased = TRUE
    Chunked = FALSE
    CloseInHandler = FALSE
INVARIANTS
    TypeOK
    RegistryExact
    DemandConserved
    Released
PROPERTIES
    PromiseToConsumer
    EndsTogether
CHECK_DEADLOCK FALSE

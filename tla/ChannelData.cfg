SPECIFICATION FairSpec
CONSTANTS
    InitialDemands = {1}
    Demands = {1}
    MaxPayloads = 2
    MaxRequests = 0
    MaxExtensions = 0
    Leased = FALSE
    Chunked = FALSE
    CloseInHandler = FALSE
INVARIANTS
    TypeOK
    Released
PROPERTIES
    PromiseToReceivers
    EndsTogether
CHECK_DEADLOCK FALSE

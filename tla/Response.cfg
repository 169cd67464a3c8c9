SPECIFICATION FairResponseSpec
CONSTANTS
    InitialDemands = {1}
    Demands = {}
    MaxPayloads = 1
    MaxRequests = 0
    MaxExtensions = 1
    Leased = TRUE
    Chunked = FALSE
    CloseInHandler = FALSE
PROPERTY
    AnsweredOnce
CHECK_DEADLOCK FALSE

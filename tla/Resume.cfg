SPECIFICATION FairSpec
CONSTANTS
    MaxConnections = 3
    MaxFrames <- TwoAndOne
    Position <- FramePositions
    Extending = {"server"}
    ServerSideKeepAlive = FALSE
INVARIANTS
    TypeOK
    NothingForgotten
    ResumeAccepted
    LiveSessionNotTimed
PROPERTIES
    PromiseToStreams
    EventuallyDelivered
    LossNoticed
CHECK_DEADLOCK FALSE

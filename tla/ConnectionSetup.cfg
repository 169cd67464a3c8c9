SPECIFICATION FairSpec
CONSTANTS
    MaxFrames = 5
    FrameLength = 2
INVARIANTS
    TypeOK
    FramesInOrder
    RefusalTold
    ReleasedWithConnection
PROPERTIES
    EveryCallEnds
CHECK_DEADLOCK FALSE

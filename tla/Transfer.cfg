SPECIFICATION Spec
CONSTANTS
    Base = 8
    FragmentSizes = {0, 7, 9}
    Chunks = {1, 5}
    Transports = {"tcp", "websocket"}
    Messages <- AllMessages
    Followers <- AllFollowers
    Handlers <- RoutesRegistered
INVARIANTS
    Delivered
    PositionsAgree
    Fits
    Routed
CHECK_DEADLOCK FALSE

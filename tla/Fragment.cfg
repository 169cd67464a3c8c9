SPECIFICATION Spec
CONSTANTS
    Base = 8
    FragmentSizes = {9}
    Transports = {"websocket"}
    Chunks = {}
    Messages <- FewPayloads
    Followers <- FewPayloads
    Handlers = {}
INVARIANT
    AllDelivered
CHECK_DEADLOCK FALSE

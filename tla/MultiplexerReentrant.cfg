SPECIFICATION MuxSpec
CONSTANTS
    Calls = {call1, call2, call3}
    FireAndForgets = {fnf1}
    Nobody = Nobody
    IdCount = 4
    Reentrant = {"complete"}
INVARIANTS
    IdsAdvance
CHECK_DEADLOCK FALSE

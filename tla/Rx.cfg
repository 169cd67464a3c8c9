SPECIFICATION Spec

CONSTANTS
    Interactions = {"response", "stream", "channel"}
    Prefetches = {1, 2, 4}
    MaxValues <- MCMaxValues

INVARIANT Delivers
INVARIANT PrefetchConserved
PROPERTY Settles

CHECK_DEADLOCK FALSE

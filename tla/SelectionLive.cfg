SPECIFICATION FairRetrievalSpec
CONSTANTS
    Retrieval = {r1, r2}
    Bytes = 2
    Lengths = {2}
    Patience = 2
    MaxTricks = 1
    MaxLength = 2
    None = None
    INCR = INCR
PROPERTIES
    EveryGetReturns
    TransferEnds
CHECK_DEADLOCK FALSE

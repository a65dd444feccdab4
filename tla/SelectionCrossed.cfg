SPECIFICATION FairRetrievalSpec
CONSTANTS
    Retrieval = {r1}
    Bytes = 2
    Lengths = {3}
    Patience = 2
    MaxTricks = 1
    MaxLength = 3
    None = None
    INCR = INCR
PROPERTIES
    EveryGetReturnsAsDocumented
CHECK_DEADLOCK FALSE

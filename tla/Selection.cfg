SPECIFICATION RetrievalSpec
CONSTANTS
    Retrieval = {r1, r2}
    Bytes = 2
    Lengths = {1, 3, 4}
    Patience = 2
    MaxTricks = 1
    MaxLength = 4
    None = None
    INCR = INCR
INVARIANTS
    RetrievalTypeOK
    Whole
    ErrorHasCause
CHECK_DEADLOCK FALSE

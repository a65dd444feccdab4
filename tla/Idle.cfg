SPECIFICATION FairSpec
CONSTANTS
    Call = {c1, c2}
    MaxIdle = 5
    MaxUnwind = 1
    NULL = NULL
INVARIANTS
    LastValid
    Fifo
    CalledOnce
PROPERTIES
    PassServesThosePresent
    EventuallyServed
CHECK_DEADLOCK FALSE

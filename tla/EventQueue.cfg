SPECIFICATION FairSpec
CONSTANTS
    Event = {e1, e2, e3}
    Deferrable = {e1}
    NULL = NULL
    MaxUnwind = 1
INVARIANTS
    PointersValid
    ServiceOrder
    NothingLost
    NeverReentered
PROPERTIES
    RefinesEventOrder
    EventuallyServed
CHECK_DEADLOCK FALSE

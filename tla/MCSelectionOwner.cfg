SPECIFICATION FairSpec
CONSTANTS
    App = {a1, a2}
    top = top
    child = child
    Window = {top, child}
    Inside <- MCInside
    Word = 3
    NULL = NULL
    MaxRequests = 2
INVARIANTS
    BelievesRightly
    OwnerKnows
PROPERTIES
    LossIsTold
CHECK_DEADLOCK FALSE

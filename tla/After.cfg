SPECIFICATION Spec
CONSTANTS
    Widget = {w1, w2}
    Obj = {o1, o2}
    MaxId = 4
    MaxDepth = 3
INVARIANTS
    HashIsPending
    RepeatGoesOn
    PendingOnce
PROPERTIES
    CancelStops
    AutoCancelled

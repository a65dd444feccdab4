SPECIFICATION Spec
CONSTANTS
    Mode = {2, 4}
    NULL = NULL
    Openings = {{{}, {2}, {4}, {2, 4}}, {{}, {2}}}
    MaxTies = 2
    MaxWaits = 2
    MaxDepth = 2
    MaxEvents = 1
    MaxUnwind = 1
    Abandoned = {{{}, {2}}}
    Closable = {{{}, {2}, {4}, {2, 4}}, {{}}}
INVARIANTS
    OwnerAlive
    PendingIsQueued
    WaitMaskIsStack
    Inhibited
CHECK_DEADLOCK FALSE

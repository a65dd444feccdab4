SPECIFICATION FairSpec
CONSTANTS
    Mode = {2, 4}
    NULL = NULL
    Openings = {{{}, {2}, {4}, {2, 4}}, {{}, {2}}}
    MaxTies = 2
    MaxWaits = 1
    MaxDepth = 2
    MaxEvents = 1
    MaxUnwind = 1
    Abandoned = {{{}, {2}}}
    Closable = {}
PROPERTIES
    HandlerCalled
CHECK_DEADLOCK FALSE

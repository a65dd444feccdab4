SPECIFICATION FairSpec
CONSTANTS
    Flags = {{"window"}}
    MaxFrames = 2
    MaxX = 1
    MaxAccidents = 1
INVARIANTS
    NeverSleepsOnWork
    ModeMeansLoop
PROPERTIES
    UpdateLeavesNothing
    TimerServed
    SocketRead
CHECK_DEADLOCK FALSE

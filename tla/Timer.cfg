SPECIFICATION FairSpec
CONSTANTS
    MaxTimers = 4
    MaxTime = 2
    Delay = {0, 1, 2}
    MaxUnwind = 1
INVARIANTS
    PendingIsQueued
    ExactlyOnce
PROPERTIES
    PassServesItsGeneration
    RefinesTimerService
    EventuallyInvoked
CHECK_DEADLOCK FALSE

SPECIFICATION FairSpec
CONSTANTS
    Flags = {{}}
    MaxFrames = 2
    MaxX = 1
    MaxAccidents = 1
PROPERTIES
    WaitReturns
CHECK_DEADLOCK FALSE

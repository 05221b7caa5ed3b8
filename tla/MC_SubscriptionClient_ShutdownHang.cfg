CONSTANTS
    NumDevices = 2
    InitCapacity = 1

SPECIFICATION FairSpec
\* main returns after the client is destroyed: that final state has no successor.
CHECK_DEADLOCK FALSE

PROPERTY ShutdownCompletes

CONSTANTS
    Nodes = {a, b}
    Failing = {a}
    MaxFaults = 1
    MaxQueue = 1
SPECIFICATION LateSpec
INVARIANT TypeOK
PROPERTIES
    EventuallyReady
    
CHECK_DEADLOCK FALSE

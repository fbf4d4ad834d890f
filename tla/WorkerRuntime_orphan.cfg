SPECIFICATION Spec
CONSTANTS
    Cfg <- OneCfg
    BadCfg <- None
    MaxTasks = 2
    MaxProcs = 2
    MaxInbox = 2
    MaxRequests = 2
    MaxFaults = 0
    ExitKinds <- None
    AutoFailover = FALSE
    Lossy = FALSE
PROPERTIES
    StopStops
CHECK_DEADLOCK FALSE

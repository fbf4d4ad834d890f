SPECIFICATION Spec
CONSTANTS
    Cfg <- TwoCfgs
    BadCfg <- SecondIsBad
    MaxTasks = 2
    MaxProcs = 2
    MaxInbox = 2
    MaxRequests = 1
    MaxFaults = 1
    ExitKinds <- AnyExit
    AutoFailover = TRUE
    Lossy = TRUE
INVARIANTS
    TypeOK
    RunningIsTracked
    TrackedIsWatched

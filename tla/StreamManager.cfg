SPECIFICATION Spec
CONSTANTS
    None = none
    MaxTasks = 2
    MaxProcs = 2
    MaxObjects = 2
    MaxEvents = 3
    MaxFaults = 1
INVARIANTS
    TypeOK
    RunningIsWatched
    MemoryIsFile
PROPERTIES
    WantedRecovers
    DisabledIsLeftAlone
CHECK_DEADLOCK FALSE

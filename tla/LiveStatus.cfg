SPECIFICATION Spec
CONSTANTS
    primary = primary
    backup = backup
    Node = {primary, backup}
    All = all
    None = none
    Starter = {start}
    Monitor = {monitor1, monitor2}
    Configs <- OneOfEach
    MaxEvents = 2
    MaxFaults = 1
INVARIANTS
    TypeOK
    PendingIsTrue
PROPERTIES
    LastWordIsShown
    RunningIsSeen
    GaugesFollow

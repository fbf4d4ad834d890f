SPECIFICATION Spec
CONSTANTS
    None = none
    Text <- Texts
    AnyAddress = "any"
    Group <- Groups
    MinPort = 2
    MaxPort = 8
    Inventory <- Interfaces
    MaxBuffer = 86400
    MinFree = 1
    Quota = 33450000
    Requests <- AnyRequest
INVARIANTS
    StoredIsStable
    WorkerAccepts
    BindIsClaimed
    RunsWhatWasAsked
    LegacyRunsAlike
    SomethingIsSent
    BuffersFitQuota
CHECK_DEADLOCK FALSE

SPECIFICATION Spec
CONSTANTS
    Primary = primary
    Failover = failover
    None = none
    HbPeriod = 1
    HbTTL = 3
    RecPeriod = 2
    GuardPeriod = 1
    LeaseTTL = 4
    Delay = 1
    Cuttable <- NoWorker
    MayDisable = FALSE
INVARIANTS
    TypeOK
    OwnerKeepsLease
    SingleStream
    FailoverInTime
PROPERTIES
    NoSpuriousFailover
    KeepsPromise

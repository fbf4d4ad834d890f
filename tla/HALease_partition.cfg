SPECIFICATION Spec
CONSTANTS
    Primary = primary
    Failover = failover
    None = none
    HbPeriod = 1
    HbTTL = 1
    RecPeriod = 2
    GuardPeriod = 1
    LeaseTTL = 2
    Delay = 1
    Cuttable <- PrimaryOnly
    MayDisable = TRUE
INVARIANTS
    StrayStopsInTime

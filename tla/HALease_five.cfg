SPECIFICATION Spec
CONSTANTS
    Primary = primary
    Failover = failover
    None = none
    HbPeriod = 3
    HbTTL = 10
    RecPeriod = 5
    GuardPeriod = 2
    LeaseTTL = 5
    Delay = 1
    Cuttable <- NoWorker
    MayDisable = FALSE
PROPERTIES
    NoSteal

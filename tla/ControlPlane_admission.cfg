SPECIFICATION Spec
CONSTANTS
    k1 = k1
    k2 = k2
    Service = {s1, s2}
    Key = {k1, k2}
    Request = {r1, r2}
    None = none
    Posts <- SomePosts
    Puts <- SomePuts
    ClientIds = FALSE
    HlsLimit = 1
    MaxRequests = 5
    MaxFaults = 1
SYMMETRY AnyOrder
INVARIANTS
    TypeOK
    ClaimsKeptApart
    HlsWithinLimit
    DesiredFollowsDb
CHECK_DEADLOCK FALSE

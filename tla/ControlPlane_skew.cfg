SPECIFICATION Spec
CONSTANTS
    k1 = k1
    k2 = k2
    Service = {s1, s2}
    Key = {k1, k2}
    Request = {r1, r2}
    None = none
    Posts <- AnyPosts
    Puts <- DisablingPuts
    ClientIds = FALSE
    HlsLimit = 1
    MaxRequests = 4
    MaxFaults = 0
INVARIANTS
    NoDoubleClaim
CHECK_DEADLOCK FALSE

CONSTANTS
    r1 = r1
    r2 = r2
    u1 = u1
    u2 = u2
    u3 = u3
    s1 = s1
    c1 = c1
    Resolutions <- MCResolutions
    Routes <- MCRoutes
    stream <- MCStream
    companions <- MCCompanions
    authority <- MCAuthority
    capacity = 2
    hedge_enabled = TRUE
    emergency_fanout = TRUE
    emergency_fanout_max = 2
SPECIFICATION MCSpec
INVARIANTS
    PermitsConserved
    RetryNotStarvedByParked
    ErrorsAreTrue
PROPERTIES
    ResolveReturns
CHECK_DEADLOCK FALSE

CONSTANTS
    g1 = g1
    g2 = g2
    g3 = g3
    a1 = a1
    Requests <- MCRequests
    IPs <- MCIPs
    Burst = 2
    StaleTimeout = 3
    MaxDelay = 1
    MaxTime = 7
    MaxBuckets = 2
SPECIFICATION Spec
SYMMETRY RequestSymmetry
INVARIANTS
    TypeOK
    OneBucketPerIP
    CleanupForgetsNothing
    BurstRespected
CHECK_DEADLOCK FALSE

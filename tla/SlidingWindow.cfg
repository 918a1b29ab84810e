CONSTANTS
    c1 = c1
    c2 = c2
    n1 = n1
    n2 = n2
    n3 = n3
    Clients <- MCClients
    Nanos <- MCNanos
    Ahead <- MCAhead
    Limit = 1
    Window = 3
    MaxSkew = 1
    MaxDelay = 1
    MaxTime = 7
    MaxRequests = 3
SPECIFICATION Spec
SYMMETRY NanoSymmetry
INVARIANTS
    TypeOK
    CountsForAWindow
    OvershootBounded
    RefusalJustified
CHECK_DEADLOCK FALSE

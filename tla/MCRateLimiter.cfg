SPECIFICATION Spec
CONSTANTS
    Requests = {r1, r2, r3, r4}
    Paths = {token}
    Addresses = {peer, proxy}
    NoAddress = NoAddress
    Trusted = {proxy}
    Rate = 1
    Cost = 4
    Burst = 8
    TrimEvery = 1
    KeepFor = 6
    MaxTime = 7
    MaxWait = 1
SYMMETRY Symmetry
INVARIANTS
    TypeOK
    WindowBound
    RefusedOnlyWhenSpent
CHECK_DEADLOCK FALSE

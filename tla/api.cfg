SPECIFICATION FairSpec
CONSTANTS
    r1 = r1
    r2 = r2
    r3 = r3
    r4 = r4
    A = A
    B = B
    C = C
    Requests = {r1, r2, r3, r4}
    Addresses = {A, B, C}
    Calls <- CrowdOrPair
    Limit = 2
    Burst = 1
    MaxTime = 1
    NoLimiter = NoLimiter
    Pending = Pending
INVARIANT RateBound
PROPERTIES
    LimiterSpec
    OneResponse
    EventuallyAnswered
CHECK_DEADLOCK FALSE

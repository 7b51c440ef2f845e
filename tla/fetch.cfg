SPECIFICATION FairSpec
CONSTANTS
    MaxRetries = 2
    MinDelay = 2
    MaxDelay = 3
    PerSecond = 2
    HalfWord = 8
    Headers = {0, 1, 3, 5}
    Sizes = {1, 2, 3}
    Limits = {1, 3}
    MaxBodySize = 2
INVARIANTS
    BodiesClosed
    UnsafeSentOnce
    PacesRetries
    StopsAfterEnd
    OnlyWholeIsParsed
    NotGivenUpEarly
PROPERTY EventuallyReturns
CHECK_DEADLOCK FALSE

SPECIFICATION FairSpec
CONSTANTS
    Articles = {a1, a2, a3}
    Limit = 2
    MaxRetries = 3
INVARIANTS
    OnlyTheContextCuts
    NilMeansNoneCutShort
PROPERTIES
    StillAfterReturn
    EventuallyReturns
CHECK_DEADLOCK FALSE

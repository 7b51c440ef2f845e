SPECIFICATION FairSpec
CONSTANTS
    Providers = {p1, p2}
    ServerFails = TRUE
    Requests = {r1, r2}
INVARIANTS
    TypeOK
    FetcherOpenWhileCrawling
    OrderlyClose
PROPERTY CancelledEnds
CHECK_DEADLOCK FALSE

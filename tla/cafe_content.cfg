SPECIFICATION CafeSpec
CONSTANTS
    Articles = {a1, a2}
    Limit = 2
    MaxRetries = 3
INVARIANT GivesUpAfterAllSources
PROPERTY PoolSpec
CHECK_DEADLOCK FALSE

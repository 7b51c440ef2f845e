SPECIFICATION FairSpec
CONSTANTS
    MaxId = 4
    MaxTime = 8
    DayLength = 3
    PageSize = 1
    MaxPageCount = 3
    Delay = 2
    Skew = 0
    MaxLag = 0
    Monitored = {1, 2, 4}
    Skipped = {}
    RowFailures = TRUE
    MaxFaults = 1
INVARIANTS
    NoLoss
    OlderDaysAreCollected
PROPERTIES
    CursorFollowsFullSave
    EventuallyCollected

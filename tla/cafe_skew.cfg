SPECIFICATION Spec
CONSTANTS
    MaxId = 3
    MaxTime = 6
    DayLength = 3
    PageSize = 1
    MaxPageCount = 3
    Delay = 2
    Skew = 1
    MaxLag = 0
    Monitored = {1, 2, 3}
    Skipped = {}
    RowFailures = FALSE
    MaxFaults = 0
INVARIANT NoLoss

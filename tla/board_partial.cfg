SPECIFICATION Spec
CONSTANTS
    Boards = {b1}
    NoBoard = NoBoard
    MaxId = 2
    MaxDay = 2
    PageSize = 1
    MaxPageCount = 2
    ArchiveDays = 0
    Unreadable = {}
    RowFailures = TRUE
    MaxFaults = 1
INVARIANT NoLoss

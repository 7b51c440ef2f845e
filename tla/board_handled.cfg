SPECIFICATION FairSpec
CONSTANTS
    Boards = {b1}
    NoBoard = NoBoard
    MaxId = 3
    MaxDay = 3
    PageSize = 1
    MaxPageCount = 2
    ArchiveDays = 2
    Unreadable = {2}
    RowFailures = TRUE
    MaxFaults = 2
INVARIANT OnlyPartialSavesLose
PROPERTIES
    FeedSpec
    EventuallyHandled

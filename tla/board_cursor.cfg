SPECIFICATION Spec
CONSTANTS
    Boards = {b1, b2}
    NoBoard = NoBoard
    MaxId = 2
    MaxDay = 1
    PageSize = 1
    MaxPageCount = 2
    ArchiveDays = 0
    Unreadable = {}
    RowFailures = TRUE
    MaxFaults = 2
SYMMETRY BoardSymmetry
PROPERTIES
    CursorFollowsFullSave
    ContentSettled

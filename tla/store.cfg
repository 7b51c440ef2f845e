CONSTANTS
    cafe = cafe
    town = town
    x = x
    y = y
    Providers = {cafe, town}
    Boards = {x, y}
    WholeSite = WholeSite
    OneCursor = {cafe}
    ArchiveDays <- MCArchiveDays
    MaxId = 2
    MaxTime = 3
    MaxStarts = 3
SYMMETRY MCSymmetry
SPECIFICATION Spec
CHECK_DEADLOCK FALSE
INVARIANTS
    NoOrphans
    NothingLost
PROPERTIES
    OnlyStaleIsDeleted
    ServesPurged

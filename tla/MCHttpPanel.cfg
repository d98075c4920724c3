SPECIFICATION MCSpec
CONSTANTS
    r1 = r1
    c1 = c1
    Requests = {r1, r2}
    Cols = {c1}
    Root = root
    Handled = {r1}
    None = none
    MaxVer = 1
    MaxTasks = 2
    MaxSaves = 1
    MaxFaults = 1
    MaxSends = 2
    MaxView = 1
    MaxExports = 2
    NoResponse = nothing
INVARIANTS SavedOrSaid QuietWhenMoved ViewerTrue FilesFollowed
PROPERTIES ClosesWhenGone TasksEnd
CHECK_DEADLOCK FALSE

SPECIFICATION FrontSpec
CONSTANTS
    Profiles = {p1}
    MaxConns = 2
    None = None
    MaxNews = 1
    MaxBusy = 2
    MaxVer = 1
    Topics = {t1, t2}
    MaxRows = 2
    MaxRowCalls = 1
    MaxLosses = 1
    BrokerNames = {x, y}
    MaxTopics = 1
    MaxPresses = 4
    MaxFound = 2
    MaxEnds = 1
    OpenTabs = {c1, c2}
    Names = {a, b}
    Wild = wild
    Shared = shared
    SharedName = a
    Nothing = nothing
    MaxMessages = 2
    MaxBuffered = 2
    MaxArrivals = 3
    MaxClicks = 2
INVARIANTS TabTruth NothingHidden TargetTrue RowsServed ScanShown MessagesShown
CHECK_DEADLOCK FALSE

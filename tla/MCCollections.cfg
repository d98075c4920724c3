\* A folder, a request, one collection beside __root__; files fail twice, the program dies at will.
SPECIFICATION SidebarSpec
CONSTANTS
    f = f
    r = r
    Top = Top
    NoRow = NoRow
    Items = {f, r}
    Folders = {f}
    MaxCol = 1
    Names = {1}
    MaxVer = 1
    MaxLayout = 1
    MaxFaults = 2
    MaxDrops = 2
INVARIANTS NoDuplicates CrashAtomic SidebarExact
PROPERTIES DropLands
CHECK_DEADLOCK FALSE

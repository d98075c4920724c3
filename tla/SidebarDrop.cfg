\* Rows are dropped on the sidebar itself, nothing fails.
SPECIFICATION SidebarSpec
CONSTANTS
    f = f
    r = r
    Top = Top
    NoRow = NoRow
    Items = {f, r}
    Folders = {f}
    MaxCol = 1
    Names = {1}
    MaxVer = 0
    MaxLayout = 1
    MaxFaults = 0
    MaxDrops = 2
PROPERTIES SidebarDropLands
CHECK_DEADLOCK FALSE

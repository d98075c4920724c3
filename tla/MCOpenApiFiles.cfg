SPECIFICATION Spec
CONSTANTS
    Paths = {p1, p2, p3}
    MaxRecents = 2
    Untitled = untitled
    None = none
    MaxText = 2
    MaxFlows = 2
    MaxOps = 3
    MaxFaults = 1
    MaxClock = 1
SYMMETRY Alike
INVARIANTS AskedFirst ListedIsReadable ShownFresh
CHECK_DEADLOCK FALSE

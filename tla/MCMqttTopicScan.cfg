\* Two scans, each with a lost link, a second caller and two messages.
SPECIFICATION ScanSpec
CONSTANTS
    Scans = {s1, s2}
    None = None
    MaxLost = 1
    MaxMessages = 2
    MaxJoins = 1
INVARIANTS ScanTold NothingMissed ClientsOwned
SYMMETRY Symmetry

\* Two executions; one early cancel is kept; a file has up to two units, all have three.
SPECIFICATION FairSpec
CONSTANTS
    Executions = {x1, x2}
    MaxFiles = 2
    MaxTotal = 3
    MaxSpills = 2
    Reserve = 2
    MaxPending = 1
INVARIANTS BooksExact EveryFileOwned LeaseProtects CancelWins DrainedMeansQuiet
PROPERTIES CancelledEnds
CHECK_DEADLOCK FALSE

SPECIFICATION FairSpec
CONSTANTS
    Conns = {c1}
    MaxLinks = 2
    MaxOps = 1
INVARIANTS NoOrphanLink DrainedMeansQuiet
PROPERTIES KeepsPromise DisconnectCompletes ShutdownDrains

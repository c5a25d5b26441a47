CONSTANTS
    Mounts = {m1, m2}
    Server = Server
    Files = {f1, f2}
    f1 = f1
    f2 = f2
    Calls = {k1, k2}
    Commands = {"store", "fetch", "delete", "list", "stat"}
    Chunks <- MCChunks
    SmallTail = {m1, m2}
    Hole = Hole
    None = None
    Window = 1
    DiskFaults = TRUE
    MaxCrashes = 1
SPECIFICATION Spec
SYMMETRY Symmetry
INVARIANTS TypeOK ChunksInPlace NoneWaitsForEver OnlyWaitsStop
PROPERTIES OkStoreIsWhole OkFetchIsWhole OkListIsComplete
CONSTRAINTS OneFileMoves OneChanges
CHECK_DEADLOCK FALSE

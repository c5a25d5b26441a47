CONSTANTS
    Clients = {c1, c2}
    Files = {f1}
    Calls = {k1, k2, k3}
    Ops = {"store_file", "fetch_file", "lock_file", "delete_file"}
    Versions = {1, 2}
    Chunks <- MCChunks
    SmallTail = {1}
    Crc <- MCCrc
    Hole = Hole
    None = None
    NoClient = NoClient
    DiskFaults = FALSE
    MaxCrashes = 0
SPECIFICATION Spec
SYMMETRY SymmetryWithClients
INVARIANTS LockProtectsStore AckedStoreIsWhole HolderReadsStableFile
CHECK_DEADLOCK FALSE

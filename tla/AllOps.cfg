CONSTANTS
    Clients = {c1, c2}
    Files = {f1}
    Calls = {k1, k2}
    Ops = {"store_file", "fetch_file", "stat_file", "lock_file", "delete_file"}
    Versions = {2}
    Chunks <- MCChunks
    SmallTail = {2}
    Crc <- MCCrc
    Hole = Hole
    None = None
    NoClient = NoClient
    DiskFaults = TRUE
    MaxCrashes = 1
SPECIFICATION FairSpec
INVARIANTS TypeOK LockAccounted AckedStoreIsWhole
PROPERTIES LocksSpec EveryCallReturns
CHECK_DEADLOCK FALSE

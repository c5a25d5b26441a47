CONSTANTS
    Clients = {c1, c2}
    Files = {f1}
    Calls = {k1, k2}
    Ops = {"store_file", "stat_file"}
    Versions = {1}
    Chunks <- MCChunks
    SmallTail = {}
    Crc <- MCCrc
    Hole = Hole
    None = None
    NoClient = NoClient
    DiskFaults = FALSE
    MaxCrashes = 0
SPECIFICATION Spec
INVARIANT LockHolderIsAClient
CHECK_DEADLOCK FALSE

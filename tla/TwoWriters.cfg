CONSTANTS
    Clients = {c1, c2}
    Files = {f1}
    Calls = {k1, k2}
    Ops = {"store_file"}
    Versions = {1, 2}
    Chunks <- MCChunks
    SmallTail = {}
    Crc <- MCCrc
    Hole = Hole
    None = None
    NoClient = NoClient
    DiskFaults = FALSE
    MaxCrashes = 0
SPECIFICATION Spec
INVARIANT OneWriterPerFile
CHECK_DEADLOCK FALSE

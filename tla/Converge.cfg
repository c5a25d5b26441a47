CONSTANTS
    Clients = {c1}
    Files = {f1}
    Watched = {f1}
    Initial = {1, 2}
    MaxEdits = 2
    MaxTime = 2
    MaxFailures = 1
    None = None
SPECIFICATION FairSpec
INVARIANTS TypeOK NoFragmentStored
PROPERTY Converges
CHECK_DEADLOCK FALSE

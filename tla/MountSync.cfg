CONSTANTS
    Clients = {c1}
    Files = {f1, f2}
    Watched = {f1}
    Initial = {1, 2}
    MaxEdits = 0
    MaxTime = 2
    MaxFailures = 0
    None = None
SPECIFICATION FairSpec
INVARIANTS NewestSurvives OneThreadCalls
PROPERTY ThreadsProgress
CHECK_DEADLOCK FALSE

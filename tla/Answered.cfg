CONSTANTS
    Threads = {t1}
    Instances = {i1, i2, i3, i4, i5}
    Clients = {c1, c2}
    Malloc <- MCMalloc
    MaxBreaks = 1
    None = None
SPECIFICATION FairSpec
PROPERTY CallsAnswered
CHECK_DEADLOCK FALSE

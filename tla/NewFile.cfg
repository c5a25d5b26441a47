CONSTANTS
    Clients = {c1, c2}
    Files = {f1, f2}
    Watched = {f1, f2}
    Initial = {1}
    MaxEdits = 0
    MaxTime = 1
    MaxFailures = 0
    None = None
SPECIFICATION Spec
PROPERTY OnlyUsersDelete
CHECK_DEADLOCK FALSE

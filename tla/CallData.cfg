CONSTANTS
    Threads = {t1, t2}
    Instances = {i1, i2, i3, i4, i5, i6, i7}
    Clients = {c1}
    Malloc <- MCMalloc
    MaxBreaks = 2
    None = None
SPECIFICATION Spec
SYMMETRY Symmetry
INVARIANTS TypeOK OneOwner SlotsConserved ServedHasOneHandler InstancesBounded
CHECK_DEADLOCK FALSE

\* Every operation of the cache, and crashes.
CONSTANTS
    p1 = p1
    p2 = p2
    k1 = k1
    k2 = k2
    t1 = t1
    r1 = r1
    r2 = r2
    r3 = r3
    Procs = {p1, p2}
    Keys = {k1, k2}
    Tags = {t1}
    Maps = {r1, r2, r3}
    Printed <- PrintedAlike
    MaxCalls = 3
    MaxTime = 2
    None = None
CHECK_DEADLOCK FALSE
VIEW View
SYMMETRY Symmetry
SPECIFICATION Spec
INVARIANTS TypeOK TagsStick DeleteByTagDeletes
PROPERTY ImplementsStore

\* Fills of both caches and lookups by id against invalidations and writes.
CONSTANTS
    p1 = p1
    p2 = p2
    s1 = s1
    c1 = c1
    c2 = c2
    Procs = {p1, p2}
    Stores = {s1}
    Ids = {c1, c2}
    Ops = {"map", "tree", "ids", "inv"}
    MaxVersion = 1
    MaxIds = 2
    NoProc = NoProc
    Nil = Nil
SPECIFICATION Spec
SYMMETRY Symmetry
INVARIANTS TypeOK NoNilMapWrite StalenessBounded CachedWithAttributes ByIDsComplete

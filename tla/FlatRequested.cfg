\* /flat/:ids after a product was created behind the cache.
CONSTANTS
    p1 = p1
    p2 = p2
    s1 = s1
    r1 = r1
    r2 = r2
    r3 = r3
    Procs = {p1, p2}
    Stores = {s1}
    Ids = {1, 2}
    Refs = {r1, r2, r3}
    BatchSize = 1
    Ops = {"flat", "ids", "create"}
    CacheOff = FALSE
    Nil = Nil
SPECIFICATION Spec
SYMMETRY Symmetry
INVARIANTS RequestedFound

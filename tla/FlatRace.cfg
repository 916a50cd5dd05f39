\* Two products queries for one store.
CONSTANTS
    p1 = p1
    p2 = p2
    s1 = s1
    r1 = r1
    r2 = r2
    r3 = r3
    Procs = {p1, p2}
    Stores = {s1}
    Ids = {1, 2}
    Refs = {r1, r2, r3}
    BatchSize = 1
    Ops = {"products"}
    CacheOff = FALSE
    Nil = Nil
SPECIFICATION Spec
SYMMETRY Symmetry
INVARIANTS NoConcurrentMapAccess

\* Every operation, one product: the cache stops changing.
CONSTANTS
    p1 = p1
    p2 = p2
    s1 = s1
    r1 = r1
    r2 = r2
    r3 = r3
    Procs = {p1, p2}
    Stores = {s1}
    Ids = {1}
    Refs = {r1, r2, r3}
    BatchSize = 1
    Ops = {"flat", "product", "skus", "magento", "category", "update", "delete"}
    CacheOff = FALSE
    Nil = Nil
SPECIFICATION Spec
PROPERTY CacheSettles

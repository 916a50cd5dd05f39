\* The order grid, the indexer and the stock import, one at a time.
CONSTANTS
    c1 = c1
    c2 = c2
    o1 = o1
    o2 = o2
    f = f
    Clients = {c1, c2}
    OrderIds = {o1, o2}
    OrderFields = {f}
    Now = Now
    Texts = {Blank, written}
    Blank = Blank
    written = written
    MaxOrderWrites = 2
    Nil = Nil
    x1 = x1
    x2 = x2
    i1 = i1
    i2 = i2
    Indexers = {i1, i2}
    Products = {1, 2, 3}
    IndexBatch = 2
    MaxVersion = 2
    MaxIndexRuns = 2
    MaxIndexFaults = 1
    s1 = s1
    s2 = s2
    Importers = {i1, i2}
    StockSkus = {s1, s2}
    StockBodies <- SomeBodies
    ChunkSize = 2
    MaxProductId = 3
    MaxStockFaults = 1
    Unset = Unset
SPECIFICATION Spec
CHECK_DEADLOCK FALSE
INVARIANTS TypeOK UpdatesKept IndexedAll FailsForAReason LastItemWins SkipsTheUnknown
PROPERTY ListsSettle

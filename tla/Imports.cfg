\* One file imported twice, into tables of either schema, any query failing.
CONSTANTS
    i1 = i1
    a = a
    b = b
    v = v
    w = w
    t1 = t1
    t2 = t2
    Imports = {i1}
    Skus = {a, b}
    EavTables = {t1, t2}
    Values = {v, w}
    Files <- RepeatedFile
    Catalogues <- Catalogues0
    BatchSize = 2
    RawSQL = TRUE
    Schemas = {TRUE, FALSE}
    MaxRuns = 2
    MaxFailures = 1
    MaxProducts = 5
    Blank = Blank
    Bad = Bad
    Nil = Nil
SPECIFICATION FairSpec
CHECK_DEADLOCK FALSE
INVARIANTS TypeOK LastValueWins NoDuplicateProducts NewProductsExist SkuToIDRight ErrorsReported NoWriteAfterReturn
PROPERTY ImportReturns

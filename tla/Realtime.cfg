\* Two requests of any kind while the tables change, queries that may fail.
CONSTANTS
    r1 = r1
    r2 = r2
    a = a
    o1 = o1
    Requests = {r1, r2}
    Skus = {a}
    Sources = {o1}
    Groups = {0, 1}
    Tiers <- SomeTiers
    Products <- SomeProducts
    Quantities = {1}
    Sentinel = 4
    MaxWrites = 1
    MaxFailures = 1
    Nil = Nil
SPECIFICATION FairSpec
CHECK_DEADLOCK FALSE
INVARIANTS TypeOK PricesCurrent PricesFound StockCurrent
PROPERTY RequestsAnswered

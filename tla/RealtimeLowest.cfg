\* A customer group with two tier prices.
CONSTANTS
    r1 = r1
    a = a
    o1 = o1
    Requests = {r1}
    Skus = {a}
    Sources = {o1}
    Groups = {0, 1}
    Tiers <- SomeTiers
    Products <- SomeProducts
    Quantities = {1}
    Sentinel = 4
    MaxWrites = 1
    MaxFailures = 1
    Nil = Nil
SPECIFICATION Spec
CHECK_DEADLOCK FALSE
INVARIANTS LowestPrice

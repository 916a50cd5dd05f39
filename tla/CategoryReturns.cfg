\* Every operation, with fairness: every call returns.
CONSTANTS
    p1 = p1
    p2 = p2
    s1 = s1
    c1 = c1
    Procs = {p1, p2}
    Stores = {s1}
    Ids = {c1}
    Ops = {"map", "tree", "ids", "id", "inv", "minv"}
    MaxVersion = 0
    MaxIds = 1
    NoProc = NoProc
    Nil = Nil
SPECIFICATION FairSpec
PROPERTY CallsReturn

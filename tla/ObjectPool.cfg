\* t1 constructs, uses and destroys the instances, t2 works and ends.
CONSTANTS
    n1 = n1
    n2 = n2
    n3 = n3
    n4 = n4
    n5 = n5
    Threads = {t1, t2}
    Pools = {p1, p2}
    NoPool = NoPool
    Blocks <- MCBlocks
    CacheSize = 2
    Capacity = 2
    GrowBatch = 2
    MaxAlive = 1
    Exits = {t2}
SPECIFICATION Spec
INVARIANTS OnePlace HeldBacked
SYMMETRY Symmetry
CHECK_DEADLOCK FALSE

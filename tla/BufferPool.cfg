\* The smaller class has four buffers for caches of two.
CONSTANTS
    a1 = a1
    a2 = a2
    a3 = a3
    a4 = a4
    b1 = b1
    b2 = b2
    Threads = {t1, t2}
    CacheSize = 2
    NoSize = NoSize
    ClassSizes <- MCClassSizes
    Sizes <- MCSizes
    Slab <- MCSlab
    System <- MCSystem
SPECIFICATION Spec
INVARIANTS OnePlace SizeHonest
SYMMETRY ThreadSymmetry

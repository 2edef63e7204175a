CONSTANTS
    b1 = b1
    b2 = b2
    Bufs = {k1, k2}
    PoolBlocks <- MCBlocks
    BlockSize <- MCBlockSize
    None = None
    SboSize = 1
    MaxPooled = 3
    Sizes = {0, 1, 2, 3, 4}
    Bytes = {0, 1}
    PoolFails = TRUE
SPECIFICATION Spec
INVARIANTS OneOwner Fits 

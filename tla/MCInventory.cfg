\* i1 is stored and not cached at the start, i2 is absent.
CONSTANTS
    Inventories = {i1, i2}
    Items = {x1}
    StoredBefore = {i1}
    QuantityMod = 3
    MaxTransactions = 1
    MaxAstray = 1
    Threads = {t1, t2}
SPECIFICATION InventorySpec
SYMMETRY CallerSymmetry
INVARIANT CacheCoherent
 
CHECK_DEADLOCK FALSE

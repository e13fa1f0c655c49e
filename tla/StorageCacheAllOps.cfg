\* every public operation, LRU eviction included, commit failures included
CONSTANTS
    t1 = t1  t2 = t2  t3 = t3  n1 = n1  n2 = n2  v1 = v1  v2 = v2
    None = None
    NoThread = NoThread
    Threads <- MCThreads
    Names <- MCNames
    Vals <- MCVals
    Limit = 1
    Operations <- AllOps
    CommitMayFail = TRUE
SPECIFICATION Spec
INVARIANT TypeOK
SYMMETRY Symmetry

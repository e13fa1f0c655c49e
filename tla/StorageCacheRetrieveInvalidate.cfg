\* a retrieve racing with invalidate of the same package
CONSTANTS
    t1 = t1  t2 = t2  t3 = t3  n1 = n1  n2 = n2  v1 = v1  v2 = v2
    None = None
    NoThread = NoThread
    Threads <- MCThreads
    Names <- MCNames
    Vals <- MCVals
    Limit = 2
    Operations <- RetrieveInvalidateOps
    CommitMayFail = FALSE
SPECIFICATION Spec
SYMMETRY Symmetry
INVARIANT CacheCoherent

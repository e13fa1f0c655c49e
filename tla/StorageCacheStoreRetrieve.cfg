\* store and retrieve only, with a cache of one node so that a retrieve of
\* another name evicts the node a store has just updated
CONSTANTS
    t1 = t1  t2 = t2  t3 = t3  n1 = n1  n2 = n2  v1 = v1  v2 = v2
    None = None
    NoThread = NoThread
    Threads <- MCThreads
    Names <- MCNames
    Vals <- MCVals
    Limit = 1
    Operations <- StoreRetrieveOps
    CommitMayFail = FALSE
SPECIFICATION Spec
SYMMETRY Symmetry
INVARIANT CacheCoherent

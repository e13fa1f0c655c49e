--------------------------- MODULE MCStorageCache ---------------------------
(* Instantiates StorageCache for TLC: two threads, two package          *)
(* names, two package objects.                                            *)
EXTENDS StorageCache, TLC

CONSTANTS t1, t2, t3, n1, n2, v1, v2

MCThreads == {t1, t2}
MCNames == {n1, n2}
MCVals == {v1, v2}

\* only store and retrieve: the calls the package loaders interleave
StoreRetrieveOps == {"store", "retrieve"}
AllOps == {"retrieve", "store", "invalidate", "clear"}
\* a lookup racing with the removal of a package
RetrieveInvalidateOps == {"retrieve", "invalidate"}
StoreInvalidateOps == {"store", "invalidate"}

Symmetry == Permutations(MCThreads) \cup Permutations(MCNames)
                \cup Permutations(MCVals)
=============================================================================

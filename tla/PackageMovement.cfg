\* RemovePackages and MovePackages; every located package has a storage
\* location (a symlink into the storage directory)
CONSTANTS
    p1 = p1
    p2 = p2
    p3 = p3
    Pkgs <- MCPkgs
    Requested <- MCRequested
    Kinds <- BothKinds
    StorageKinds <- WithStorage
SPECIFICATION Spec
INVARIANT ProcessedMeansArchived NoPackageTwice MoveProcessedComplete
CHECK_DEADLOCK FALSE
PROPERTY ImplementsLifecycle

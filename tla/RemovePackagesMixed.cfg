\* RemovePackages with packages with and without storage location
CONSTANTS
    p1 = p1
    p2 = p2
    p3 = p3
    Pkgs <- MCPkgs
    Requested <- MCRequested
    Kinds <- RemoveOnly
    StorageKinds <- AnyStorage
SPECIFICATION Spec
INVARIANT ProcessedMeansArchived
CHECK_DEADLOCK FALSE

\* MovePackages with repo-add and repo-remove exiting in either order and
\* either of them failing
CONSTANTS
    p1 = p1
    p2 = p2
    p3 = p3
    Pkgs <- MCPkgs
    Requested <- MCRequested
    Kinds <- MoveOnly
    StorageKinds <- WithStorage
SPECIFICATION Spec
INVARIANT PackageNotLost
CHECK_DEADLOCK FALSE

\* Reload racing with package updates and removals
CONSTANTS
    p1 = p1
    p2 = p2
    w1 = w1
    w2 = w2
    Absent = Absent
    Pkgs <- MCPkgs
    Workers <- MCWorkers
    Builds <- MCBuilds
    UpdaterOps <- UpdateAndRemove
    Force = FALSE
SPECIFICATION Spec
INVARIANT TypeOK ContentsMatchBuild SuccessMeansAllParsed
PROPERTY ImplementsLifecycle
CHECK_DEADLOCK FALSE

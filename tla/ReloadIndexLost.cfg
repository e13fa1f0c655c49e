\* Reload racing with package updates: index projections lost on write-back
CONSTANTS
    p1 = p1
    p2 = p2
    w1 = w1
    w2 = w2
    Absent = Absent
    Pkgs <- MCPkgs
    Workers <- MCWorkers
    Builds <- MCBuilds
    UpdaterOps <- UpdateAndRemove
    Force = FALSE
SPECIFICATION Spec
SYMMETRY Symmetry
INVARIANT IndexConsistent
CHECK_DEADLOCK FALSE

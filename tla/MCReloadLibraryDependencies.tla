--------------------- MODULE MCReloadLibraryDependencies ---------------------
(* Instantiation of ReloadLibraryDependencies for TLC: two packages, two  *)
(* builds of each, two worker threads.                                     *)
EXTENDS ReloadLibraryDependencies, TLC

CONSTANTS p1, p2, w1, w2

MCPkgs == {p1, p2}
MCWorkers == {w1, w2}
MCBuilds == {1, 2}

RemoveOnly == {"remove"}
UpdateAndRemove == {"update", "remove"}

\* packages and workers are interchangeable; safety runs only
Symmetry == Permutations(MCPkgs) \cup Permutations(MCWorkers)

=============================================================================

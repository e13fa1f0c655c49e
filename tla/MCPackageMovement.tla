------------------------- MODULE MCPackageMovement -------------------------
(* Instantiation of PackageMovement for TLC: three requested packages.    *)
EXTENDS PackageMovement, TLC

CONSTANTS p1, p2, p3

MCPkgs == {p1, p2, p3}
MCRequested == <<p1, p2, p3>>

\* repositories whose packages all have a storage location, or mixed ones
WithStorage == {TRUE}
AnyStorage == BOOLEAN

BothKinds == {"remove", "move"}
RemoveOnly == {"remove"}
MoveOnly == {"move"}

=============================================================================

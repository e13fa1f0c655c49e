------------------------- MODULE MCCleanRepository -------------------------
(* A repository with package "a" built for "arch" and as "any", package "b"  *)
(* in "any" and for "other", junk and a database file in "arch", a file    *)
(* whose name does not parse in "other" and a source package in "src".      *)
EXTENDS CleanRepository, TLC

CONSTANTS f1, f2, f3, f4, f5, f6, f7, f8, a, b

MCFiles == {f1, f2, f3, f4, f5, f6, f7, f8}
MCPkgs == {a, b}
MCFileDir == (f1 :> "arch") @@ (f2 :> "any") @@ (f3 :> "any") @@ (f4 :> "arch")
             @@ (f5 :> "other") @@ (f6 :> "src") @@ (f7 :> "arch") @@ (f8 :> "other")
MCFileKind == (f1 :> "pkg") @@ (f2 :> "pkg") @@ (f3 :> "pkg") @@ (f4 :> "junk")
              @@ (f5 :> "pkg") @@ (f6 :> "pkg") @@ (f7 :> "db") @@ (f8 :> "badName")
MCFilePkg == (f1 :> a) @@ (f2 :> a) @@ (f3 :> b) @@ (f4 :> a)
             @@ (f5 :> b) @@ (f6 :> a) @@ (f7 :> a) @@ (f8 :> b)

\* none yet, or one for the destination's own directory only
MCArchiveDirChoices == {{}, {"arch"}}

BothModes == BOOLEAN
DryRunOnly == {TRUE}
NoDryRun == {FALSE}
=============================================================================

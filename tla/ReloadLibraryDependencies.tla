----------------------- MODULE ReloadLibraryDependencies -----------------------
(***************************************************************************)
(* The ReloadLibraryDependencies build action                              *)
(* (src/librepomgr/buildactions/reloadlibrarydependencies.cpp) acting on   *)
(* one database, racing with other holders of the Config write lock that  *)
(* update or remove packages of that database meanwhile.                   *)
(*                                                                         *)
(* A package build (version plus build date) is a number b of Builds; its  *)
(* binary has mtime b and contains the libraries LibsOf(p, b).  The        *)
(* database keeps per package its build, origin, timestamp, libprovides    *)
(* and, in providedLibs, the projections indexed for it.                   *)
(*                                                                         *)
(* The action has three phases: run() collects the packages to parse      *)
(* under the Config read lock; worker threads parse them with no Config   *)
(* lock held; the write-back merges the results under the write lock.     *)
(* Each locked phase is one step, so the updater runs only between them.  *)
(***************************************************************************)
EXTENDS Naturals, Sequences, SequencesExt

CONSTANTS
    Pkgs,          \* package names of the database
    Builds,        \* package builds, identified with the binary's mtime
    Workers,       \* the calling thread and hardware_concurrency()-1 threads
    Force,         \* flag ForceReload
    UpdaterOps,    \* what the other Config writers do: "update", "remove"
    Absent         \* no such package in the database

ASSUME Builds \subseteq Nat \ {0}
ASSUME Force \in BOOLEAN
ASSUME UpdaterOps \subseteq {"update", "remove"}

Libs == Pkgs \X Builds

\* what walkThroughArchive() finds in the binary of build b of package p
LibsOf(p, b) == {<<p, b>>}

\* where run() finds the binary: in localPkgDir, only on the mirror, nowhere
Locations == {"local", "mirror", "missing"}

VARIABLES
    build, origin, ts, libprov, index,   \* the database
    location,                            \* where each binary is found
    phase, items, next, wItem, workerDone, errors, cacheFailed, result,
    aborted

dbVars == <<build, origin, ts, libprov, index, location>>
actVars == <<phase, items, next, wItem, workerDone, errors, cacheFailed,
             result, aborted>>
vars == <<dbVars, actVars>>

Item == [pkg : Pkgs, build : Builds, mtime : Nat, url : BOOLEAN,
         parsed : BOOLEAN]

Present(p) == build[p] # Absent

\* PackageOrigin: PackageFileName, DatabaseFileList, PackageContents
Origins == {"fileName", "fileList", "contents"}

\* the libraries a package object with origin o of build b of p provides:
\* none when known from its file name only, those of the binary otherwise
LibsFor(p, b, o) == IF o = "fileName" THEN {} ELSE LibsOf(p, b)

\* variant of ConcludeResult reading messages.errors after the move
ConcludeResultAfterMove(errs) == "success"

\* conclude(): the result is taken from messages.errors before they are
\* moved into resultData
ConcludeResult(errs) == IF errs = {} THEN "success" ELSE "failure"

TypeOK ==
    /\ build \in [Pkgs -> Builds \cup {Absent}]
    /\ origin \in [Pkgs -> Origins]
    /\ ts \in [Pkgs -> Nat]
    /\ libprov \in [Pkgs -> SUBSET Libs]
    /\ index \in [Pkgs -> SUBSET Libs]
    /\ location \in [Pkgs -> Locations]
    /\ phase \in {"run", "download", "load", "parse", "writeBack", "done"}
    /\ items \in Seq(Item)
    /\ next \in 1..(Len(items) + 1)
    /\ wItem \in [Workers -> 0..Len(items)]
    /\ workerDone \in [Workers -> BOOLEAN]
    /\ errors \in SUBSET Pkgs
    /\ cacheFailed \in SUBSET Pkgs
    /\ result \in {"none", "success", "failure", "aborted"}
    /\ aborted \in BOOLEAN

-----------------------------------------------------------------------------
(* run(): collect the relevant packages under the Config read lock.        *)

\* the binary of a package that is already analysed is not newer
SkipUnchanged(p) ==
    /\ ~Force /\ location[p] = "local"
    /\ origin[p] = "contents" /\ ts[p] >= build[p]

\* url packages keep lastModified = DateTime(), i.e. 0
ToConsider(p) ==
    [pkg |-> p, build |-> build[p],
     mtime |-> IF location[p] = "mirror" THEN 0 ELSE build[p],
     url |-> location[p] = "mirror", parsed |-> FALSE]

Run ==
    /\ phase = "run"
    /\ LET present == {p \in Pkgs : Present(p)}
           missing == {p \in present : location[p] = "missing"}
           relevant == {p \in present \ missing : ~SkipUnchanged(p)}
       IN \/ /\ aborted /\ present # {}   \* reportAbortedIfAborted() in the loop
             /\ result' = "aborted" /\ phase' = "done"
             /\ UNCHANGED <<items, errors>>
          \/ /\ ~aborted \/ present = {}
             /\ errors' = missing
             /\ items' = [i \in 1..Cardinality(relevant) |->
                              ToConsider(SetToSeq(relevant)[i])]
             \* nothing found: conclude() right away
             /\ IF relevant = {}
                THEN /\ result' = IF aborted THEN "aborted"
                                  ELSE ConcludeResult(missing)
                     /\ phase' = "done"
                ELSE /\ phase' = "download" /\ UNCHANGED result
    /\ UNCHANGED <<dbVars, next, wItem, workerDone, cacheFailed, aborted>>

\* downloadPackagesFromMirror(): the caching session fetches every url item
\* and calls back loadPackageInfoFromContents() when it is done
Download ==
    /\ phase = "download"
    /\ LET urls == {items[i].pkg : i \in {j \in 1..Len(items) : items[j].url}}
       IN \/ /\ urls = {}
             /\ phase' = "load" /\ UNCHANGED <<cacheFailed, result>>
          \/ /\ urls # {} /\ aborted
             /\ result' = "aborted" /\ phase' = "done"
             /\ UNCHANGED cacheFailed
          \/ /\ urls # {} /\ ~aborted
             /\ \E failed \in SUBSET urls : cacheFailed' = failed
             /\ phase' = "load" /\ UNCHANGED result
    /\ UNCHANGED <<dbVars, items, next, wItem, workerDone, errors, aborted>>

\* loadPackageInfoFromContents(): start the worker threads
StartWorkers ==
    /\ phase = "load"
    /\ \/ /\ aborted
          /\ result' = "aborted" /\ phase' = "done"
       \/ /\ ~aborted
          /\ phase' = "parse" /\ UNCHANGED result
    /\ UNCHANGED <<dbVars, items, next, wItem, workerDone, errors,
                   cacheFailed, aborted>>

-----------------------------------------------------------------------------
(* processPackage(): each worker takes the next item under nextPackageMutex *)
(* and parses it with no lock held.                                        *)

Scanned(i) == i > Len(items)

\* variant of AdvanceScan moving the iterator twice
AdvanceScanTwice(i) == i + 2

AdvanceScan(i) == i + 1

\* top of the loop (wItem[w] = 0): leave it once aborted or once the
\* iterator is at the end, otherwise take the item under nextPackageMutex
TakeItem(w) ==
    /\ phase = "parse" /\ ~workerDone[w] /\ wItem[w] = 0
    /\ \/ /\ aborted \/ Scanned(next)
          /\ workerDone' = [workerDone EXCEPT ![w] = TRUE]
          /\ UNCHANGED <<next, wItem, items>>
       \/ /\ ~aborted /\ ~Scanned(next)
          /\ wItem' = [wItem EXCEPT ![w] = next]
          /\ next' = AdvanceScan(next)
          /\ UNCHANGED <<workerDone, items>>
    /\ UNCHANGED <<dbVars, phase, errors, cacheFailed, result, aborted>>

\* variant of ParseItem after which the worker never gets back to the top
\* of its loop
ParseItemNoReturn(w) ==
    /\ phase = "parse" /\ wItem[w] # 0
    /\ LET i == wItem[w]
           p == items[i].pkg
       IN \/ /\ items[i].url /\ p \in cacheFailed
             /\ errors' = errors \cup {p} /\ UNCHANGED items
          \/ /\ ~(items[i].url /\ p \in cacheFailed)
             /\ \/ items' = [items EXCEPT ![i].parsed = TRUE] /\ UNCHANGED errors
                \/ errors' = errors \cup {p} /\ UNCHANGED items
    /\ UNCHANGED <<dbVars, phase, next, wItem, cacheFailed, result, aborted,
                   workerDone>>

\* a failed download or a std::runtime_error from walkThroughArchive() is
\* appended to messages.errors under submitErrorMutex
ParseItem(w) ==
    /\ phase = "parse" /\ wItem[w] # 0
    /\ LET i == wItem[w]
           p == items[i].pkg
       IN \/ /\ items[i].url /\ p \in cacheFailed
             /\ errors' = errors \cup {p} /\ UNCHANGED items
          \/ /\ ~(items[i].url /\ p \in cacheFailed)
             /\ \/ items' = [items EXCEPT ![i].parsed = TRUE] /\ UNCHANGED errors
                \/ errors' = errors \cup {p} /\ UNCHANGED items
    /\ wItem' = [wItem EXCEPT ![w] = 0]
    /\ UNCHANGED <<dbVars, phase, next, cacheFailed, result, aborted, workerDone>>

-----------------------------------------------------------------------------
(* The write-back under the Config write lock, then conclude().            *)

\* position of the item of package p, 0 if there is none
ItemOf(p) == SelectInSeq(items, LAMBDA it : it.pkg = p)

\* variant of Matches comparing the names only
MatchesByName(p, it) == Present(p)

\* addDepsAndProvidesFromOtherPackage(): name, version and build date match
Matches(p, it) == build[p] = it.build

\* variant of IndexAfter that leaves the projections as they were
IndexAfterStale(p, it) == index[p]

\* removePackageDependencies(), then addPackageDependencies() only if the
\* merge was applied
IndexAfter(p, it) == IF Matches(p, it) THEN LibsOf(p, it.build) ELSE {}

\* the timestamp is raised to the binary's lastModified if that is newer
Bumped(t, mtime) == IF t < mtime THEN mtime ELSE t

WriteBack ==
    /\ phase = "parse" /\ \A w \in Workers : workerDone[w]
    /\ LET it(p) == items[ItemOf(p)]
           \* parsed (origin PackageContents) and still in the database
           applied(p) == ItemOf(p) # 0 /\ it(p).parsed /\ Present(p)
           merged(p) == applied(p) /\ Matches(p, it(p))
       IN /\ index' = [p \in Pkgs |-> IF applied(p) THEN IndexAfter(p, it(p))
                                                     ELSE index[p]]
          /\ libprov' = [p \in Pkgs |-> IF merged(p) THEN LibsOf(p, it(p).build)
                                                      ELSE libprov[p]]
          /\ origin' = [p \in Pkgs |-> IF merged(p) THEN "contents" ELSE origin[p]]
          /\ ts' = [p \in Pkgs |-> IF merged(p) THEN Bumped(ts[p], it(p).mtime)
                                                   ELSE ts[p]]
    /\ result' = IF aborted THEN "aborted" ELSE ConcludeResult(errors)
    /\ phase' = "done"
    /\ UNCHANGED <<build, location, items, next, wItem, workerDone, errors,
                   cacheFailed, aborted>>

-----------------------------------------------------------------------------
(* Other Config writers (Database::updatePackage, removePackage) and the   *)
(* abort request of the build action API.                                  *)

\* updatePackage() of a different build replaces the package object; the
\* new one comes from a file name or from a files database listing its
\* libraries, and its index projections replace the old ones
UpdatePackage ==
    /\ "update" \in UpdaterOps
    /\ \E p \in Pkgs, b \in Builds, o \in Origins \ {"contents"} :
        /\ build[p] # b
        /\ build' = [build EXCEPT ![p] = b]
        /\ origin' = [origin EXCEPT ![p] = o]
        /\ ts' = [ts EXCEPT ![p] = 0]
        /\ libprov' = [libprov EXCEPT ![p] = LibsFor(p, b, o)]
        /\ index' = [index EXCEPT ![p] = LibsFor(p, b, o)]
    /\ UNCHANGED <<location, actVars>>

\* removePackage() unregisters every projection before the removal
RemovePackage ==
    /\ "remove" \in UpdaterOps
    /\ \E p \in Pkgs :
        /\ Present(p)
        /\ build' = [build EXCEPT ![p] = Absent]
        /\ origin' = [origin EXCEPT ![p] = "fileName"]
        /\ ts' = [ts EXCEPT ![p] = 0]
        /\ libprov' = [libprov EXCEPT ![p] = {}]
        /\ index' = [index EXCEPT ![p] = {}]
    /\ UNCHANGED <<location, actVars>>

Abort ==
    /\ ~aborted /\ result = "none"
    /\ aborted' = TRUE
    /\ UNCHANGED <<dbVars, phase, items, next, wItem, workerDone, errors,
                   cacheFailed, result>>

-----------------------------------------------------------------------------

\* a database as loaded: packages analysed from their contents carry the
\* libraries of their build, and the index holds what they provide
Init ==
    /\ build \in [Pkgs -> Builds \cup {Absent}]
    /\ location \in [Pkgs -> Locations]
    /\ origin \in [Pkgs -> Origins]
    /\ \A p \in Pkgs : ~Present(p) => origin[p] = "fileName"
    /\ libprov = [p \in Pkgs |-> IF Present(p)
                                 THEN LibsFor(p, build[p], origin[p]) ELSE {}]
    /\ ts \in [Pkgs -> {0} \cup Builds]
    /\ \A p \in Pkgs : origin[p] # "contents" => ts[p] = 0
    /\ index = libprov
    /\ phase = "run"
    /\ items = <<>>
    /\ next = 1
    /\ wItem = [w \in Workers |-> 0]
    /\ workerDone = [w \in Workers |-> FALSE]
    /\ errors = {}
    /\ cacheFailed = {}
    /\ result = "none"
    /\ aborted = FALSE

\* the steps of the build action itself
Reload ==
    \/ Run \/ Download \/ StartWorkers \/ WriteBack
    \/ \E w \in Workers : TakeItem(w) \/ ParseItem(w)

Next == Reload \/ UpdatePackage \/ RemovePackage \/ Abort

\* every worker is an OS thread, the caching session completes (each
\* download ends or fails) and the io_context runs its callbacks
Fairness ==
    /\ WF_vars(Run) /\ WF_vars(Download) /\ WF_vars(StartWorkers)
    /\ WF_vars(WriteBack)
    /\ \A w \in Workers : WF_vars(TakeItem(w)) /\ WF_vars(ParseItem(w))

Spec == Init /\ [][Next]_vars /\ Fairness

-----------------------------------------------------------------------------
(* Properties                                                              *)

\* The database invariant of spec section 2: every package is reachable
\* from providedLibs through exactly its libprovides, and the index holds
\* nothing for packages no longer there.  The write-back removes a
\* package's projections before it knows whether the merge applies.
IndexConsistent ==
    \A p \in Pkgs : index[p] = libprov[p]

\* A package marked as analysed from its contents carries the libraries of
\* its own build: the library info parsed from an older binary is never
\* attached to a newer package that replaced it while the workers ran,
\* which run() would then skip on every later reload.
ContentsMatchBuild ==
    \A p \in Pkgs : Present(p) /\ origin[p] = "contents" =>
                        libprov[p] = LibsOf(p, build[p])

\* A Success result means that every package run() selected was parsed:
\* the workers, sharing one iterator, took every item, none of their
\* parses or downloads failed, and conclude() read the errors before
\* moving them away.  An item skipped by the iterator, or an error that
\* conclude() does not see, would report Success for a package whose
\* library information was never updated.
SuccessMeansAllParsed ==
    result = "success" => \A i \in 1..Len(items) : items[i].parsed

\* The action's record as spec 4.1 sees it: running until a result is
\* reported, finished afterwards.
Lifecycle == INSTANCE BuildActionLifecycle
    WITH status <- IF result = "none" THEN "running" ELSE "finished",
         Results <- {"success", "failure", "aborted"}

\* ReloadLibraryDependencies implements the build action lifecycle: every
\* path through run(), the download callback, the workers and the abort
\* checks reports exactly one result, which no later step changes, and
\* the action always concludes (the workers leave the loop and are joined).
ImplementsLifecycle == Lifecycle!Spec

=============================================================================

--------------------------- MODULE PackageMovement ---------------------------
(***************************************************************************)
(* The RemovePackages and MovePackages build actions (src/unnamed/part_004, *)
(* PackageMovementAction and its two subclasses).                          *)
(*                                                                         *)
(* prepareRepoAction() locates the requested packages; RemovePackages runs  *)
(* repo-remove and then archives the files, MovePackages copies the files, *)
(* runs repo-add on the destination and repo-remove on the source at once  *)
(* and concludes from a MultiSession once both handlers have run.         *)
(*                                                                         *)
(* The file system is the environment: where a package is found, whether  *)
(* it has a storage location (a symlink into a storage directory) and      *)
(* whether a copy, rename or remove fails are chosen nondeterministically. *)
(* Messages are abstracted to whether one is set; the result lists keep    *)
(* the package names in order.                                             *)
(***************************************************************************)
EXTENDS Naturals, Sequences, SequencesExt

CONSTANTS
    Pkgs,           \* package names
    Requested,      \* m_buildAction->packageNames, a sequence of distinct names
    Kinds,          \* the build action types to check
    StorageKinds    \* whether packages may have a storage location

ASSUME Requested \in Seq(Pkgs) /\ IsInjective(Requested)
ASSUME Kinds \subseteq {"remove", "move"} /\ Kinds # {}
ASSUME StorageKinds \subseteq BOOLEAN /\ StorageKinds # {}

\* the outcomes of locatePackages() for one name: not in the database file,
\* Database::locatePackage() fails, the file does not exist, found
Located == {"unlisted", "locateError", "absent", "found"}

\* the outcome of a child process: launch error, non-zero exit code, success
ProcessOutcomes == {"errorCode", "exitCode", "ok"}

VARIABLES
    kind,           \* the build action type: RemovePackages or MovePackages
    where,          \* the environment: where each package is found
    storage,        \* ... and whether it has a storage location
    phase,
    located,        \* m_packageLocations: the names, in order
    ok,             \* the ok flag of each entry of m_packageLocations
    processed,      \* m_result.processedPackages
    failed,         \* the names of m_result.failedPackages
    errorMessage,   \* m_result.errorMessage is not empty
    addError,       \* m_addErrorMessage is not empty
    addHandled,     \* handleRepoAddResult() has run
    removeHandled,  \* handleRepoRemoveResult() has run
    archived,       \* packages whose files movePackagesToArchive() moved
    launched,       \* MovePackages: m_fileNames, the packages passed to both tools
    inSource,       \* packages listed in the source database file
    inDest,         \* packages listed in the destination database file
    result

vars == <<kind, where, storage, phase, located, ok, processed, failed,
          errorMessage, addError, addHandled, removeHandled, archived, launched,
          inSource, inDest, result>>

Phases == {"prepare", "run", "repoRemove", "repoAddRemove", "done"}

TypeOK ==
    /\ kind \in {"remove", "move"}
    /\ where \in [Pkgs -> Located]
    /\ storage \in [Pkgs -> BOOLEAN]
    /\ phase \in Phases
    /\ located \in Seq(Pkgs)
    /\ ok \in [Pkgs -> BOOLEAN]
    /\ processed \in Seq(Pkgs)
    /\ failed \in Seq(Pkgs)
    /\ errorMessage \in BOOLEAN /\ addError \in BOOLEAN
    /\ addHandled \in BOOLEAN /\ removeHandled \in BOOLEAN
    /\ archived \in SUBSET Pkgs
    /\ launched \in SUBSET Pkgs /\ inSource \in SUBSET Pkgs /\ inDest \in SUBSET Pkgs
    /\ result \in {"none", "success", "failure"}

-----------------------------------------------------------------------------
(* PackageMovementAction                                                   *)

\* variant of Locate missing the continue after the two locate errors
LocateMissingContinue == SelectSeq(Requested, LAMBDA p : where[p] # "unlisted")

\* locatePackages(): unlisted or unlocatable names go to failedPackages
Locate == SelectSeq(Requested, LAMBDA p : where[p] = "found")

NotLocated == SelectSeq(Requested, LAMBDA p : where[p] # "found")

\* variant of Prepare missing the return after reporting that the working
\* directory cannot be made
PrepareNoReturn ==
    /\ phase = "prepare"
    /\ located' = Locate
    /\ failed' = NotLocated
    /\ \/ /\ Locate = <<>>
          /\ errorMessage' = TRUE
          /\ result' = "failure" /\ phase' = "done"
       \/ /\ Locate # <<>>
          /\ \/ /\ errorMessage' = TRUE
                /\ result' = "failure" /\ phase' = "run"
             \/ /\ errorMessage' = FALSE
                /\ phase' = "run" /\ UNCHANGED result
    /\ UNCHANGED <<kind, where, launched, inSource, inDest, storage, ok,
                   processed, addError, addHandled, 
                   removeHandled, archived>>

\* prepareRepoAction(): fail early if nothing was located or the working
\* directory cannot be made
Prepare ==
    /\ phase = "prepare"
    /\ located' = Locate
    /\ failed' = NotLocated
    /\ \/ /\ Locate = <<>>
          /\ errorMessage' = TRUE
          /\ result' = "failure" /\ phase' = "done"
       \/ /\ Locate # <<>>
          /\ \/ /\ errorMessage' = TRUE     \* create_directories() throws
                /\ result' = "failure" /\ phase' = "done"
             \/ /\ errorMessage' = FALSE
                /\ phase' = "run" /\ UNCHANGED result
    /\ UNCHANGED <<kind, where, launched, inSource, inDest, storage, ok,
                   processed, addError, addHandled, 
                   removeHandled, archived>>

-----------------------------------------------------------------------------
(* RemovePackages                                                          *)

\* run(): every located package is passed to repo-remove
RemoveRun ==
    /\ phase = "run" /\ kind = "remove"
    /\ processed' = located
    /\ phase' = "repoRemove"
    /\ UNCHANGED <<kind, where, launched, inSource, inDest, storage, located,
                   ok, failed, errorMessage, addError, 
                   addHandled, removeHandled, archived, result>>

\* variant of ArchiveLoop that records a failure without erasing the
\* package from processedPackages
RECURSIVE ArchiveLoopNoErase(_, _, _, _, _, _)
ArchiveLoopNoErase(i, it, proc, fail, moved, fails) ==
    IF i > Len(located) THEN [processed |-> proc, failed |-> fail, moved |-> moved]
    ELSE LET p == located[i]
             throws == fails[i] = "file" \/ (fails[i] = "storage" /\ storage[p])
         IN  IF throws
             THEN ArchiveLoopNoErase(i + 1, it, proc, Append(fail, p), moved, fails)
             ELSE IF ~storage[p]
             THEN ArchiveLoopNoErase(i + 1, it, proc, fail, moved \cup {p}, fails)
             ELSE ArchiveLoopNoErase(i + 1, it + 1, proc, fail, moved \cup {p}, fails)

\* movePackagesToArchive(): walk m_packageLocations with an iterator into
\* processedPackages.  fails[i] tells which rename of the i-th package
\* throws: "file" the one of the file within the repo, "storage" the one
\* of its storage location, "none" neither.  A package without storage
\* location continues before the iterator is incremented.  Returns the
\* processed and failed lists and the packages whose files were all moved.
RECURSIVE ArchiveLoop(_, _, _, _, _, _)
ArchiveLoop(i, it, proc, fail, moved, fails) ==
    IF i > Len(located) THEN [processed |-> proc, failed |-> fail, moved |-> moved]
    ELSE LET p == located[i]
             throws == fails[i] = "file" \/ (fails[i] = "storage" /\ storage[p])
         IN  IF throws
             THEN ArchiveLoop(i + 1, it, RemoveAt(proc, it), Append(fail, p), moved, fails)
             ELSE IF ~storage[p]
             THEN ArchiveLoop(i + 1, it, proc, fail, moved \cup {p}, fails)
             ELSE ArchiveLoop(i + 1, it + 1, proc, fail, moved \cup {p}, fails)

\* handleRepoRemoveResult(): on an error every processed package fails,
\* otherwise the files are archived
RemoveHandleResult ==
    /\ phase = "repoRemove"
    /\ \E outcome \in ProcessOutcomes :
        \/ /\ outcome # "ok"
           /\ errorMessage' = TRUE
           /\ failed' = failed \o processed
           /\ processed' = <<>>
           /\ result' = "failure"
           /\ UNCHANGED archived
        \/ /\ outcome = "ok"
           /\ \E fails \in [1..Len(located) -> {"none", "file", "storage"}] :
                LET r == ArchiveLoop(1, 1, processed, failed, {}, fails)
                IN  /\ processed' = r.processed
                    /\ failed' = r.failed
                    /\ archived' = r.moved
                    /\ result' = IF r.failed = <<>> THEN "success" ELSE "failure"
                    /\ errorMessage' = (r.failed # <<>>)
    /\ phase' = "done"
    /\ UNCHANGED <<kind, where, launched, inSource, inDest, storage, located,
                   ok, addError, addHandled, 
                   removeHandled>>

-----------------------------------------------------------------------------
(* MovePackages                                                            *)

\* a copy into the destination repository throws, or the symlink of a
\* package with storage location has an absolute target
MoveRun ==
    /\ phase = "run" /\ kind = "move"
    /\ \E copyFails \in SUBSET Range(located) :
        LET copied == SelectSeq(located, LAMBDA p : p \notin copyFails)
        IN  /\ ok' = [p \in Pkgs |-> p \notin copyFails]
            /\ failed' = failed \o SelectSeq(located, LAMBDA p : p \in copyFails)
            /\ processed' = copied
            /\ launched' = Range(copied)
            \* nothing copied: fail early; otherwise start both processes
            /\ IF copied = <<>>
               THEN /\ errorMessage' = TRUE
                    /\ result' = "failure" /\ phase' = "done"
               ELSE /\ phase' = "repoAddRemove"
                    /\ UNCHANGED <<errorMessage, result>>
    /\ UNCHANGED <<kind, where, storage, located, addError, addHandled, removeHandled,
                   archived, inSource, inDest>>

MoveHandleRepoAdd ==
    /\ phase = "repoAddRemove" /\ ~addHandled
    /\ \E outcome \in ProcessOutcomes :
        /\ addError' = (outcome # "ok")
        /\ inDest' = IF outcome = "ok" THEN inDest \cup launched ELSE inDest
    /\ addHandled' = TRUE
    /\ UNCHANGED <<kind, where, storage, phase, located, ok, processed, failed,
                   errorMessage, removeHandled, archived, launched, inSource, result>>

\* variant of MoveHandleRepoRemove that keeps a package whose removal
\* from the source failed in processedPackages
MoveHandleRepoRemoveKeepProcessed ==
    /\ phase = "repoAddRemove" /\ ~removeHandled
    /\ \E outcome \in ProcessOutcomes :
        \/ /\ outcome # "ok"
           /\ errorMessage' = TRUE
           /\ UNCHANGED <<ok, processed, failed, inSource>>
        \/ /\ outcome = "ok"
           /\ inSource' = inSource \ launched
           /\ \E removeFails \in SUBSET {p \in Range(located) : ok[p]} :
                /\ ok' = [p \in Pkgs |-> ok[p] /\ p \notin removeFails]
                /\ failed' = failed \o SelectSeq(located, LAMBDA p : p \in removeFails)
                /\ UNCHANGED processed
           /\ UNCHANGED errorMessage
    /\ removeHandled' = TRUE
    /\ UNCHANGED <<kind, where, storage, phase, located, addError, addHandled,
                   archived, launched, inDest, result>>

\* on success the copied packages are removed from the source repository;
\* a removal that throws moves that package from processed to failed
MoveHandleRepoRemove ==
    /\ phase = "repoAddRemove" /\ ~removeHandled
    /\ \E outcome \in ProcessOutcomes :
        \/ /\ outcome # "ok"
           /\ errorMessage' = TRUE
           /\ UNCHANGED <<ok, processed, failed, inSource>>
        \/ /\ outcome = "ok"
           /\ inSource' = inSource \ launched
           /\ \E removeFails \in SUBSET {p \in Range(located) : ok[p]} :
                /\ ok' = [p \in Pkgs |-> ok[p] /\ p \notin removeFails]
                /\ failed' = failed \o SelectSeq(located, LAMBDA p : p \in removeFails)
                /\ processed' = SelectSeq(processed, LAMBDA p : p \notin removeFails)
           /\ UNCHANGED errorMessage
    /\ removeHandled' = TRUE
    /\ UNCHANGED <<kind, where, storage, phase, located, addError, addHandled,
                   archived, launched, inDest, result>>

\* variant of MoveConclude that reports a failure of repo-add or
\* repo-remove without moving the processed packages to the failed ones
MoveConcludeKeepProcessed ==
    /\ phase = "repoAddRemove" /\ addHandled /\ removeHandled
    /\ IF ~addError /\ ~errorMessage
       THEN /\ errorMessage' = (failed # <<>>)
            /\ result' = IF failed = <<>> THEN "success" ELSE "failure"
       ELSE /\ errorMessage' = TRUE
            /\ result' = "failure"
    /\ phase' = "done"
    /\ UNCHANGED <<kind, where, launched, inSource, inDest, storage, located,
                   ok, processed, failed, addError, 
                   addHandled, removeHandled, archived>>

\* conclude(), called by the MultiSession once both handlers have returned
MoveConclude ==
    /\ phase = "repoAddRemove" /\ addHandled /\ removeHandled
    /\ IF ~addError /\ ~errorMessage
       THEN /\ errorMessage' = (failed # <<>>)
            /\ result' = IF failed = <<>> THEN "success" ELSE "failure"
            /\ UNCHANGED <<processed, failed>>
       ELSE /\ errorMessage' = TRUE
            /\ failed' = failed \o processed
            /\ processed' = <<>>
            /\ result' = "failure"
    /\ phase' = "done"
    /\ UNCHANGED <<kind, where, launched, inSource, inDest, storage, located,
                   ok, addError, addHandled, 
                   removeHandled, archived>>

-----------------------------------------------------------------------------

Init ==
    /\ kind \in Kinds
    /\ where \in [Pkgs -> Located]
    /\ storage \in [Pkgs -> StorageKinds]
    /\ phase = "prepare"
    /\ located = <<>>
    /\ ok = [p \in Pkgs |-> TRUE]
    /\ processed = <<>>
    /\ failed = <<>>
    /\ errorMessage = FALSE
    /\ addError = FALSE
    /\ addHandled = FALSE
    /\ removeHandled = FALSE
    /\ archived = {}
    /\ launched = {} /\ inDest = {}
    /\ inSource = {p \in Pkgs : where[p] # "unlisted"}
    /\ result = "none"

Next ==
    \/ Prepare
    \/ RemoveRun \/ RemoveHandleResult
    \/ MoveRun \/ MoveHandleRepoAdd \/ MoveHandleRepoRemove \/ MoveConclude

\* the child processes exit and the io_context runs their handlers
Spec == Init /\ [][Next]_vars /\ WF_vars(Next)

-----------------------------------------------------------------------------
(* Properties                                                              *)

\* MovePackages lists no package twice in its result, neither twice in one
\* list nor as processed and failed at once: the repo-remove handler moves
\* the processed packages to failedPackages when the tool fails, and the
\* locate loop lists a package it cannot find as failed only.  (For
\* RemovePackages with packages in and out of the storage directory, see
\* ProcessedMeansArchived.)
NoPackageTwice == kind = "move" => IsInjective(processed \o failed)

\* RemovePackages reports as processed exactly the packages whose files it
\* moved to the archive directory, the other located ones as failed.
ProcessedMeansArchived ==
    phase = "done" /\ kind = "remove" /\ archived # {} =>
        /\ Range(processed) = archived
        /\ Range(located) \ archived \subseteq Range(failed)

\* MovePackages reports as processed only packages that were copied and
\* removed from the source while repo-add and repo-remove both succeeded,
\* and reports Success only when nothing failed.
MoveProcessedComplete ==
    phase = "done" /\ kind = "move" =>
        /\ \A p \in Range(processed) : ok[p]
        /\ addError => processed = <<>>
        /\ (result = "success") <=> (failed = <<>> /\ ~errorMessage)

\* MovePackages never loses a package: every package it passed to repo-add
\* and repo-remove is, once the action has finished, still listed in the
\* source database or listed in the destination database (spec 4.9: it is
\* "considered moved" only if both tools succeed).
PackageNotLost ==
    phase = "done" /\ kind = "move" => launched \subseteq inSource \cup inDest

\* The action's record as spec 4.1 sees it: running until a result is
\* reported, finished afterwards.
Lifecycle == INSTANCE BuildActionLifecycle
    WITH status <- IF result = "none" THEN "running" ELSE "finished",
         Results <- {"success", "failure"}

\* RemovePackages and MovePackages implement the build action lifecycle:
\* the early failures of prepareRepoAction() and run(), the repo-remove
\* handler and the MultiSession's conclude() each report a result once and
\* return, and the action always reports one.
ImplementsLifecycle == Lifecycle!Spec

=============================================================================

--------------------------- MODULE CleanRepository ---------------------------
(***************************************************************************)
(* The CleanRepository build action (src/unnamed/part_004, lines 434-721)  *)
(* for one destination database "dest" whose package directory "arch" has *)
(* a sibling directory "other" of the same repository for another          *)
(* architecture, and the shared "any" and "src" directories.               *)
(*                                                                         *)
(* Under the Config read lock, run() discovers the directories, loads the  *)
(* database of "other" from its *.db file and classifies every file; it    *)
(* then releases the lock and deletes or archives files directory by      *)
(* directory, while other Config writers may make a database reference a  *)
(* file again.  File names are model values; which file a database entry  *)
(* names, and every file system call that may fail, is chosen              *)
(* nondeterministically.                                                   *)
(***************************************************************************)
EXTENDS Naturals, FiniteSets

CONSTANTS
    Files,        \* the files found in the repository directories
    Pkgs,         \* package names
    FileDir,      \* [Files -> Dirs]
    FileKind,     \* [Files -> FileKinds]
    FilePkg,      \* [Files -> Pkgs], the name fileNameComponents() yields
    DryRunModes,  \* the values of CleanRepositoryFlags::DryRun to check
    ArchiveDirChoices, \* the sets of directories with an archive dir at start
    Writers       \* whether other Config writers run concurrently

Dirs == {"arch", "other", "any", "src"}

\* a database file, a junk file, a package whose name cannot be parsed, a
\* package file
FileKinds == {"db", "junk", "badName", "pkg"}

Dbs == {"dest", "sibling"}

\* the directory holding a database's packages (localPkgDir)
DbDir == [db \in Dbs |-> IF db = "dest" THEN "arch" ELSE "other"]

ASSUME FileDir \in [Files -> Dirs] /\ FileKind \in [Files -> FileKinds]
ASSUME FilePkg \in [Files -> Pkgs] /\ DryRunModes \subseteq BOOLEAN
ASSUME Writers \in BOOLEAN /\ ArchiveDirChoices \subseteq SUBSET Dirs

\* what a database entry of package p may name: nothing (no entry), an
\* entry without fileName, or a package file in its own or the "any" dir
Refs(db, p) ==
    {"none", "noFileName"} \cup
    {f \in Files : FileKind[f] = "pkg" /\ FilePkg[f] = p
                   /\ FileDir[f] \in {DbDir[db], "any"}}

\* the file system calls of discovery that may fail: localPkgDir is empty,
\* canonical() of it, of "../any" or of "../src" fails, iterating the
\* parent fails; the number of *.db files in "other"
Env == [pkgDirEmpty : BOOLEAN, archCanonical : BOOLEAN,
        anyCanonical : BOOLEAN, srcCanonical : BOOLEAN,
        parentIterable : BOOLEAN, siblingDbFiles : 0..2]

VARIABLES
    ref,          \* ref[db][p]: the file the entry of p in db names
    scanned,      \* (history) ref as the classification read it
    env,
    dryRun,       \* m_dryRun
    phase,
    relevant,     \* repoDirs: relevantDbs of each directory found
    toDelete, toArchive,
    pending,      \* directories the file system loop has yet to handle
    deleted, archived,
    archiveDirs,  \* directories with an "archive" subdirectory
    errors,       \* m_messages.errors is not empty
    resultErrors, \* the errors of resultData are not empty
    result

vars == <<ref, scanned, env, dryRun, phase, relevant, toDelete, toArchive, pending, deleted,
          archived, archiveDirs, errors, resultErrors, result>>

TypeOK ==
    /\ ref \in [Dbs -> [Pkgs -> Files \cup {"none", "noFileName"}]]
    /\ scanned \in [Dbs -> [Pkgs -> Files \cup {"none", "noFileName"}]]
    /\ env \in Env
    /\ dryRun \in BOOLEAN
    /\ phase \in {"scan", "operate", "done"}
    /\ relevant \in [Dirs -> SUBSET Dbs]
    /\ toDelete \subseteq Files /\ toArchive \subseteq Files
    /\ pending \subseteq Dirs
    /\ deleted \subseteq Files /\ archived \subseteq Files
    /\ archiveDirs \subseteq Dirs
    /\ errors \in BOOLEAN /\ resultErrors \in BOOLEAN
    /\ result \in {"none", "success", "failure"}


In(d) == {f \in Files : FileDir[f] = d}

-----------------------------------------------------------------------------
(* Discovery (lines 474-596): repoDirs with the relevantDbs of each.       *)

\* the destination's own directory and, through addAnyAndSrcDir(), "any"
\* and "src"; a sibling directory found next to "arch" gets the database
\* loaded from its *.db file, which addAnyAndSrcDir() adds to "any" and
\* "src" as well
SiblingLoaded(e) ==
    ~e.pkgDirEmpty /\ e.archCanonical /\ e.parentIterable /\ e.siblingDbFiles = 1

\* the sibling's database not added to the shared directories
DiscoveredRelevantNoSibling(e) ==
    [d \in Dirs |->
        CASE d = "arch"  -> IF ~e.pkgDirEmpty /\ e.archCanonical THEN {"dest"} ELSE {}
          [] d = "other" -> IF SiblingLoaded(e) THEN {"sibling"} ELSE {}
          [] d = "any"   -> IF ~e.pkgDirEmpty /\ e.anyCanonical THEN {"dest"} ELSE {}
          [] d = "src"   -> IF ~e.pkgDirEmpty /\ e.srcCanonical THEN {"dest"} ELSE {}]

DiscoveredRelevant(e) ==
    LET dbsOfShared(ok) ==
            IF ~e.pkgDirEmpty /\ ok
            THEN {"dest"} \cup (IF SiblingLoaded(e) THEN {"sibling"} ELSE {})
            ELSE {}
    IN  [d \in Dirs |->
            CASE d = "arch"  -> IF ~e.pkgDirEmpty /\ e.archCanonical
                                THEN {"dest"} ELSE {}
              [] d = "other" -> IF SiblingLoaded(e) THEN {"sibling"} ELSE {}
              [] d = "any"   -> dbsOfShared(e.anyCanonical)
              [] d = "src"   -> dbsOfShared(e.srcCanonical)]

\* handleFatalError(): no parent path, the parent cannot be iterated, or
\* the sibling has no or several *.db files
Fatal(e) ==
    ~e.pkgDirEmpty /\
    (~e.archCanonical \/ ~e.parentIterable \/ e.siblingDbFiles # 1)

\* every failed call appends to m_messages.errors
DiscoveryErrors(e) ==
    \/ e.pkgDirEmpty
    \/ ~e.pkgDirEmpty /\ ~(e.archCanonical /\ e.anyCanonical /\ e.srcCanonical)
    \/ Fatal(e)

-----------------------------------------------------------------------------
(* Classification (lines 598-669).                                        *)

\* some relevant database has an entry for the package that names this
\* very file or has no file name
Referenced(f, dbs) == \E db \in dbs : ref[db][FilePkg[f]] \in {f, "noFileName"}

\* a name with neither ".pkg" nor ".src" in it, which database files also have
NamesNoPackage(f) == FileKind[f] \in {"db", "junk"}

\* deleting junk files that are not database files: the checks swapped
ClassifyJunkFirst(f, dbs) ==
    IF NamesNoPackage(f) THEN "delete"
    ELSE IF FileKind[f] = "db" \/ FileKind[f] = "badName" THEN "keep"
    ELSE IF Referenced(f, dbs) THEN "keep" ELSE "archive"

\* the file name checks in their order: *.db / *.files first, then
\* non-package junk, then package files whose name parses
Classify(f, dbs) ==
    IF FileKind[f] = "db" THEN "keep"
    ELSE IF NamesNoPackage(f) THEN "delete"
    ELSE IF FileKind[f] = "badName" THEN "keep"
    ELSE IF Referenced(f, dbs) THEN "keep" ELSE "archive"

\* variant of Scan missing the return after handleFatalError(): the file
\* system loop still runs and the result is reported again
ScanNoReturnAfterFatal ==
    /\ phase = "scan"
    /\ LET rel == DiscoveredRelevant(env)
           found == {d \in Dirs : rel[d] # {}}
       IN \/ /\ Fatal(env)
             /\ resultErrors' = TRUE
             /\ errors' = FALSE                \* moved into resultData
             /\ result' = "failure" /\ phase' = "operate"
             /\ relevant' = rel /\ pending' = found \ {"src"}
             /\ UNCHANGED <<toDelete, toArchive>>
          \/ /\ ~Fatal(env)
             /\ \E unread \in SUBSET UNION {In(d) : d \in found}, iterFails \in BOOLEAN :
                 LET read == UNION {In(d) : d \in found} \ unread
                 IN  /\ unread # {} => iterFails
                     /\ toDelete' = {f \in read : Classify(f, rel[FileDir[f]]) = "delete"}
                     /\ toArchive' = {f \in read : Classify(f, rel[FileDir[f]]) = "archive"}
                     /\ errors' = (DiscoveryErrors(env) \/ iterFails)
             /\ relevant' = rel
             \* source repositories are skipped by the file system loop
             /\ pending' = found \ {"src"}
             /\ scanned' = ref
             /\ phase' = "operate"
             /\ UNCHANGED <<resultErrors, result>>
    /\ UNCHANGED <<ref, env, dryRun, deleted, archived, archiveDirs>>
    /\ Fatal(env) => UNCHANGED scanned

\* run() up to releasing the Config read lock; directory_iterator() may
\* throw while iterating a directory, which leaves its remaining files
\* unclassified
Scan ==
    /\ phase = "scan"
    /\ LET rel == DiscoveredRelevant(env)
           found == {d \in Dirs : rel[d] # {}}
       IN \/ /\ Fatal(env)
             /\ resultErrors' = TRUE
             /\ errors' = FALSE                \* moved into resultData
             /\ result' = "failure" /\ phase' = "done"
             /\ UNCHANGED <<relevant, toDelete, toArchive, pending>>
          \/ /\ ~Fatal(env)
             /\ \E unread \in SUBSET UNION {In(d) : d \in found}, iterFails \in BOOLEAN :
                 LET read == UNION {In(d) : d \in found} \ unread
                 IN  /\ unread # {} => iterFails
                     /\ toDelete' = {f \in read : Classify(f, rel[FileDir[f]]) = "delete"}
                     /\ toArchive' = {f \in read : Classify(f, rel[FileDir[f]]) = "archive"}
                     /\ errors' = (DiscoveryErrors(env) \/ iterFails)
             /\ relevant' = rel
             \* source repositories are skipped by the file system loop
             /\ pending' = found \ {"src"}
             /\ scanned' = ref
             /\ phase' = "operate"
             /\ UNCHANGED <<resultErrors, result>>
    /\ UNCHANGED <<ref, env, dryRun, deleted, archived, archiveDirs>>
    /\ Fatal(env) => UNCHANGED scanned

-----------------------------------------------------------------------------
(* The file system operations (lines 674-716), with no lock held.          *)

\* one directory: delete its junk, make the archive directory unless it
\* exists, move the files to archive into it; only remove() and rename()
\* are skipped in a dry run
Operate(d) ==
    /\ phase = "operate" /\ d \in pending
    /\ LET dels == toDelete \cap In(d)
           arcs == toArchive \cap In(d)
       IN \E delFail \in SUBSET dels, mkdirFails \in BOOLEAN, arcFail \in SUBSET arcs :
            /\ dryRun => delFail = {} /\ arcFail = {}
            /\ d \in archiveDirs => ~mkdirFails
            /\ deleted' = IF dryRun THEN deleted ELSE deleted \cup (dels \ delFail)
            /\ archiveDirs' = IF mkdirFails THEN archiveDirs ELSE archiveDirs \cup {d}
            /\ archived' = IF dryRun \/ mkdirFails THEN archived
                           ELSE archived \cup (arcs \ arcFail)
            /\ errors' = (errors \/ delFail # {} \/ mkdirFails
                                \/ (~mkdirFails /\ arcFail # {}))
    /\ pending' = pending \ {d}
    /\ UNCHANGED <<ref, scanned, env, dryRun, phase, relevant, toDelete,
                   toArchive, resultErrors, result>>

\* the result is taken from m_messages after it was moved into resultData
ResultOf(errs) == IF errs THEN "failure" ELSE "success"

Report ==
    /\ phase = "operate" /\ pending = {}
    /\ resultErrors' = errors
    /\ errors' = FALSE                         \* the moved-from vector
    /\ result' = ResultOf(errors')
    /\ phase' = "done"
    /\ UNCHANGED <<ref, scanned, env, dryRun, relevant, toDelete, toArchive, pending,
                   deleted, archived, archiveDirs>>

\* another Config writer makes an entry of the destination database name a
\* file of it again, e.g. repo-add of a rebuilt package with the same file
\* name; sibling databases are temporaries run() loaded from their *.db
\* file, which no other writer reaches, and a file already moved to the
\* archive directory is no longer there to be named
\* bound: one other writer commits while the loop runs, which is enough
\* for a database to name a file again after it was classified
OneWriteAfterScan == ref = scanned

AddReference ==
    /\ Writers /\ phase = "operate" /\ OneWriteAfterScan
    /\ \E p \in Pkgs :
        \E f \in Refs("dest", p) \ ({"none", "noFileName"} \cup archived) :
            /\ ref["dest"][p] # f
            /\ ref' = [ref EXCEPT !["dest"][p] = f]
    /\ UNCHANGED <<scanned, env, dryRun, phase, relevant, toDelete, toArchive, pending,
                   deleted, archived, archiveDirs, errors, resultErrors,
                   result>>

-----------------------------------------------------------------------------

Init ==
    /\ ref \in {r \in [Dbs -> [Pkgs -> Files \cup {"none", "noFileName"}]] :
                   \A db \in Dbs, p \in Pkgs : r[db][p] \in Refs(db, p)}
    /\ scanned = ref
    /\ env \in Env
    /\ dryRun \in DryRunModes
    /\ archiveDirs \in ArchiveDirChoices
    /\ phase = "scan"
    /\ relevant = [d \in Dirs |-> {}]
    /\ toDelete = {} /\ toArchive = {} /\ pending = {}
    /\ deleted = {} /\ archived = {}
    /\ errors = FALSE /\ resultErrors = FALSE
    /\ result = "none"

Next == Scan \/ (\E d \in Dirs : Operate(d)) \/ Report \/ AddReference

Spec == Init /\ [][Next]_vars /\ WF_vars(Scan \/ Report \/ \E d \in Dirs : Operate(d))

-----------------------------------------------------------------------------
(* Properties                                                              *)

\* Spec 4.9: a package file is archived only if no database that can refer
\* to it (the one of its directory, or any database for "any") names it or
\* has an entry for its package without a file name, at the moment the
\* rename() moves it: a step of the file system loop never archives a file
\* that a database references in the state the step starts from.
NeverArchiveReferenced ==
    [][\A f \in archived' \ archived, db \in Dbs :
          FileDir[f] \in {DbDir[db], "any"} =>
              ref[db][FilePkg[f]] \notin {f, "noFileName"}]_vars

\* The same rule against the database contents run() read under the Config
\* read lock: with other writers running, the classification must still
\* never pick a file that any database able to refer to it referenced then.
ArchivedUnreferencedAtScan ==
    \A f \in archived, db \in Dbs :
        FileDir[f] \in {DbDir[db], "any"} =>
            scanned[db][FilePkg[f]] \notin {f, "noFileName"}

\* Only non-package junk is deleted: database files and package files,
\* including those whose name does not parse, are never removed.
OnlyJunkDeleted == \A f \in deleted : FileKind[f] = "junk"

\* The action reports Failure whenever an error was recorded.
ResultReflectsErrors == result = "success" => ~resultErrors

\* The action's record as spec 4.1 sees it: running until a result is
\* reported, finished afterwards.
Lifecycle == INSTANCE BuildActionLifecycle
    WITH status <- IF result = "none" THEN "running" ELSE "finished",
         Results <- {"success", "failure"}

\* CleanRepository implements the safety part of the build action
\* lifecycle: handleFatalError() and the final reportResult() are each
\* followed by a return, so one result is reported, once, and never
\* changed by a later step.  (Every step of run() is a step towards its
\* end, so it always gets there; that is not checked here.)
ImplementsLifecycle == Lifecycle!SafetySpec

=============================================================================

# TLA+ models of arch-repo-manager

These are TLA+ specifications of the concurrent parts of arch-repo-manager. The
C++ sources are under `src/`, and `spec.md` describes the system. Each module
is written from the source lines that `PROJECT.json` ("map") names for each
definition. A definition marked `spec_modelled` stands for code that is not in
`src/`, so it is written from `spec.md`.

## The system

arch-repo-manager is a server that keeps an index of pacman databases and runs
*build actions* on them.

- **Config.** Holds the databases. It is guarded by one reader/writer lock
  (`Config::lockToRead` / `lockToWrite`, declared in
  `src/libpkg/data/config.h`).
- **Database.** A database maps package names to `Package` objects. It also
  keeps derived indices: `providedDeps`, `requiredDeps`, `providedLibs` and
  `requiredLibs`. Spec §2 requires every package to be reachable from
  `providedLibs` through its `libprovides`.
- **StorageCache.** Packages are persisted in LMDB tables (`<db>_packages`,
  `<db>_provides` and so on). The tables are reached through a write-through
  LRU cache (`src/unnamed/part_001`, lines 1-232). The cache has one mutex, and
  every operation releases it around its LMDB transaction. LMDB allows one
  read-write transaction at a time. Read-only transactions see the last
  committed snapshot.
- **Build actions** run on the server's io_context and on threads of their own.
  They take the Config lock for reading or writing, start processes, and
  finally report a result (`Success`, `Failure` or `Aborted`).
  - `ReloadLibraryDependencies`
    (`src/librepomgr/buildactions/reloadlibrarydependencies.cpp`) parses binary
    packages on `hardware_concurrency()` threads. It merges the library
    information it finds into the databases.
  - `RemovePackages`, `MovePackages`, `CheckForProblems` and `CleanRepository`
    are in `src/unnamed/part_004`.
  - `CustomCommand` and the action meta-info tables are in
    `src/unnamed/part_003`.
- **Clients.** The command line client (`src/unnamed/part_000`) sends one HTTP
  request and prints the answer. The server main is in `src/unnamed/part_002`.
  The unit tests are in `src/unnamed/part_005`.

The parts interact in three ways:

- Build actions read and write the Config and its databases under the Config
  lock.
- The databases write their packages through the StorageCache.
- Several build actions and web requests run at the same time, so Config
  writers (database updates, other actions) interleave with the unlocked
  phases of a running action.

## Inventory

| Part | State | Operations | Hard behaviour |
|---|---|---|---|
| StorageCache | LRU node list, committed table, the RW transaction, per-thread progress | `retrieve`, `store(force)`, `invalidate`, `clear`, `clearCacheOnly`, `store(txn)` | The mutex is released across LMDB I/O. Node pointers are kept across the unlock. Eviction happens at the limit. The cache is updated before the commit. |
| Database indices | packages, libprovides, providedLibs | `updatePackage`, `removePackage`, `remove/addPackageDependencies` (not in `src/`) | The index must stay consistent with the packages. |
| ReloadLibraryDependencies | collected items, shared iterator, errors, result | `run`, `downloadPackagesFromMirror`, workers, write-back, `conclude` | Three phases with the lock released in between. Worker threads share an iterator. Abort can happen at any point. |
| RemovePackages / MovePackages | located, processed and failed packages | `run`, process result handlers, `movePackagesToArchive`, `conclude` | Two child processes finish in any order. Per-package failure bookkeeping. |
| CleanRepository | discovered directories with their relevant databases, files to delete and archive, messages, result | `run`, `handleFatalError` | Many file system calls can fail. The lock is released before files are archived. The result is computed after `m_messages` was moved. |
| CheckForProblems, CustomCommand | messages, result | `run` | Sequential. |
| Client | return code | `main`, `handleResponse` | The exit status. |

## Modules

### `StorageCache` (part_001 lines 9-232)

**State.** The model has these variables:

- `db` is the committed `<db>_packages` table. Package names map to package
  objects, which are model values standing for distinct `shared_ptr`s.
- `writer` is the thread holding the read-write transaction.
- `cache` is the node list, most recently used first.
- `pc`, `opName`, `opVal` and `readVal` are each thread's progress.
- `ptr` is the `StorageEntry*` that `store()` took under the first lock. It is
  "none", "live", or "dangling" once its node was erased or evicted.

**Actions.** Each region the mutex protects is one step, and so is each LMDB
transaction. All of them follow the source line by line:

- `store`:
  - `StoreLookup` (lines 98-120) covers the early return on the same object
    without `force`.
  - `StorePut` (121-132).
  - `StoreUpdateCache` (133-141).
  - `StoreCommit` (142-145), and `StoreCommitFail` when `CommitMayFail`:
    `txn.commit()` throws, the transaction's destructor aborts the put and
    releases the transaction, and the cache keeps the entry written before.
- `retrieve`: `RetrieveLookup`, `RetrieveRead` and `RetrieveInsert` (72-96).
- `invalidate`: `InvalidateCache` and `InvalidateStore` (188-204).
- `clear`: `ClearCache` and `ClearStore` (206-232).

`CacheInsert` is `StorageCacheEntries::insert`:

- A present node is only relocated, and keeps its entry.
- A new node can evict the back of the list once the size exceeds `m_limit`.

A write through a dangling pointer is undefined behaviour. It is modelled as a
write that is lost, and `NoDanglingEntryPointer` flags the state before it.
`store` updates the cache node and unlocks before `txn.commit()`
(lines 140-142): `StoreUpdateCache` and `StoreCommit` are separate steps, so
another thread can evict the node in between.

### `ReloadLibraryDependencies` (reloadlibrarydependencies.cpp lines 25-353)

**Database state.** The model tracks one database:

- each package's `build` (version plus build date), `origin`, `timestamp` and
  `libprov`;
- `index`, the `providedLibs` projections registered for the package;
- `location`, where `run()` finds the binary: the local directory, the mirror,
  or nowhere.

Build `b` of package `p` is represented by the number `b`. It is also the mtime
of its binary, which provides `LibsOf(p, b)`.

**The action.** Its steps correspond to the code as follows:

- `Run` is the whole collection loop of `run()` under the read lock. It covers:
  - the abort check inside the loop;
  - the error "not found and no mirror";
  - the skip of packages that are already analysed and not older;
  - the immediate `conclude()` when nothing is left.
- `Download` is `downloadPackagesFromMirror`. Each url item's download fails or
  succeeds.
- `StartWorkers` is the abort check of `loadPackageInfoFromContents`.
- `TakeItem(w)` and `ParseItem(w)` are one iteration of `processPackage` in
  worker `w`:
  1. the abort check and the end-of-list check;
  2. taking the item under `nextPackageMutex`;
  3. reporting a cache error, or parsing (which either succeeds or throws).
- `WriteBack` is lines 303-341 under the write lock, followed by `conclude()`.
  `Bumped` is the timestamp update of lines 329-332.

**Other actors.**

- `UpdatePackage` and `RemovePackage` are the other Config writers, the
  `Database` methods modelled from spec §3.
- `Abort` is the build action API's abort.

### `PackageMovement` (part_004 lines 29-372)

One build action of type RemovePackages or MovePackages, chosen at `Init`
(`kind`). It handles three requested packages.

- **State.** `where[p]` and `storage[p]` are the environment: whether the
  package is unlisted, fails to locate, is absent or is found, and whether it
  has a storage location. `located` is `m_packageLocations`, and `ok` is its
  flags. `processed` and `failed` are the two result lists, in order.
- **Actions.**
  - `Prepare` is `prepareRepoAction` with `locatePackages` (`Locate`,
    `NotLocated`) and `initWorkingDirectory`. It fails early when nothing was
    located.
  - `RemoveRun` launches repo-remove. `RemoveHandleResult` is its handler,
    including `movePackagesToArchive`. That loop is the RECURSIVE operator
    `ArchiveLoop`, which keeps the code's `processedPackageIterator`. Each
    rename may fail (`fails`).
  - `MoveRun` copies the packages and launches both processes.
    `MoveHandleRepoAdd` and `MoveHandleRepoRemove` run in either order.
    `MoveConclude` runs once both have run, as the MultiSession does.
- **The two databases.** `launched` is `m_fileNames`, the packages passed to
  both tools by `MoveRun`. `inSource` and `inDest` are the packages each
  database lists: repo-remove succeeding takes `launched` out of `inSource`,
  repo-add succeeding puts it into `inDest`.

### `CleanRepository` (part_004 lines 439-721)

One destination database `dest` whose directory `arch` has a sibling
directory `other` (database `sibling`, loaded from its `*.db` file). It also
has the shared `any` and `src` directories. Eight files cover every kind.

- **State.** `ref[db][p]` is the file an entry names (or `none` /
  `noFileName`). `env` records which discovery calls fail. `relevant` is
  `repoDirs[..].relevantDbs`. `toDelete` and `toArchive` are the
  classification, and `pending` holds the directories the file system loop has
  left. `deleted`, `archived` and `archiveDirs` are the file system.
- **Actions.**
  - `Scan` is everything under the Config read lock: discovery
    (`DiscoveredRelevant`, `Fatal`, `DiscoveryErrors`), `handleFatalError`, and
    classification (`Classify`, `Referenced`). Any directory iteration may stop
    part way.
  - `Operate(d)` is one pass of the unlocked loop. Deletes, `create_directory`
    and renames may fail. Only `remove` and `rename` honour DryRun.
  - `Report` moves `m_messages` into `resultData` and then computes the result
    from the moved-from object.
  - `AddReference` is another Config writer (spec_modelled). While the loop
    runs, it makes an entry of the destination database name one of its
    files again, one not yet archived. Sibling databases are temporaries
    `run()` loaded from their `*.db` file (lines 571-573), which no other
    writer reaches. `OneWriteAfterScan` bounds it
    to one write per run, which is all a file re-referenced after the
    classification needs.
- **History.** `scanned` is `ref` as `Scan` saw it under the read lock. It
  lets `ArchivedUnreferencedAtScan` state what the classification could know.
- **Map.** `Fatal` is listed at lines 521-588: besides the fatal checks of
  521-544 it translates the sibling `*.db` checks of 564-568 and 580-588.

### `BuildActionLifecycle` (spec §4.1 and §7)

The abstract specification every internal build action promises. `status` is
running or finished and `result` is none until the one `Conclude(r)` step,
which is `reportResult`. Under `Spec` the action also does get there (weak
fairness); `SafetySpec` is the same without it.

Each action module takes it as `Lifecycle == INSTANCE BuildActionLifecycle
WITH status <- ..., result <- result` and checks `ImplementsLifecycle` as a
PROPERTY. The refinement mapping reads the status off the module's own
`result` variable ("none" is running), so the check says the detailed action
sets its result exactly once, never changes it afterwards, and only to one of
the results its type can report: Success, Failure or Aborted for
ReloadLibraryDependencies, Success or Failure for the other two. Reload and
PackageMovement check `Lifecycle!Spec`, the liveness included; CleanRepository
checks `Lifecycle!SafetySpec`, because its state space with the temporal
formula is beyond the run budget.

## Runs

| Run | Cfg | Expect | What it shows |
|---|---|---|---|
| storage_store_retrieve | `StorageCacheStoreRetrieve.cfg` | violation | `CacheCoherent` fails with only store and retrieve and a one-node cache. t1's store of n1 writes v2 into the cache and unlocks (lines 140-141). t2 retrieves n2, which evicts n1, then retrieves n1, misses, reads the committed v1 and caches it. t1 commits v2 (line 142), and the cache keeps v1. |
| storage_all_ops | `StorageCacheAllOps.cfg` | pass | With all four operations, Limit = 1 and `txn.commit()` allowed to throw, every step keeps the cache within its limit and the thread states consistent (`TypeOK`). Its use is to fire every action, the throwing commit included. |
| storage_retrieve_invalidate | `StorageCacheRetrieveInvalidate.cfg` | violation | `CacheCoherent` fails in 6 states. A retrieve misses and reads `v1`. An invalidate erases the node and deletes the row. The retrieve then inserts `v1`, so the cache serves a deleted package. |
| storage_store_invalidate | `StorageCacheStoreInvalidate.cfg` | violation | `NoDanglingEntryPointer` fails. A store finds the node and puts, an invalidate erases the node, and the store writes through the freed pointer. |
| reload_with_updates | `ReloadWithUpdates.cfg` | pass | With updates and removals racing, `TypeOK` and the three other properties hold. `ContentsMatchBuild`: parsed data goes only to the build it came from. `SuccessMeansAllParsed`: a Success result means the workers took every item off the shared iterator and parsed it, and `conclude()` saw every error. `ImplementsLifecycle`: the action refines `BuildActionLifecycle!Spec`, so it concludes exactly once. |
| reload_index_lost | `ReloadIndexLost.cfg` | violation | `IndexConsistent` fails. A package is replaced, by a build whose libraries are known, while its old binary is parsed. The write-back removes its projections (line 323), the merge is refused (line 326), and `continue` skips `addPackageDependencies`. |
| pm_actions | `PackageMovement.cfg` | pass | Both action types run with every locate, copy, archive, removal and process outcome, and every package has a storage location. `ProcessedMeansArchived`: RemovePackages lists exactly the archived packages as processed and the other located ones as failed. `NoPackageTwice`: MovePackages lists no package twice, neither in one list nor as both processed and failed. (RemovePackages with mixed storage is the `pm_remove_mixed` run.) `MoveProcessedComplete`: MovePackages lists as processed only packages that were copied and removed, and reports Success iff nothing failed, with the handlers in either order. `ImplementsLifecycle`: both action types refine `BuildActionLifecycle!Spec`. |
| pm_move_package_lost | `MovePackagesLost.cfg` | violation | `PackageNotLost` fails. repo-add and repo-remove are launched together (lines 270-278); repo-add fails and repo-remove succeeds, so p3 is removed from the source database and never added to the destination. |
| pm_remove_mixed | `RemovePackagesMixed.cfg` | violation | `ProcessedMeansArchived` fails when some packages have no storage location. The `continue` at line 197 skips `++processedPackageIterator`, so a later archive failure erases the wrong package. Trace: p1 is unlisted, p2 is found without storage, and p3's archive fails. The result is `processed = <<p3>>` and `failed = <<p1, p3>>`, while p2, which was archived, is listed nowhere. |
| clean_actions | `CleanRepository.cfg` | pass | With one concurrent writer, in both modes and with every discovery or file system failure: `ArchivedUnreferencedAtScan`, every archived file was referenced by no database able to refer to it when the classification ran, "any" files referenced only by the sibling's database included. `OnlyJunkDeleted`: never a database or package file is deleted. `ImplementsLifecycle`: the result is set once (`BuildActionLifecycle!SafetySpec`). |
| clean_concurrent_reference | `CleanRepositoryConcurrentRef.cfg` | violation | `NeverArchiveReferenced` fails. It is an action property: no step archives a file that a database references in the state the step starts from. After `Scan` released the read lock (line 672), a writer makes the destination database name f2 in `any`. The next `Operate` step then archives f2. |
| clean_result_after_move | `CleanRepositoryResult.cfg` | violation | `ResultReflectsErrors` fails. In TLC's trace the destination database's `localPkgDir` is empty, discovery records that error and the file system loop has nothing to do, and the result is still Success (lines 719-720). Any other recorded error, a failed delete or rename included, ends the same way. |

Each property of a passing run has a mutant in `PROJECT.json`. A mutant
replaces a mapped definition by a plausible bug, and TLC must then find the
property violated. Examples:

- eviction never happening;
- the shared iterator moved twice;
- the result read after the move;
- a worker that never returns to the top of its loop;
- the archive loop not erasing the failed package;
- the sibling's database not added to "any";
- the junk test placed before the database-file test;
- a fatal discovery error or a failing working directory that does not return
  after reporting Failure.

## Bounds

- **StorageCache:** 2 threads, 2 names, 2
  package objects. Commits fail only in `storage_all_ops`: a failed commit
  leaves a stale cache entry, which would hide the other runs' questions. `Limit` is 1 in every run, so that
  an insert of the other name evicts: with `Limit` = 2 = |Names| nothing is
  ever evicted and the store/retrieve race of `storage_store_retrieve` cannot
  happen. The `Operations` subset is chosen per run. Threads, names and values
  are symmetric in every run.
- **Why these are enough for StorageCache:** Two threads suffice for every race
  of one operation against another. Two names make eviction by a different name
  possible. Two values make a stale entry distinguishable from the current one.
- **ReloadLibraryDependencies:** 2 packages, 2 builds, 2 workers, and every
  initial database over them (every build, origin, timestamp and location).
- **Why these are enough for ReloadLibraryDependencies:** Two workers are the
  least that can contend for the iterator. Two builds are the least for a
  replacement, and two packages let skipped and parsed items coexist.

- **PackageMovement:** 3 requested packages, each with every locate outcome.
  Three packages are the least for a failure after a skipped package, with a
  third still to come.
- **CleanRepository:** 2 packages and 8 files, one per relevant combination:
  - a package in `arch`, in `any` (both packages) and in `other`;
  - junk and a database file in `arch`;
  - a file whose name does not parse;
  - a source package.

  Every reference each database can hold, and every failure of each discovery
  call, are enumerated. The initial archive directories are none, or only
  `arch`'s.

## Fairness

- **StorageCache:** Each thread's steps of an operation already in progress
  (`Continue(t)`) are weakly fair. The thread is an OS thread that is not
  blocked once the transaction it waits for is free. Starting a new operation
  is not fair: a client need not call again.
- **ReloadLibraryDependencies:** The action's own steps are weakly fair,
  including each worker's take and parse. The workers are OS threads. The
  caching session always calls back, because a failed download is recorded as
  an error, not dropped. The updater and the abort are not fair.
- **PackageMovement and CleanRepository:** The action's own steps are weakly
  fair. The child processes exit, and the io_context runs their handlers.
  `AddReference` is not fair.
- **Deadlock checking:** The Reload, PackageMovement and CleanRepository runs use `CHECK_DEADLOCK FALSE` because the
  action really ends. Once it concludes and the updater has nothing left to do,
  no step is enabled.

## Findings

1. `retrieve` can re-insert a package that a concurrent `invalidate` deleted.
   This is `storage_retrieve_invalidate`, at part_001:91.
2. `store` can write through a cache node that `invalidate` or eviction freed
   after the first unlock. This is use after free,
   `storage_store_invalidate`, at part_001:136.
3. The ReloadLibraryDependencies write-back loses the `providedLibs` entries of
   a package that was replaced while its binary was parsed. This is
   `reload_index_lost`, at reloadlibrarydependencies.cpp:323-327.
4. `RemovePackages` lists an archived package nowhere, and a failed one as both
   processed and failed, once a package without storage location comes before
   a failing one. This is `pm_remove_mixed`, at part_004:197.
5. `CleanRepository` reports Success even when errors were recorded, because
   the result is read from the moved-from `m_messages`. This is
   `clean_result_after_move`, at part_004:720.
6. `CleanRepository` archives files that a concurrent writer references again
   after the read lock was released and before the rename. This is `clean_concurrent_reference`, at
   part_004:672.
7. `CleanRepository` creates the archive directories even in a dry run
   (part_004:697), contrary to spec §8. This is kept in `Operate` and listed as
   a hazard, but no run states it.
8. `MovePackages` can lose a package: repo-add and repo-remove run at the same
   time, and when repo-add fails and repo-remove succeeds the package is in
   neither database (`pm_move_package_lost`, part_004:278). Spec §4.9 only
   says the package then does not count as moved; this is recorded as a
   spec gap.
9. `store` can leave the cache holding an older package than it committed,
   with only stores and retrieves: it updates the cache and unlocks before
   `txn.commit()`, an eviction drops the node, and a retrieve caches the
   snapshot from before the commit (`storage_store_retrieve`,
   part_001:141-142).

## Not modelled, and why

- **`store(storage, txn, entry)`.** It runs inside a caller's transaction, and
  no caller is in `src/`.
- **`retrieve` by ID.** It has the same control as `retrieve` by name.
- **LMDB ids.** `txn.put`'s id allocation belongs to lmdb-typed, which is not
  part of this repository.
- **The other four tables that `clear` empties.** No property reads them.
- **The stale entry a failing `txn.commit()` leaves in the cache.** The
  throw is modelled (`StoreCommitFail`, which gives the transaction back as
  its destructor does), but the stale entry itself breaks `CacheCoherent` the same way the
  retrieve/invalidate race does. It is listed as a hazard.
- **Half-archived packages in RemovePackages.** `movePackagesToArchive`
  renames the repo file (part_004:195) before the storage target (202). If
  the second rename throws, the package is failed with its repo file already
  archived, which contradicts spec §4.9's "all-or-nothing per package".
  `ArchiveLoop` keeps the order of the two renames but records only whole
  packages, and no run states the rule. This is listed as a hazard.
- **Concurrent build actions on one repository.** The Config read lock is
  released after `locatePackages` (part_004:64). Another action may change
  the repository before the tools run. This is listed as a hazard.
- **Several databases in ReloadLibraryDependencies, and a database removed
  during the reload.** The action treats each database the same way. The
  items are one sequence: the iterator's step from one database's list to the
  next, across empty lists (lines 236-242), is not modelled.
  Dependency pulling for non-destination databases only filters the item set.
- **A second reload after a mirror download.** `location` is fixed, so the
  model does not see that a downloaded package is found in the cache
  directory next time. Its `lastModified` was `DateTime()`, so its timestamp
  was not raised (line 330) and it is parsed once more. This costs time but
  is safe, and it is listed as a hazard with no property: for a local binary
  the raise is a max, which a property would only restate.
- **`hardware_concurrency() == 0`.** The unsigned `0u - 1` wraps to `UINT_MAX`, about four billion threads. This
  is a platform value, listed as a hazard.
- **Web server, sessions, logging, PrepareBuild and ConductBuild.** They are
  not in `src/`.
- **CheckForProblems.** Sequential, read-only checks with a single Success
  result.
- **CleanRepository with several destination databases.** Each destination
  repeats the same discovery.
- **`BuildOrderOptions` (config.h:96-104).** Bit flags with their operators;
  the code that tests them is not in `src/`.
- **The rest of config.h.** It holds declarations and three inline
  forwarders. The file also carries the web UI's JavaScript (`initPage`,
  `handleHashChange`, the `sections` table). Spec §1 places the web UI out of
  scope, and that code is sequential DOM manipulation.
- **The meta-info tables, server main and client argument parsing.** These are
  static data or sequential I/O.

## Plan

Most important behaviour first:

1. `StorageCache`: done.
2. `ReloadLibraryDependencies` with the database index: done.
3. `PackageMovement`: done.
4. `CleanRepository`: done. Without a run: the dry-run `create_directory`
   divergence.
5. An abstract `BuildAction` lifecycle: done for Running → Finished with the
   result fixed once, refined by all three action modules. Created and
   Enqueued belong to the build action scheduler, which is not in `src/`.
6. Still open, each needing a violation run of its own:
   - the half-archived package of RemovePackages against spec §4.9
     (part_004:202);
   - the stale cache entry left by a failing `txn.commit()` (part_001:142);
   - the dry-run `create_directory` (part_004:697);
   - the client's exit status against spec §6 (part_000:321).

---------------------------- MODULE StorageCache ----------------------------
(***************************************************************************)
(* The write-through LRU cache of packages over the LMDB backing store     *)
(* (src/unnamed/part_001, StorageCacheEntries and StorageCache).           *)
(*                                                                         *)
(* Every operation takes the cache mutex, releases it across the LMDB     *)
(* transaction and takes it again to update the cache.  Each locked       *)
(* region is one step; the LMDB work between them is another.  Several    *)
(* threads run operations concurrently on one DatabaseStorage.            *)
(*                                                                         *)
(*   db      committed contents of the "<db>_packages" table              *)
(*   writer  the thread holding the single LMDB read-write transaction     *)
(*   cache   the multi-index container, most recently used first          *)
(*   ptr     the StorageEntry* a store took under the first lock: "none",  *)
(*           "live", or "dangling" once its node has been erased           *)
(***************************************************************************)
EXTENDS Naturals, Sequences, SequencesExt

CONSTANTS
    Threads,      \* threads calling into the cache
    Names,        \* package names (the (storage, name) index)
    Vals,         \* distinct std::shared_ptr<Package> objects
    Limit,        \* m_limit of StorageCacheEntries
    Operations,   \* which public operations the threads call
    CommitMayFail, \* whether txn.commit() may throw (disk or map full)
    None,         \* no value stored / no package read
    NoThread      \* nobody holds the read-write transaction

ASSUME Limit \in Nat \ {0}
ASSUME Operations \subseteq {"retrieve", "store", "invalidate", "clear"}
ASSUME CommitMayFail \in BOOLEAN

VARIABLES db, writer, cache, pc, opName, opVal, ptr, readVal

vars == <<db, writer, cache, pc, opName, opVal, ptr, readVal>>

Entry == [name : Names, val : Vals]

Pcs == {"idle", "store_txn", "store_cache", "store_commit",
        "ret_read", "ret_insert", "inv_store", "clr_store"}

TypeOK ==
    /\ db \in [Names -> Vals \cup {None}]
    /\ writer \in Threads \cup {NoThread}
    /\ cache \in Seq(Entry) /\ Len(cache) <= Limit
    /\ pc \in [Threads -> Pcs]
    /\ opName \in [Threads -> Names]
    /\ opVal \in [Threads -> Vals]
    /\ ptr \in [Threads -> {"none", "live", "dangling"}]
    /\ readVal \in [Threads -> Vals \cup {None}]

-----------------------------------------------------------------------------
(* The multi-index container (StorageCacheEntries).                        *)

CachedNames == {cache[i].name : i \in 1..Len(cache)}

\* position of the node indexed by name n, 0 if there is none
IndexOf(n) == SelectInSeq(cache, LAMBDA r : r.name = n)

\* find(): a hit relocates the node to the front
Relocate(i) == Cons(cache[i], RemoveAt(cache, i))

\* variant of OverLimit that never pops the back
OverLimitNever(c) == FALSE

\* variant of OverLimit that pops the back one node early
OverLimitEarly(c) == Len(c) >= Limit

\* insert() pops the back once the size exceeds m_limit
OverLimit(c) == Len(c) > Limit

\* variant of CacheInsert that overwrites the entry of an existing node
CacheInsertOverwrite(c, rec) ==
    LET i == SelectInSeq(c, LAMBDA r : r.name = rec.name)
    IN  IF i # 0 THEN Cons(rec, RemoveAt(c, i))
        ELSE IF OverLimit(Cons(rec, c)) THEN Front(Cons(rec, c))
        ELSE Cons(rec, c)

\* insert(): emplace_front; an existing node is only relocated, keeping its
\* entry; a new node may push the least recently used one out
CacheInsert(c, rec) ==
    LET i == SelectInSeq(c, LAMBDA r : r.name = rec.name)
    IN  IF i # 0 THEN Cons(c[i], RemoveAt(c, i))
        ELSE IF OverLimit(Cons(rec, c)) THEN Front(Cons(rec, c))
        ELSE Cons(rec, c)

\* names whose node disappears when going from cache to c
Erased(c) == CachedNames \ {c[i].name : i \in 1..Len(c)}

\* every StorageEntry* held for an erased node now points to freed memory
DanglePointers(gone) ==
    [t \in Threads |-> IF ptr[t] = "live" /\ opName[t] \in gone
                       THEN "dangling" ELSE ptr[t]]

Idle(t) == pc[t] = "idle"

-----------------------------------------------------------------------------
(* store(storage, entry, force)                                            *)

\* first locked region: look the name up, return early on the same entry
StoreLookup(t) ==
    /\ Idle(t) /\ "store" \in Operations
    /\ \E n \in Names, v \in Vals, force \in BOOLEAN :
        LET i == IndexOf(n) IN
        /\ opName' = [opName EXCEPT ![t] = n]
        /\ opVal' = [opVal EXCEPT ![t] = v]
        /\ \/ /\ i = 0
              /\ pc' = [pc EXCEPT ![t] = "store_txn"]
              /\ ptr' = [ptr EXCEPT ![t] = "none"]
              /\ UNCHANGED cache
           \/ /\ i # 0 /\ cache[i].val = v /\ ~force
              /\ cache' = Relocate(i)
              /\ UNCHANGED <<pc, ptr>>
           \/ /\ i # 0 /\ (cache[i].val # v \/ force)
              /\ cache' = Relocate(i)
              /\ pc' = [pc EXCEPT ![t] = "store_txn"]
              /\ ptr' = [ptr EXCEPT ![t] = "live"]
    /\ UNCHANGED <<db, writer, readVal>>

\* getRWTransaction() blocks while another writer is active; put() stays
\* invisible to readers until commit
StorePut(t) ==
    /\ pc[t] = "store_txn" /\ writer = NoThread
    /\ writer' = t
    /\ pc' = [pc EXCEPT ![t] = "store_cache"]
    /\ UNCHANGED <<db, cache, opName, opVal, ptr, readVal>>

\* second locked region: write through the pointer taken under the first
\* lock, or insert a node; a write through a dangling pointer is undefined
\* behaviour and is modelled as lost
StoreUpdateCache(t) ==
    /\ pc[t] = "store_cache"
    /\ LET n == opName[t]
           rec == [name |-> n, val |-> opVal[t]]
       IN \/ /\ ptr[t] = "live"
             /\ cache' = [cache EXCEPT ![IndexOf(n)].val = opVal[t]]
             /\ UNCHANGED ptr
          \/ /\ ptr[t] = "dangling"
             /\ UNCHANGED <<cache, ptr>>
          \/ /\ ptr[t] = "none"
             /\ LET c == CacheInsert(cache, rec)
                    i == SelectInSeq(c, LAMBDA r : r.name = n)
                IN  /\ cache' = [c EXCEPT ![i].val = opVal[t]]
                    /\ ptr' = DanglePointers(Erased(c))
    /\ pc' = [pc EXCEPT ![t] = "store_commit"]
    /\ UNCHANGED <<db, writer, opName, opVal, readVal>>

\* txn.commit() publishes the put and gives the transaction back
StoreCommit(t) ==
    /\ pc[t] = "store_commit"
    /\ db' = [db EXCEPT ![opName[t]] = opVal[t]]
    /\ writer' = NoThread
    /\ pc' = [pc EXCEPT ![t] = "idle"]
    /\ ptr' = [ptr EXCEPT ![t] = "none"]
    /\ UNCHANGED <<cache, opName, opVal, readVal>>

\* txn.commit() throws: the exception leaves store(), the transaction's
\* destructor aborts the put and gives the transaction back, and the cache
\* keeps the entry written at line 139
StoreCommitFail(t) ==
    /\ CommitMayFail /\ pc[t] = "store_commit"
    /\ writer' = NoThread
    /\ pc' = [pc EXCEPT ![t] = "idle"]
    /\ ptr' = [ptr EXCEPT ![t] = "none"]
    /\ UNCHANGED <<db, cache, opName, opVal, readVal>>

-----------------------------------------------------------------------------
(* retrieve(storage, entryName)                                            *)

RetrieveLookup(t) ==
    /\ Idle(t) /\ "retrieve" \in Operations
    /\ \E n \in Names :
        LET i == IndexOf(n) IN
        /\ opName' = [opName EXCEPT ![t] = n]
        /\ \/ /\ i # 0
              /\ cache' = Relocate(i)
              /\ UNCHANGED pc
           \/ /\ i = 0
              /\ pc' = [pc EXCEPT ![t] = "ret_read"]
              /\ UNCHANGED cache
    /\ UNCHANGED <<db, writer, opVal, ptr, readVal>>

\* read-only transaction: sees the last committed snapshot
RetrieveRead(t) ==
    /\ pc[t] = "ret_read"
    /\ readVal' = [readVal EXCEPT ![t] = db[opName[t]]]
    /\ pc' = [pc EXCEPT ![t] = IF db[opName[t]] = None THEN "idle"
                                                       ELSE "ret_insert"]
    /\ UNCHANGED <<db, writer, cache, opName, opVal, ptr>>

RetrieveInsert(t) ==
    /\ pc[t] = "ret_insert"
    /\ LET c == CacheInsert(cache, [name |-> opName[t], val |-> readVal[t]])
       IN  /\ cache' = c
           /\ ptr' = DanglePointers(Erased(c))
    /\ pc' = [pc EXCEPT ![t] = "idle"]
    /\ UNCHANGED <<db, writer, opName, opVal, readVal>>

-----------------------------------------------------------------------------
(* invalidate(storage, entryName) and clear(storage)                       *)

InvalidateCache(t) ==
    /\ Idle(t) /\ "invalidate" \in Operations
    /\ \E n \in Names :
        /\ opName' = [opName EXCEPT ![t] = n]
        /\ cache' = SelectSeq(cache, LAMBDA r : r.name # n)
        /\ ptr' = DanglePointers({n} \cap CachedNames)
    /\ pc' = [pc EXCEPT ![t] = "inv_store"]
    /\ UNCHANGED <<db, writer, opVal, readVal>>

\* find, del and commit inside one read-write transaction
InvalidateStore(t) ==
    /\ pc[t] = "inv_store" /\ writer = NoThread
    /\ db' = [db EXCEPT ![opName[t]] = None]
    /\ pc' = [pc EXCEPT ![t] = "idle"]
    /\ UNCHANGED <<writer, cache, opName, opVal, ptr, readVal>>

\* clearCacheOnly(): erase every node of the storage
ClearCache(t) ==
    /\ Idle(t) /\ "clear" \in Operations
    /\ cache' = <<>>
    /\ ptr' = DanglePointers(CachedNames)
    /\ pc' = [pc EXCEPT ![t] = "clr_store"]
    /\ UNCHANGED <<db, writer, opName, opVal, readVal>>

ClearStore(t) ==
    /\ pc[t] = "clr_store" /\ writer = NoThread
    /\ db' = [n \in Names |-> None]
    /\ pc' = [pc EXCEPT ![t] = "idle"]
    /\ UNCHANGED <<writer, cache, opName, opVal, ptr, readVal>>

-----------------------------------------------------------------------------

Init ==
    /\ db \in [Names -> Vals \cup {None}]
    /\ writer = NoThread
    /\ cache = <<>>
    /\ pc = [t \in Threads |-> "idle"]
    /\ opName \in [Threads -> Names]
    /\ opVal \in [Threads -> Vals]
    /\ ptr = [t \in Threads |-> "none"]
    /\ readVal = [t \in Threads |-> None]

\* the steps of an operation that has already started
Continue(t) ==
    \/ StorePut(t) \/ StoreUpdateCache(t) \/ StoreCommit(t) \/ StoreCommitFail(t)
    \/ RetrieveRead(t) \/ RetrieveInsert(t)
    \/ InvalidateStore(t) \/ ClearStore(t)

Begin(t) ==
    StoreLookup(t) \/ RetrieveLookup(t) \/ InvalidateCache(t) \/ ClearCache(t)

Next == \E t \in Threads : Begin(t) \/ Continue(t)

\* the OS schedules every runnable thread eventually
Fairness == \A t \in Threads : WF_vars(Continue(t))

Spec == Init /\ [][Next]_vars /\ Fairness

-----------------------------------------------------------------------------
(* Properties                                                              *)

\* Every cached entry is the committed one, or the one the current writer
\* has put into the cache and is about to commit (store() updates the cache
\* before txn.commit()).  A stale node would be served by retrieve() from
\* then on without ever touching LMDB.
CacheCoherent ==
    \A i \in 1..Len(cache) :
        \/ cache[i].val = db[cache[i].name]
        \/ /\ writer # NoThread /\ pc[writer] = "store_commit"
           /\ opName[writer] = cache[i].name /\ opVal[writer] = cache[i].val

\* store() keeps the StorageEntry* it found under the first lock and writes
\* through it after re-locking; the node must still exist at that point.
NoDanglingEntryPointer ==
    \A t \in Threads : pc[t] = "store_cache" => ptr[t] # "dangling"

=============================================================================

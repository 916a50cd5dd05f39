------------------------------ MODULE CategoryRepo ------------------------------
(***************************************************************************)
(* The category repository: the per-store category cache, the per-store    *)
(* tree cache, the attribute metadata loaded once, and the operations that *)
(* request goroutines run on them at the same time.                        *)
(*                                                                         *)
(* The category tables are abstracted to a version, bumped by every write, *)
(* and the set of ids they hold.  What a SELECT with its preloads returns  *)
(* is a snapshot of both (the preloads are queries of their own, so ver is *)
(* the oldest version in it); a tree is a function of the snapshot it is   *)
(* built from and is represented by it.                                    *)
(***************************************************************************)
EXTENDS Naturals, Sequences

CONSTANTS Procs,        \* request goroutines
          Stores,       \* store ids
          Ids,          \* category entity ids
          Ops,          \* the operations goroutines call
          MaxVersion,   \* bound on the writes to the category tables
          MaxIds,       \* longest list of ids of a request
          NoProc,       \* nobody holds the lock
          Nil           \* Go's nil, and a missing map entry

(* The categories of a store as one load saw them; attrs: flattened with    *)
(* the attribute metadata.                                                 *)
Snapshot == [ver : Nat, rows : SUBSET Ids, attrs : BOOLEAN]
Entries == [Stores -> Snapshot \cup {Nil}]

AllOps == {"map", "tree", "ids", "id", "inv", "minv"}

ASSUME ConstantsAssumption ==
    /\ NoProc \notin Procs
    /\ Stores # {}
    /\ Nil \notin Snapshot
    /\ Nil \notin Entries
    /\ Ops \subseteq AllOps
    /\ MaxVersion \in Nat
    /\ MaxIds \in Nat

VARIABLES
    db,         \* the category tables: their version and the ids in them
    cache,      \* r.cache: Nil until the first load, then store -> snapshot
    treeCache,  \* treeCache: store -> the snapshot its tree was built from
    cacheLock,  \* the goroutine inside InvalidateCache, which holds cacheLock
    once,       \* categoryAttrMetaOnce: "fresh", "running" or "done"
    metaLoaded, \* categoryAttrMetaCache # nil
    pc, op, sid, snap, todo, hits, missing, \* a goroutine's call and locals
    ret,        \* what its last call returned
    metaLost,   \* ghost: a load of the metadata failed, or it was invalidated
    floor,      \* ghost: oldest data that may survive the last invalidation
    invVer,     \* ghost: version of the tables when it returned
    callInv,    \* ghost: invVer when the goroutine's call started
    stable      \* ghost: requested ids in the tables since the call started

repo == <<cache, treeCache, cacheLock, once, metaLoaded>>
local == <<op, sid, snap, todo, hits, missing>>
ghost == <<floor, invVer, callInv, stable>>
vars == <<db, repo, pc, local, ret, metaLost, ghost>>

NoSnap == [ver |-> 0, rows |-> {}, attrs |-> FALSE]
EmptyMap == [s \in Stores |-> Nil]
Answer(st, sn, ids) == [st |-> st, snap |-> sn, ids |-> ids]
NoAnswer == Answer("none", NoSnap, {})

(* Where a call holds data it read from the tables or from the cache.      *)
FillPoints == {"meta", "metaload", "metaread", "metaerr", "store", "treestore"}

(* Goroutines that hold data they read for a fill of one of the caches.    *)
Filling == {p \in Procs : /\ op[p] \in {"map", "tree"}
                          /\ pc[p] \in FillPoints}

Init ==
    /\ \E R \in SUBSET Ids : db = [ver |-> 0, rows |-> R]
    /\ cache = Nil
    /\ treeCache = EmptyMap
    /\ cacheLock = NoProc
    /\ once = "fresh"
    /\ metaLoaded = FALSE
    /\ pc = [p \in Procs |-> "idle"]
    /\ op = [p \in Procs |-> "map"]
    /\ sid = [p \in Procs |-> CHOOSE s \in Stores : TRUE]
    /\ snap = [p \in Procs |-> NoSnap]
    /\ todo = [p \in Procs |-> <<>>]
    /\ hits = [p \in Procs |-> {}]
    /\ missing = [p \in Procs |-> {}]
    /\ ret = [p \in Procs |-> NoAnswer]
    /\ metaLost = FALSE
    /\ floor = 0
    /\ invVer = 0
    /\ callInv = [p \in Procs |-> 0]
    /\ stable = [p \in Procs |-> {}]

-----------------------------------------------------------------------------
(* Leaving a call: the goroutine is idle again, its locals are dead.       *)
Return(p, a) ==
    /\ pc' = [pc EXCEPT ![p] = "idle"]
    /\ ret' = [ret EXCEPT ![p] = a]
    /\ op' = [op EXCEPT ![p] = "map"]
    /\ snap' = [snap EXCEPT ![p] = NoSnap]
    /\ hits' = [hits EXCEPT ![p] = {}]
    /\ missing' = [missing EXCEPT ![p] = {}]
    /\ UNCHANGED <<sid, todo>>

Goto(p, l) == pc' = [pc EXCEPT ![p] = l] /\ UNCHANGED ret

(* Entering a call of one of the repository's operations.                  *)
Enter(p, o, s, l, ids) ==
    /\ pc[p] = "idle" /\ o \in Ops
    /\ pc' = [pc EXCEPT ![p] = l]
    /\ op' = [op EXCEPT ![p] = o]
    /\ sid' = [sid EXCEPT ![p] = s]
    /\ todo' = [todo EXCEPT ![p] = ids]
    /\ ret' = [ret EXCEPT ![p] = NoAnswer]
    /\ callInv' = [callInv EXCEPT ![p] = invVer]
    /\ stable' = [stable EXCEPT ![p] = {i \in db.rows : \E k \in 1..Len(ids) : ids[k] = i}]
    /\ UNCHANGED <<db, repo, snap, hits, missing, metaLost, floor, invVer>>

(* FetchAllWithAttributesMap, and FetchAllWithAttributes over it.          *)
CallFetchAll(p, s) == Enter(p, "map", s, "nilcheck", <<>>)
CallBuildCategoryTree(p, s) == Enter(p, "tree", s, "tree", <<>>)
CallGetByIDs(p, s, ids) == Enter(p, "ids", s, "ids", ids)
CallGetByID(p, s, id) == Enter(p, "id", s, "ids", <<id>>)
CallInvalidateCache(p) == Enter(p, "inv", sid[p], "inv", <<>>)
CallInvalidateMeta(p) == Enter(p, "minv", sid[p], "minv", <<>>)

(* BuildCategoryTree's lookup under the read lock of treeCacheLock.        *)
TreeLookup(p) ==
    /\ pc[p] = "tree"
    /\ \/ /\ treeCache[sid[p]] # Nil
          /\ Return(p, Answer("ok", treeCache[sid[p]], {}))
       \/ /\ treeCache[sid[p]] = Nil
          /\ Goto(p, "nilcheck") /\ UNCHANGED local
    /\ UNCHANGED <<db, repo, metaLost, ghost>>

(* if r.cache == nil: read without the lock ...                            *)
NilCheck(p) ==
    /\ pc[p] = "nilcheck"
    /\ Goto(p, IF cache = Nil THEN "make" ELSE "lookup")
    /\ UNCHANGED <<db, repo, local, metaLost, ghost>>

(* ... and written without it: entries stored in between are dropped.      *)
MakeCache(p) ==
    /\ pc[p] = "make"
    /\ cache' = EmptyMap
    /\ Goto(p, "lookup")
    /\ UNCHANGED <<db, treeCache, cacheLock, once, metaLoaded, local,
                   metaLost, ghost>>

(* What FetchAllWithAttributesMap's caller does with the categories.       *)
GotCategories(p, sn) ==
    \/ /\ op[p] = "map"
       /\ Return(p, Answer("ok", sn, {}))
    \/ /\ op[p] = "tree"
       /\ Goto(p, "treestore")
       /\ snap' = [snap EXCEPT ![p] = sn]
       /\ UNCHANGED <<op, sid, todo, hits, missing>>

(* Mutant: the entry is used without asking whether there is one.          *)
CacheLookupUnchecked(p) ==
    /\ pc[p] = "lookup"
    /\ cacheLock = NoProc
    /\ GotCategories(p, cache[sid[p]])
    /\ UNCHANGED <<db, repo, metaLost, ghost>>

(* GetCacheCategory(storeID, 0) under the read lock of cacheLock.          *)
CacheLookup(p) ==
    /\ pc[p] = "lookup"
    /\ cacheLock = NoProc
    /\ \/ /\ cache[sid[p]] # Nil
          /\ GotCategories(p, cache[sid[p]])
       \/ /\ cache[sid[p]] = Nil
          /\ Goto(p, "load") /\ UNCHANGED local
    /\ UNCHANGED <<db, repo, metaLost, ghost>>

(* The SELECT of the categories with their preloads; it may fail.  GetByIDs *)
(* selects its missing ids only, what it uses of the answer.               *)
LoadCategories(p) ==
    /\ pc[p] = "load"
    /\ \/ /\ snap' = [snap EXCEPT ![p] = [ver |-> db.ver, rows |-> db.rows,
                                          attrs |-> FALSE]]
          /\ Goto(p, "meta")
          /\ UNCHANGED <<op, sid, todo, hits, missing>>
       \/ Return(p, Answer("err", NoSnap, {}))
    /\ UNCHANGED <<db, repo, metaLost, ghost>>

(* Mutant: the fetched ids replace the cached ones.                        *)
FoundIdsFetchedOnly(p) == missing[p] \cap snap[p].rows

(* The ids GetByIDs found: the cached ones and the fetched ones.           *)
FoundIds(p) == hits[p] \cup (missing[p] \cap snap[p].rows)

(* The single-id variant takes element 0 of the answer whatever its length. *)
IdsAnswer(p, found) ==
    IF op[p] = "id" /\ found = {}
    THEN Answer("panic", NoSnap, {})
    ELSE Answer("ids", NoSnap, found)

(* The metadata is at hand: a = the attributes could be flattened.         *)
GotMeta(p, a) ==
    \/ /\ op[p] \in {"map", "tree"}
       /\ snap' = [snap EXCEPT ![p].attrs = a]
       /\ Goto(p, "store")
       /\ UNCHANGED <<op, sid, todo, hits, missing>>
    \/ /\ op[p] \in {"ids", "id"}
       /\ Return(p, IdsAnswer(p, FoundIds(p)))

(* Mutant: a started flag in place of the Once, which nobody waits for.    *)
MetaOnceDoNoWait(p) ==
    /\ pc[p] = "meta"
    /\ once' = IF once = "fresh" THEN "running" ELSE once
    /\ Goto(p, IF once = "fresh" THEN "metaload" ELSE "metaread")
    /\ UNCHANGED <<db, cache, treeCache, cacheLock, metaLoaded, local,
                   metaLost, ghost>>

(* LoadCategoryAttributeMeta: Once.Do runs the load, or waits for it.      *)
MetaOnceDo(p) ==
    /\ pc[p] = "meta"
    /\ \/ /\ once = "fresh"
          /\ once' = "running"
          /\ Goto(p, "metaload")
       \/ /\ once = "done"
          /\ Goto(p, "metaread")
          /\ UNCHANGED once
    /\ UNCHANGED <<db, cache, treeCache, cacheLock, metaLoaded, local,
                   metaLost, ghost>>

(* The function of the Once.  Its failure is seen by this call alone.      *)
MetaLoad(p) ==
    /\ pc[p] = "metaload"
    /\ once' = "done"
    /\ \/ /\ metaLoaded' = TRUE
          /\ Goto(p, "metaread")
          /\ UNCHANGED metaLost
       \/ /\ metaLost' = TRUE
          /\ Goto(p, "metaerr")
          /\ UNCHANGED metaLoaded
    /\ UNCHANGED <<db, cache, treeCache, cacheLock, local, ghost>>

(* Without metadata the call that failed to load it returns its error, any *)
(* other call goes on with a nil map, from which nothing is flattened.     *)
MetaRead(p) ==
    /\ \/ /\ pc[p] \in {"metaread", "metaerr"} /\ metaLoaded
          /\ GotMeta(p, TRUE)
       \/ /\ pc[p] = "metaread" /\ ~metaLoaded
          /\ GotMeta(p, FALSE)
       \/ /\ pc[p] = "metaerr" /\ ~metaLoaded
          /\ Return(p, Answer("err", NoSnap, {}))
    /\ UNCHANGED <<db, repo, metaLost, ghost>>

(* r.cache[storeID] = cache, under the write lock of cacheLock.            *)
StoreCategories(p) ==
    /\ pc[p] = "store"
    /\ cacheLock = NoProc
    /\ cache' = [cache EXCEPT ![sid[p]] = snap[p]]
    /\ GotCategories(p, snap[p])
    /\ UNCHANGED <<db, treeCache, cacheLock, once, metaLoaded, metaLost, ghost>>

(* BuildCategoryTree's last step, under the write lock of treeCacheLock.   *)
StoreTree(p) ==
    /\ pc[p] = "treestore"
    /\ treeCache' = [treeCache EXCEPT ![sid[p]] = snap[p]]
    /\ Return(p, Answer("ok", snap[p], {}))
    /\ UNCHANGED <<db, cache, cacheLock, once, metaLoaded, metaLost, ghost>>

(* GetCacheCategory(storeID, id) finds the category.                       *)
CachedId(p, id) ==
    /\ cache # Nil
    /\ cache[sid[p]] # Nil
    /\ id \in cache[sid[p]].rows

(* One round of GetByIDs' loop: the lock is taken and released for every id. *)
IdLookup(p) ==
    /\ pc[p] = "ids" /\ todo[p] # <<>>
    /\ cacheLock = NoProc
    /\ \/ /\ CachedId(p, Head(todo[p]))
          /\ hits' = [hits EXCEPT ![p] = @ \cup {Head(todo[p])}]
          /\ UNCHANGED missing
       \/ /\ ~CachedId(p, Head(todo[p]))
          /\ missing' = [missing EXCEPT ![p] = @ \cup {Head(todo[p])}]
          /\ UNCHANGED hits
    /\ todo' = [todo EXCEPT ![p] = Tail(@)]
    /\ UNCHANGED <<db, repo, pc, op, sid, snap, ret, metaLost, ghost>>

(* After the loop: everything was cached, or the rest comes from the tables. *)
IdsLooked(p) ==
    /\ pc[p] = "ids" /\ todo[p] = <<>>
    /\ \/ /\ missing[p] = {}
          /\ Return(p, IdsAnswer(p, hits[p]))
       \/ /\ missing[p] # {}
          /\ Goto(p, "load") /\ UNCHANGED local
    /\ UNCHANGED <<db, repo, metaLost, ghost>>

(* Mutant: the map is dropped, not replaced.                               *)
InvalidateLockToNil(p) ==
    /\ pc[p] = "inv"
    /\ cacheLock = NoProc
    /\ cacheLock' = p
    /\ cache' = Nil
    /\ Goto(p, "invtree")
    /\ UNCHANGED <<db, treeCache, once, metaLoaded, local, metaLost, ghost>>

(* InvalidateCache takes cacheLock, replaces the map ...                   *)
InvalidateLock(p) ==
    /\ pc[p] = "inv"
    /\ cacheLock = NoProc
    /\ cacheLock' = p
    /\ cache' = EmptyMap
    /\ Goto(p, "invtree")
    /\ UNCHANGED <<db, treeCache, once, metaLoaded, local, metaLost, ghost>>

(* Ghosts of a finished invalidation: what may survive it, and when it was. *)
Invalidated ==
    /\ \E v \in {db.ver} \cup {snap[q].ver : q \in Filling} :
          /\ \A q \in Filling : v <= snap[q].ver
          /\ v <= db.ver
          /\ floor' = v
    /\ invVer' = db.ver
    /\ UNCHANGED <<callInv, stable>>

(* Mutant: the tree cache is left alone.                                   *)
InvalidateTreeForgotten(p) ==
    /\ pc[p] = "invtree"
    /\ cacheLock' = NoProc
    /\ Return(p, Answer("done", NoSnap, {}))
    /\ Invalidated
    /\ UNCHANGED <<db, cache, treeCache, once, metaLoaded, metaLost>>

(* Mutant: cacheLock is not released.                                      *)
InvalidateTreeKeepsLock(p) ==
    /\ pc[p] = "invtree"
    /\ treeCache' = EmptyMap
    /\ Return(p, Answer("done", NoSnap, {}))
    /\ Invalidated
    /\ UNCHANGED <<db, cache, cacheLock, once, metaLoaded, metaLost>>

(* ... then, still holding it, replaces the tree cache; both are released. *)
InvalidateTree(p) ==
    /\ pc[p] = "invtree"
    /\ treeCache' = EmptyMap
    /\ cacheLock' = NoProc
    /\ Return(p, Answer("done", NoSnap, {}))
    /\ Invalidated
    /\ UNCHANGED <<db, cache, once, metaLoaded, metaLost>>

(* InvalidateCategoryAttributeMetaCache drops the metadata ...             *)
InvalidateMeta(p) ==
    /\ pc[p] = "minv"
    /\ metaLoaded' = FALSE
    /\ metaLost' = TRUE
    /\ Goto(p, "minvonce")
    /\ UNCHANGED <<db, cache, treeCache, cacheLock, once, local, ghost>>

(* ... then replaces the Once, without a lock.  Replacing it while its     *)
(* function runs ends the program (the function's goroutine unlocks a      *)
(* mutex it does not hold); the model follows the program up to there.     *)
InvalidateMetaOnce(p) ==
    /\ pc[p] = "minvonce"
    /\ once # "running"
    /\ once' = "fresh"
    /\ Return(p, Answer("done", NoSnap, {}))
    /\ UNCHANGED <<db, cache, treeCache, cacheLock, metaLoaded, metaLost, ghost>>

(* A write to the category tables: the Magento back office, an import.     *)
WriteTables ==
    /\ db.ver < MaxVersion
    /\ \E R \in SUBSET Ids :
          /\ db' = [ver |-> db.ver + 1, rows |-> R]
          /\ stable' = [p \in Procs |-> stable[p] \cap R]
    /\ UNCHANGED <<repo, pc, local, ret, metaLost, floor, invVer, callInv>>

CallRead(p) ==
    \E s \in Stores :
        \/ CallFetchAll(p, s)
        \/ CallBuildCategoryTree(p, s)
        \/ \E id \in Ids : CallGetByID(p, s, id)
        \/ \E n \in 0..MaxIds : \E ids \in [1..n -> Ids] : CallGetByIDs(p, s, ids)

Call(p) == CallRead(p) \/ CallInvalidateCache(p) \/ CallInvalidateMeta(p)

Step(p) ==
    \/ TreeLookup(p) \/ NilCheck(p) \/ MakeCache(p) \/ CacheLookup(p)
    \/ LoadCategories(p) \/ MetaOnceDo(p) \/ MetaLoad(p) \/ MetaRead(p)
    \/ StoreCategories(p) \/ StoreTree(p) \/ IdLookup(p) \/ IdsLooked(p)
    \/ InvalidateLock(p) \/ InvalidateTree(p)
    \/ InvalidateMeta(p) \/ InvalidateMetaOnce(p)

Next == (\E p \in Procs : Call(p) \/ Step(p)) \/ WriteTables

Spec == Init /\ [][Next]_vars

(* A goroutine keeps running, and Go's RWMutex lets a waiter in eventually *)
(* even when others keep taking the lock: hence the strong fairness.       *)
Fairness == \A p \in Procs : SF_vars(Step(p))
FairSpec == Spec /\ Fairness

-----------------------------------------------------------------------------
Points == {"idle", "tree", "nilcheck", "make", "lookup", "load", "ids", "inv",
           "invtree", "minv", "minvonce"} \cup FillPoints

Answers == [st : {"none", "ok", "ids", "done", "err", "panic"},
            snap : Snapshot, ids : SUBSET Ids]

RepoTypeOK ==
    /\ db \in [ver : 0..MaxVersion, rows : SUBSET Ids]
    /\ cache \in Entries \cup {Nil}
    /\ treeCache \in Entries
    /\ cacheLock \in Procs \cup {NoProc}
    /\ once \in {"fresh", "running", "done"}
    /\ metaLoaded \in BOOLEAN

LocalTypeOK ==
    /\ pc \in [Procs -> Points]
    /\ op \in [Procs -> AllOps]
    /\ sid \in [Procs -> Stores]
    /\ snap \in [Procs -> Snapshot]
    /\ todo \in [Procs -> Seq(Ids)]
    /\ hits \in [Procs -> SUBSET Ids]
    /\ missing \in [Procs -> SUBSET Ids]
    /\ ret \in [Procs -> Answers]

GhostTypeOK ==
    /\ metaLost \in BOOLEAN
    /\ floor \in Nat /\ invVer \in Nat
    /\ callInv \in [Procs -> Nat]
    /\ stable \in [Procs -> SUBSET Ids]

(* Types of the repository's state and of every call's locals: an answer   *)
(* is never made of a missing cache entry.                                 *)
TypeOK == RepoTypeOK /\ LocalTypeOK /\ GhostTypeOK

(* r.cache is created without the lock and written with it: whatever the   *)
(* interleaving of first calls and invalidations, the assignment           *)
(* r.cache[storeID] = cache never meets a nil map, where Go panics.        *)
NoNilMapWrite ==
    \A p \in Procs : pc[p] \in {"lookup", "store"} => cache # Nil

(* How stale the caches can be once InvalidateCache has returned: no entry, *)
(* and no data a call is about to store, is older than the oldest load that *)
(* was under way when the last invalidation finished.                      *)
StalenessBounded ==
    /\ cache # Nil => \A s \in Stores : cache[s] # Nil => cache[s].ver >= floor
    /\ \A s \in Stores : treeCache[s] # Nil => treeCache[s].ver >= floor
    /\ \A p \in Filling : snap[p].ver >= floor

(* While the metadata has neither failed to load nor been invalidated, no  *)
(* store's categories or tree are cached without their attributes.         *)
CachedWithAttributes ==
    ~metaLost =>
       /\ cache # Nil => \A s \in Stores : cache[s] # Nil => cache[s].attrs
       /\ \A s \in Stores : treeCache[s] # Nil => treeCache[s].attrs

(* GetByIDsWithAttributesAndFlat looks ids up one lock at a time and asks  *)
(* the tables for the rest: a category that is in the tables during the    *)
(* whole call is in its answer, however cache and tables change meanwhile. *)
ByIDsComplete ==
    \A p \in Procs : ret[p].st = "ids" => stable[p] \subseteq ret[p].ids

(* Every call of the repository returns: nobody waits for cacheLock or for *)
(* the Once for ever.                                                      *)
CallsReturn == \A p \in Procs : pc[p] # "idle" ~> pc[p] = "idle"

(* What InvalidateCache's comment promises: a call that starts after it    *)
(* returned answers with data read after it.                               *)
FreshAfterInvalidate ==
    \A p \in Procs : ret[p].st = "ok" => ret[p].snap.ver >= callInv[p]

(* What LoadCategoryAttributeMeta's comment promises, that it returns the   *)
(* map of the attributes: a call to which it has given no error goes on     *)
(* with the map, however many calls wait for the one load and how it ended. *)
MetaReturned == \A p \in Procs : pc[p] = "store" => snap[p].attrs

(* The handlers treat an unknown id as an error to skip, never as a panic. *)
UnknownIdIsNoPanic == \A p \in Procs : ret[p].st # "panic"
=============================================================================

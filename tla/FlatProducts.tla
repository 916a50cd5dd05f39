------------------------------ MODULE FlatProducts ------------------------------
(***************************************************************************)
(* The product repository's flat products: the per-store cache of flattened *)
(* catalogues, the loads that fill it batch by batch, the lookups by id,   *)
(* and the handlers and resolvers that use, and write to, the product maps *)
(* they get, while the REST API changes the product tables.                *)
(*                                                                         *)
(* A product is its id; a SKU stands for the id it has.  A catalogue is a  *)
(* Go map the goroutines share by reference, so it has an identity, a      *)
(* member of Refs; only which products it holds is kept of its contents.   *)
(***************************************************************************)
EXTENDS Naturals, FiniteSets

CONSTANTS Procs,      \* request goroutines
          Stores,     \* store ids
          Ids,        \* product entity ids
          Refs,       \* identities of catalogues
          BatchSize,  \* ids per query
          Ops,        \* the operations goroutines run
          CacheOff,   \* PRODUCT_FLAT_CACHE=off
          Nil         \* a missing map entry

AllOps == {"flat", "limit", "ids", "page", "category", "products", "product", "skus",
           "magento", "create", "update", "delete"}
ByIDsOps == {"ids", "page", "category"}

ASSUME ConstantsAssumption ==
    /\ Nil \notin Refs
    /\ Stores # {} /\ Refs # {}
    /\ IsFiniteSet(Ids)
    /\ BatchSize \in Nat \ {0}
    /\ Ops \subseteq AllOps
    /\ CacheOff \in BOOLEAN

VARIABLES
    db,      \* ids in catalog_product_entity
    cache,   \* flatProductsCache: store -> catalogue
    rows,    \* catalogue -> ids of the products in it
    codes,   \* the attribute code map: "fresh", "loaded" or "failed"
    pc, op, sid, stage, asked, load, ref, todo, \* a goroutine's call and locals
    found,   \* ids of the products it is about to answer with
    left, busy, \* those of them it has yet to go through; the one it is in
    must,    \* ghost: ids in the tables ever since a catalogue's load began
    want,    \* ghost: the ids its call asked for
    stable   \* ghost: those of them in the tables ever since the call began

locals == <<op, sid, stage, asked, load, ref, todo, found, left, busy,
            want, stable>>
vars == <<db, cache, rows, codes, must, pc, locals>>

(* Who writes into the product maps of its answer: filterPriceForGuest and *)
(* flatToProduct, the product page.  The REST handlers only encode them.   *)
Writes(o) == o \in {"page", "category", "products", "product", "skus", "magento"}

Init ==
    /\ db \in SUBSET Ids
    /\ cache = [s \in Stores |-> Nil]
    /\ rows = [r \in Refs |-> {}]
    /\ codes = "fresh"
    /\ pc = [p \in Procs |-> "idle"]
    /\ op = [p \in Procs |-> "flat"]
    /\ sid = [p \in Procs |-> CHOOSE s \in Stores : TRUE]
    /\ stage = [p \in Procs |-> 1]
    /\ asked = [p \in Procs |-> {}]
    /\ load = [p \in Procs |-> "all"]
    /\ ref = [p \in Procs |-> Nil]
    /\ todo = [p \in Procs |-> {}]
    /\ found = [p \in Procs |-> {}]
    /\ left = [p \in Procs |-> {}]
    /\ busy = [p \in Procs |-> {}]
    /\ must = [r \in Refs |-> {}]
    /\ want = [p \in Procs |-> {}]
    /\ stable = [p \in Procs |-> {}]

-----------------------------------------------------------------------------
Goto(p, l) == pc' = [pc EXCEPT ![p] = l]

(* A call of operation o for store s begins at l, asking for ids A.        *)
Enter(p, o, s, l, A) ==
    /\ pc[p] = "idle" /\ o \in Ops
    /\ Goto(p, l)
    /\ op' = [op EXCEPT ![p] = o]
    /\ sid' = [sid EXCEPT ![p] = s]
    /\ stage' = [stage EXCEPT ![p] = 1]
    /\ asked' = [asked EXCEPT ![p] = A]
    /\ load' = [load EXCEPT ![p] = IF o = "limit" THEN "limit" ELSE "all"]
    /\ want' = [want EXCEPT ![p] = A]
    /\ stable' = [stable EXCEPT ![p] = A \cap db]
    /\ UNCHANGED <<db, cache, rows, codes, ref, todo, found, left, busy, must>>

(* FetchWithAllAttributesFlat: REST's /flat and /full, the products query  *)
(* without a filter, and the two-stage queries, which begin with it.       *)
CallFlat(p, s) == \E o \in {"flat", "limit", "products", "magento"} : Enter(p, o, s, "lookup", {})
CallSkus(p, s) == \E A \in SUBSET Ids \ {{}} : Enter(p, "skus", s, "lookup", A)
CallProduct(p, s) == \E i \in Ids : Enter(p, "product", s, "lookup", {i})
(* FetchWithAllAttributesFlatByIDs: REST's /flat/:ids; the product page and *)
(* search; a category's products.                                          *)
CallByIDs(p, s) == \E o \in ByIDsOps, A \in SUBSET Ids : Enter(p, o, s, "byids", A)

(* A call ends, with an answer or an error; its goroutine is gone.         *)
Return(p) ==
    /\ Goto(p, "idle")
    /\ op' = [op EXCEPT ![p] = "flat"]
    /\ stage' = [stage EXCEPT ![p] = 1]
    /\ asked' = [asked EXCEPT ![p] = {}]
    /\ load' = [load EXCEPT ![p] = "all"]
    /\ ref' = [ref EXCEPT ![p] = Nil]
    /\ todo' = [todo EXCEPT ![p] = {}]
    /\ found' = [found EXCEPT ![p] = {}]
    /\ left' = [left EXCEPT ![p] = {}]
    /\ busy' = [busy EXCEPT ![p] = {}]
    /\ want' = [want EXCEPT ![p] = {}]
    /\ stable' = [stable EXCEPT ![p] = {}]
    /\ UNCHANGED sid

(* The ids of a fetched result that the operation answers with: the handler *)
(* picks the ids it asked for, Products takes whatever it fetched.         *)
Picked(p, S) == IF op[p] \in ByIDsOps \cup {"product", "magento"} THEN S \cap asked[p] ELSE S

(* The queries that choose ids from all products, by SKU or all of them,   *)
(* fetch those, A, again.                                                  *)
FetchAgain(p, A) ==
    /\ stage' = [stage EXCEPT ![p] = 2]
    /\ asked' = [asked EXCEPT ![p] = A]
    /\ ref' = [ref EXCEPT ![p] = Nil]
    /\ todo' = [todo EXCEPT ![p] = {}]
    /\ load' = [load EXCEPT ![p] = "all"]
    /\ Goto(p, "byids")
    /\ UNCHANGED <<op, sid, found, left, busy, want, stable>>

(* The products query drops its filter when the first fetch fails.         *)
Failed(p) ==
    \/ op[p] = "skus" /\ stage[p] = 1 /\ FetchAgain(p, {})
    \/ ~(op[p] = "skus" /\ stage[p] = 1) /\ Return(p)

(* A fetch has returned the products S of catalogue r.                     *)
Got(p, r, S) ==
    \/ /\ op[p] \in {"skus", "magento"} /\ stage[p] = 1
       /\ FetchAgain(p, IF op[p] = "skus" THEN asked[p] \cap S ELSE S)
    \/ /\ ~(op[p] \in {"skus", "magento"} /\ stage[p] = 1)
       /\ ref' = [ref EXCEPT ![p] = r]
       /\ found' = [found EXCEPT ![p] = Picked(p, S)]
       /\ left' = [left EXCEPT ![p] = Picked(p, S)]
       /\ Goto(p, "use")
       /\ UNCHANGED <<op, sid, stage, asked, load, todo, busy, want, stable>>

(* Identities no goroutine and no entry of the cache refers to.            *)
Free == {r \in Refs : /\ \A p \in Procs : ref[p] # r
                      /\ \A s \in Stores : cache[s] # r}

(* Mutant: the result is declared but no map is made for it.               *)
StartLoadNoMap(p, kind, S) ==
    /\ load' = [load EXCEPT ![p] = kind]
    /\ todo' = [todo EXCEPT ![p] = S]
    /\ Goto(p, "batch")
    /\ UNCHANGED <<db, cache, rows, codes, must, op, sid, stage, asked, ref, found, left, busy,
                   want, stable>>

(* Mutant: a load of everything fills the cache's own map.                 *)
StartLoadShared(p, kind, S) ==
    /\ \E r \in Free :
          /\ ref' = [ref EXCEPT ![p] = r]
          /\ rows' = [rows EXCEPT ![r] = {}]
          /\ must' = [must EXCEPT ![r] = db]
          /\ cache' = IF kind = "all" THEN [cache EXCEPT ![sid[p]] = r] ELSE cache
    /\ load' = [load EXCEPT ![p] = kind]
    /\ todo' = [todo EXCEPT ![p] = S]
    /\ Goto(p, "batch")
    /\ UNCHANGED <<db, codes, op, sid, stage, asked, found, left, busy, want, stable>>

(* A load begins in a new catalogue, with the ids to fetch.                *)
StartLoad(p, kind, S) ==
    /\ \E r \in Free :
          /\ ref' = [ref EXCEPT ![p] = r]
          /\ rows' = [rows EXCEPT ![r] = {}]
          /\ must' = [must EXCEPT ![r] = db]
    /\ load' = [load EXCEPT ![p] = kind]
    /\ todo' = [todo EXCEPT ![p] = S]
    /\ Goto(p, "batch")
    /\ UNCHANGED <<db, cache, codes, op, sid, stage, asked, found, left, busy, want, stable>>

(* Mutant: every call loads, the cache is written but never read.          *)
LookupNever(p) ==
    /\ pc[p] = "lookup"
    /\ Goto(p, "pluck") /\ UNCHANGED locals
    /\ UNCHANGED <<db, cache, rows, codes, must>>

(* FetchWithAllAttributesFlatWithLimit reads the cache under its read lock, *)
(* unless there is a limit or the cache is off.                            *)
Lookup(p) ==
    /\ pc[p] = "lookup"
    /\ LET hit == load[p] = "all" /\ ~CacheOff /\ cache[sid[p]] # Nil
       IN \/ hit /\ Got(p, cache[sid[p]], rows[cache[sid[p]]])
          \/ ~hit /\ Goto(p, "pluck") /\ UNCHANGED locals
    /\ UNCHANGED <<db, cache, rows, codes, must>>

(* fetchAllFlatProductsInBatches: the ids first, all of them or the first  *)
(* few; the query may fail.                                                *)
Pluck(p) ==
    /\ pc[p] = "pluck"
    /\ \/ load[p] = "all" /\ StartLoad(p, "all", db)
       \/ load[p] = "limit" /\ \E L \in SUBSET db : (L = {} => db = {}) /\ StartLoad(p, "limit", L)
       \/ /\ Failed(p)
          /\ UNCHANGED <<db, cache, rows, codes, must>>

(* Flattening a batch takes the attributes' codes from a map whose load is  *)
(* tried once; an error of the load is dropped, and leaves ids as keys.    *)
Flatten == codes' \in IF codes = "fresh" THEN {"loaded", "failed"} ELSE {codes}

(* Mutant: a batch becomes the result instead of joining it.               *)
FetchBatchOverwrites(p) ==
    /\ pc[p] = "batch" /\ todo[p] # {}
    /\ \/ \E B \in SUBSET todo[p] :
             /\ B # {}
             /\ Cardinality(B) = BatchSize \/ (B = todo[p] /\ Cardinality(B) < BatchSize)
             /\ rows' = [rows EXCEPT ![ref[p]] = B \cap db]
             /\ todo' = [todo EXCEPT ![p] = @ \ B]
             /\ Flatten
             /\ UNCHANGED <<pc, op, sid, stage, asked, load, ref, found, left, busy, want,
                            stable>>
       \/ /\ Failed(p)
          /\ UNCHANGED <<rows, codes>>
    /\ UNCHANGED <<db, cache, must>>

(* fetchFlatProductsBatch: a batch of the ids left joins the result.       *)
FetchBatch(p) ==
    /\ pc[p] = "batch" /\ todo[p] # {}
    /\ \/ \E B \in SUBSET todo[p] :
             /\ B # {}
             /\ Cardinality(B) = BatchSize \/ (B = todo[p] /\ Cardinality(B) < BatchSize)
             /\ rows' = [rows EXCEPT ![ref[p]] = @ \cup (B \cap db)]
             /\ todo' = [todo EXCEPT ![p] = @ \ B]
             /\ Flatten
             /\ UNCHANGED <<pc, op, sid, stage, asked, load, ref, found, left, busy, want,
                            stable>>
       \/ /\ Failed(p)
          /\ UNCHANGED <<rows, codes>>
    /\ UNCHANGED <<db, cache, must>>

(* Mutant: a fetch by ids stores what it fetched, as the code once did.    *)
LoadDoneAlwaysFills(p) ==
    /\ pc[p] = "batch" /\ todo[p] = {}
    /\ \/ ~CacheOff /\ Goto(p, "fill") /\ UNCHANGED locals
       \/ CacheOff /\ Got(p, ref[p], rows[ref[p]])
    /\ UNCHANGED <<db, cache, rows, codes, must>>

(* All batches are in: a load of everything goes on to fill the cache.     *)
LoadDone(p) ==
    /\ pc[p] = "batch" /\ todo[p] = {}
    /\ \/ load[p] = "all" /\ ~CacheOff /\ Goto(p, "fill") /\ UNCHANGED locals
       \/ (load[p] # "all" \/ CacheOff) /\ Got(p, ref[p], rows[ref[p]])
    /\ UNCHANGED <<db, cache, rows, codes, must>>

(* flatProductsCache[sid] = flatProducts, under the write lock, whatever   *)
(* is there by now.                                                        *)
Fill(p) ==
    /\ pc[p] = "fill"
    /\ cache' = [cache EXCEPT ![sid[p]] = ref[p]]
    /\ Got(p, ref[p], rows[ref[p]])
    /\ UNCHANGED <<db, rows, codes, must>>

(* Mutant: a cached catalogue answers whatever it holds.                   *)
ByIDsCachedOnly(p) ==
    /\ pc[p] = "byids"
    /\ LET cached == ~CacheOff /\ cache[sid[p]] # Nil
       IN \/ /\ asked[p] = {}
             /\ Goto(p, "lookup") /\ UNCHANGED locals
             /\ UNCHANGED <<db, cache, rows, codes, must>>
          \/ /\ asked[p] # {} /\ cached
             /\ Got(p, cache[sid[p]], asked[p] \cap rows[cache[sid[p]]])
             /\ UNCHANGED <<db, cache, rows, codes, must>>
          \/ asked[p] # {} /\ ~cached /\ StartLoad(p, "ids", asked[p])

(* FetchWithAllAttributesFlatByIDs: without ids, everything; with all of   *)
(* them in the cache, those; else the missing ones, which become the       *)
(* result.                                                                 *)
ByIDs(p) ==
    /\ pc[p] = "byids"
    /\ LET cached == IF CacheOff \/ cache[sid[p]] = Nil THEN {} ELSE rows[cache[sid[p]]]
           missing == asked[p] \ cached
       IN \/ /\ asked[p] = {}
             /\ Goto(p, "lookup") /\ UNCHANGED locals
             /\ UNCHANGED <<db, cache, rows, codes, must>>
          \/ /\ asked[p] # {} /\ missing = {}
             /\ Got(p, cache[sid[p]], asked[p])
             /\ UNCHANGED <<db, cache, rows, codes, must>>
          \/ /\ missing # {}
             /\ StartLoad(p, "ids", missing)

(* The handler goes through the product maps of its answer, one at a time. *)
Use(p, i) ==
    /\ pc[p] = "use" /\ i \in left[p]
    /\ busy' = [busy EXCEPT ![p] = {i}]
    /\ left' = [left EXCEPT ![p] = @ \ {i}]
    /\ UNCHANGED <<db, cache, rows, codes, pc, op, sid, stage, asked, load, ref, todo,
                   found, must, want, stable>>

Answer(p) ==
    /\ pc[p] = "use" /\ left[p] = {}
    /\ Return(p)
    /\ UNCHANGED <<db, cache, rows, codes, must>>

-----------------------------------------------------------------------------
(* The REST API's writes.  None of them touches the cache.                 *)
Create(i) ==
    /\ "create" \in Ops /\ i \notin db
    /\ db' = db \cup {i}
    /\ UNCHANGED <<cache, rows, codes, must, pc, locals>>

Delete(i) ==
    /\ "delete" \in Ops /\ i \in db
    /\ db' = db \ {i}
    /\ must' = [r \in Refs |-> must[r] \ {i}]
    /\ stable' = [p \in Procs |-> stable[p] \ {i}]
    /\ UNCHANGED <<cache, rows, codes, pc, op, sid, stage, asked, load, ref, todo, found,
                   left, busy, want>>

(* UpdateProduct: FindByID, then Save, which inserts a row that is gone.   *)
UpdateFind(p, i) ==
    /\ pc[p] = "idle" /\ "update" \in Ops /\ i \in db
    /\ Goto(p, "save")
    /\ op' = [op EXCEPT ![p] = "update"]
    /\ asked' = [asked EXCEPT ![p] = {i}]
    /\ UNCHANGED <<db, cache, rows, codes, must, sid, stage, load, ref, todo, found, left,
                   busy, want, stable>>

UpdateSave(p) ==
    /\ pc[p] = "save"
    /\ db' = db \cup asked[p] \/ UNCHANGED db
    /\ Return(p)
    /\ UNCHANGED <<cache, rows, codes, must>>

Step(p) ==
    \/ Lookup(p) \/ Pluck(p) \/ FetchBatch(p) \/ LoadDone(p) \/ Fill(p) \/ ByIDs(p)
    \/ (\E i \in Ids : Use(p, i)) \/ Answer(p) \/ UpdateSave(p)

Call(p) ==
    \/ \E s \in Stores : CallFlat(p, s) \/ CallSkus(p, s) \/ CallProduct(p, s) \/ CallByIDs(p, s)
    \/ \E i \in Ids : UpdateFind(p, i)

Write == \E i \in Ids : Create(i) \/ Delete(i)

Next == (\E p \in Procs : Call(p) \/ Step(p)) \/ Write

Spec == Init /\ [][Next]_vars

-----------------------------------------------------------------------------
Points == {"idle", "lookup", "pluck", "batch", "fill", "byids", "use", "save"}

(* Types; a load always has a catalogue of its own to load into.           *)
TypeOK ==
    /\ db \in SUBSET Ids
    /\ cache \in [Stores -> Refs \cup {Nil}]
    /\ rows \in [Refs -> SUBSET Ids]
    /\ codes \in {"fresh", "loaded", "failed"}
    /\ pc \in [Procs -> Points]
    /\ op \in [Procs -> AllOps]
    /\ sid \in [Procs -> Stores]
    /\ stage \in [Procs -> {1, 2}]
    /\ asked \in [Procs -> SUBSET Ids]
    /\ load \in [Procs -> {"all", "limit", "ids"}]
    /\ ref \in [Procs -> Refs \cup {Nil}]
    /\ todo \in [Procs -> SUBSET Ids]
    /\ found \in [Procs -> SUBSET Ids]
    /\ left \in [Procs -> SUBSET Ids]
    /\ busy \in [Procs -> SUBSET Ids]
    /\ must \in [Refs -> SUBSET Ids]
    /\ want \in [Procs -> SUBSET Ids]
    /\ stable \in [Procs -> SUBSET Ids]
    /\ \A p \in Procs : pc[p] \in {"batch", "fill"} => ref[p] # Nil

(* The cache only ever holds whole catalogues: a product that was in the   *)
(* tables from before the load of a cached catalogue until now is in it.   *)
(* Loads of some ids or with a limit, and torn batches, must not get there. *)
CatalogueComplete ==
    \A s \in Stores : cache[s] # Nil => must[cache[s]] \subseteq rows[cache[s]]

(* A catalogue being loaded is its goroutine's alone: neither the cache nor *)
(* another goroutine refers to a map that is still written to.             *)
LoadsArePrivate ==
    \A p \in Procs : pc[p] \in {"batch", "fill"} =>
        /\ \A s \in Stores : cache[s] # ref[p]
        /\ \A q \in Procs \ {p} : ref[q] # ref[p]

(* The cache settles: goroutines that found it empty at the same time may  *)
(* overwrite each other's catalogue, but each of them once.                *)
CacheSettles == <>[][cache' = cache]_vars

(* Asked for alone by its id, or however it is asked for with the cache    *)
(* off, a product is answered if it is in the tables during the whole call, *)
(* whatever batches, fills and writes run beside it.                       *)
LookupsFind ==
    \A p \in Procs :
        /\ pc[p] = "use"
        /\ CacheOff \/ (op[p] \in ByIDsOps /\ Cardinality(want[p]) = 1)
        => stable[p] \subseteq found[p]

(* The comment on FetchWithAllAttributesFlatByIDs' fetch, "Add to result and *)
(* update cache": every id asked for that is in the tables is answered.    *)
RequestedFound ==
    \A p \in Procs : pc[p] = "use" => stable[p] \subseteq found[p]

(* The products query's skus argument filters: it answers no other product. *)
SkuFilterRespected ==
    \A p \in Procs : pc[p] = "use" /\ want[p] # {} => found[p] \subseteq want[p]

(* No two goroutines are in one product's map while one of them writes it. *)
NoConcurrentMapAccess ==
    \A p, q \in Procs :
        p # q /\ ref[p] = ref[q] /\ busy[p] \cap busy[q] # {} => ~Writes(op[p]) /\ ~Writes(op[q])

(* Products are answered with their attributes as keys, by their codes.    *)
KeysAreCodes ==
    \A p \in Procs : pc[p] = "use" /\ found[p] # {} => codes # "failed"
=============================================================================

--------------------------- MODULE FlatProducts_proof ---------------------------
(***************************************************************************)
(* What holds of the flat product catalogues for any number of goroutines, *)
(* stores, products and catalogues, any batch size and any operations: the *)
(* types, that catalogues are loaded in private, and that the cache holds  *)
(* whole catalogues only.                                                  *)
(***************************************************************************)
EXTENDS FlatProducts, TLAPS

(* The rest of TypeOK after a step: what belongs to goroutines.            *)
LocalTypeOK ==
    /\ pc \in [Procs -> Points]
    /\ op \in [Procs -> AllOps]
    /\ sid \in [Procs -> Stores]
    /\ stage \in [Procs -> {1, 2}]
    /\ asked \in [Procs -> SUBSET Ids]
    /\ load \in [Procs -> {"all", "limit", "ids"}]
    /\ ref \in [Procs -> Refs \cup {Nil}]
    /\ todo \in [Procs -> SUBSET Ids]
    /\ found \in [Procs -> SUBSET Ids]
    /\ left \in [Procs -> SUBSET Ids]
    /\ busy \in [Procs -> SUBSET Ids]
    /\ want \in [Procs -> SUBSET Ids]
    /\ stable \in [Procs -> SUBSET Ids]

GlobalTypeOK ==
    /\ db \in SUBSET Ids
    /\ cache \in [Stores -> Refs \cup {Nil}]
    /\ rows \in [Refs -> SUBSET Ids]
    /\ codes \in {"fresh", "loaded", "failed"}
    /\ must \in [Refs -> SUBSET Ids]

Loading == \A p \in Procs : pc[p] \in {"batch", "fill"} => ref[p] # Nil

LEMMA TypeParts == TypeOK <=> GlobalTypeOK /\ LocalTypeOK /\ Loading
  BY DEF TypeOK, GlobalTypeOK, LocalTypeOK, Loading

-----------------------------------------------------------------------------
(* The ends of a step, as far as types and catalogues go.                  *)

(* A call that returns lets go of its catalogue.                           *)
LEMMA ReturnKeeps ==
  ASSUME LocalTypeOK, NEW p \in Procs, Return(p)
  PROVE  /\ LocalTypeOK'
         /\ pc' = [pc EXCEPT ![p] = "idle"] /\ ref' = [ref EXCEPT ![p] = Nil]
         /\ \A q \in Procs \ {p} : load'[q] = load[q] /\ todo'[q] = todo[q]
  BY DEF LocalTypeOK, Return, Goto, Points, AllOps

LEMMA FetchAgainKeeps ==
  ASSUME LocalTypeOK, NEW p \in Procs, NEW A \in SUBSET Ids, FetchAgain(p, A)
  PROVE  /\ LocalTypeOK'
         /\ pc' = [pc EXCEPT ![p] = "byids"] /\ ref' = [ref EXCEPT ![p] = Nil]
         /\ \A q \in Procs \ {p} : load'[q] = load[q] /\ todo'[q] = todo[q]
  BY DEF LocalTypeOK, FetchAgain, Goto, Points

LEMMA FailedKeeps ==
  ASSUME LocalTypeOK, NEW p \in Procs, Failed(p)
  PROVE  /\ LocalTypeOK'
         /\ \E l \in {"idle", "byids"} : pc' = [pc EXCEPT ![p] = l]
         /\ ref' = [ref EXCEPT ![p] = Nil]
         /\ \A q \in Procs \ {p} : load'[q] = load[q] /\ todo'[q] = todo[q]
<1>1. CASE FetchAgain(p, {})
  BY <1>1, FetchAgainKeeps
<1>2. CASE Return(p)
  BY <1>2, ReturnKeeps
<1> QED BY <1>1, <1>2 DEF Failed

LEMMA GotKeeps ==
  ASSUME LocalTypeOK, NEW p \in Procs, NEW r \in Refs, NEW S \in SUBSET Ids, Got(p, r, S)
  PROVE  /\ LocalTypeOK'
         /\ \E l \in {"use", "byids"} : pc' = [pc EXCEPT ![p] = l]
         /\ \E x \in {r, Nil} : ref' = [ref EXCEPT ![p] = x]
         /\ \A q \in Procs \ {p} : load'[q] = load[q] /\ todo'[q] = todo[q]
<1>1. CASE \E A \in SUBSET Ids : FetchAgain(p, A)
  BY <1>1, FetchAgainKeeps
<1>2. CASE /\ ref' = [ref EXCEPT ![p] = r]
           /\ found' = [found EXCEPT ![p] = Picked(p, S)]
           /\ left' = [left EXCEPT ![p] = Picked(p, S)]
           /\ Goto(p, "use")
           /\ UNCHANGED <<op, sid, stage, asked, load, todo, busy, want, stable>>
  <2>1. Picked(p, S) \in SUBSET Ids
    BY DEF Picked, LocalTypeOK
  <2> QED BY <1>2, <2>1 DEF LocalTypeOK, Goto, Points
<1>3. (IF op[p] = "skus" THEN asked[p] \cap S ELSE S) \in SUBSET Ids
  BY DEF LocalTypeOK
<1> QED BY <1>1, <1>2, <1>3 DEF Got

LEMMA StartLoadKeeps ==
  ASSUME TypeOK, NEW p \in Procs, NEW kind \in {"all", "limit", "ids"},
         NEW S \in SUBSET Ids, StartLoad(p, kind, S)
  PROVE  /\ GlobalTypeOK' /\ LocalTypeOK'
         /\ pc' = [pc EXCEPT ![p] = "batch"]
         /\ load' = [load EXCEPT ![p] = kind] /\ todo' = [todo EXCEPT ![p] = S]
         /\ UNCHANGED <<db, cache>>
         /\ \E r \in Free : /\ ref' = [ref EXCEPT ![p] = r]
                            /\ rows' = [rows EXCEPT ![r] = {}]
                            /\ must' = [must EXCEPT ![r] = db]
<1>1. PICK r \in Free : /\ ref' = [ref EXCEPT ![p] = r]
                        /\ rows' = [rows EXCEPT ![r] = {}]
                        /\ must' = [must EXCEPT ![r] = db]
  BY DEF StartLoad
<1>2. r \in Refs
  BY DEF Free
<1> QED BY <1>1, <1>2, TypeParts DEF StartLoad, GlobalTypeOK, LocalTypeOK, Goto, Points

-----------------------------------------------------------------------------
(* The inductive invariant.  CatalogueComplete alone is not: what a fill   *)
(* publishes is complete because a load of everything has, at every point, *)
(* each product it must find in its catalogue or still in its ids to fetch, *)
(* and because nobody else writes to that catalogue.                       *)
MustExists == \A r \in Refs : must[r] \subseteq db
LoadsComplete ==
    \A p \in Procs :
      /\ pc[p] = "batch" /\ load[p] = "all" => must[ref[p]] \subseteq rows[ref[p]] \cup todo[p]
      /\ pc[p] = "fill" => must[ref[p]] \subseteq rows[ref[p]]

IInv == TypeOK /\ LoadsArePrivate /\ MustExists /\ LoadsComplete /\ CatalogueComplete

(* Most steps neither load nor fill: their goroutine ends up outside of a  *)
(* load, with no catalogue, the one it had, or one of the cache's.         *)
Quiet(p) ==
    /\ UNCHANGED <<cache, rows, must>> /\ db \subseteq db'
    /\ \E l \in Points \ {"batch", "fill"} : pc' = [pc EXCEPT ![p] = l]
    /\ \E x \in {Nil, ref[p]} \cup {cache[s] : s \in Stores} : ref' = [ref EXCEPT ![p] = x]
    /\ \A q \in Procs \ {p} : load'[q] = load[q] /\ todo'[q] = todo[q]

LEMMA QuietKeeps ==
  ASSUME IInv, NEW p \in Procs, Quiet(p), GlobalTypeOK', LocalTypeOK'
  PROVE  IInv'
<1> USE DEF IInv
<1>1. PICK l \in Points \ {"batch", "fill"} : pc' = [pc EXCEPT ![p] = l]
  BY DEF Quiet
<1>2. PICK x \in {Nil, ref[p]} \cup {cache[s] : s \in Stores} : ref' = [ref EXCEPT ![p] = x]
  BY DEF Quiet
<1>3. LocalTypeOK /\ GlobalTypeOK /\ Loading
  BY TypeParts
<1>4. pc'[p] = l /\ \A q \in Procs \ {p} : pc'[q] = pc[q]
  BY <1>1, <1>3 DEF LocalTypeOK
<1>5. ref'[p] = x /\ \A q \in Procs \ {p} : ref'[q] = ref[q]
  BY <1>2, <1>3 DEF LocalTypeOK
<1>6. Loading'
  BY <1>3, <1>4, <1>5 DEF Loading
<1>7. TypeOK'
  BY <1>6, TypeParts, PTL
<1>8. LoadsArePrivate'
  <2> SUFFICES ASSUME NEW q \in Procs, pc'[q] \in {"batch", "fill"}
               PROVE  /\ \A s \in Stores : cache'[s] # ref'[q]
                      /\ \A z \in Procs \ {q} : ref'[z] # ref'[q]
    BY DEF LoadsArePrivate
  <2>1. q # p /\ pc[q] \in {"batch", "fill"} /\ ref'[q] = ref[q] /\ ref[q] # Nil
    BY <1>3, <1>4, <1>5 DEF Loading
  <2>2. \A s \in Stores : cache[s] # ref[q]
    BY <2>1 DEF LoadsArePrivate
  <2>3. \A z \in Procs \ {q} : ref[z] # ref[q]
    BY <2>1 DEF LoadsArePrivate
  <2>4. x # ref[q]
    BY <2>1, <2>2, <2>3
  <2> QED BY <1>5, <2>1, <2>2, <2>3, <2>4 DEF Quiet
<1>9. MustExists'
  BY DEF MustExists, Quiet
<1>10. LoadsComplete'
  BY <1>4, <1>5 DEF LoadsComplete, Quiet
<1>11. CatalogueComplete'
  BY DEF CatalogueComplete, Quiet
<1> QED BY <1>7, <1>8, <1>9, <1>10, <1>11

LEMMA StartLoadPreserves ==
  ASSUME IInv, NEW p \in Procs, NEW kind \in {"all", "limit", "ids"},
         NEW S \in SUBSET Ids, StartLoad(p, kind, S), kind = "all" => S = db
  PROVE  IInv'
<1> USE DEF IInv
<1>1. PICK r \in Free : /\ ref' = [ref EXCEPT ![p] = r]
                        /\ rows' = [rows EXCEPT ![r] = {}]
                        /\ must' = [must EXCEPT ![r] = db]
  BY DEF StartLoad
<1>2. LocalTypeOK /\ GlobalTypeOK /\ Loading /\ LocalTypeOK' /\ GlobalTypeOK' /\ Nil \notin Refs
  BY ConstantsAssumption, TypeParts, StartLoadKeeps
<1>3. /\ r \in Refs
      /\ \A q \in Procs : ref[q] # r
      /\ \A s \in Stores : cache[s] # r
  BY <1>1 DEF Free
<1>4. /\ pc'[p] = "batch" /\ load'[p] = kind /\ todo'[p] = S /\ ref'[p] = r
      /\ \A q \in Procs \ {p} : /\ pc'[q] = pc[q] /\ load'[q] = load[q]
                               /\ todo'[q] = todo[q] /\ ref'[q] = ref[q]
      /\ UNCHANGED <<db, cache>>
  BY <1>1, <1>2, StartLoadKeeps DEF LocalTypeOK
<1>5. /\ rows'[r] = {} /\ must'[r] = db
      /\ \A x \in Refs \ {r} : rows'[x] = rows[x] /\ must'[x] = must[x]
  BY <1>1, <1>2, <1>3 DEF GlobalTypeOK
<1>6. Loading'
  BY <1>2, <1>3, <1>4 DEF Loading
<1>7. TypeOK'
  BY <1>2, <1>6, TypeParts, PTL
<1>8. LoadsArePrivate'
  BY <1>3, <1>4 DEF LoadsArePrivate
<1>9. MustExists'
  BY <1>4, <1>5 DEF MustExists
<1>10. LoadsComplete'
  <2> SUFFICES ASSUME NEW q \in Procs
               PROVE  /\ pc'[q] = "batch" /\ load'[q] = "all" =>
                            must'[ref'[q]] \subseteq rows'[ref'[q]] \cup todo'[q]
                      /\ pc'[q] = "fill" => must'[ref'[q]] \subseteq rows'[ref'[q]]
    BY DEF LoadsComplete
  <2>1. CASE q = p
    BY <1>4, <1>5, <2>1
  <2>2. CASE q # p /\ pc[q] \in {"batch", "fill"}
    <3>1. ref[q] \in Refs \ {r}
      BY <1>2, <1>3, <2>2 DEF Loading, LocalTypeOK
    <3> QED BY <1>4, <1>5, <2>2, <3>1 DEF LoadsComplete
  <2> QED BY <1>4, <2>1, <2>2
<1>11. CatalogueComplete'
  BY <1>2, <1>3, <1>4, <1>5 DEF CatalogueComplete, GlobalTypeOK
<1> QED BY <1>7, <1>8, <1>9, <1>10, <1>11

LEMMA FetchBatchPreserves ==
  ASSUME IInv, NEW p \in Procs, FetchBatch(p)
  PROVE  IInv'
<1> USE DEF IInv
<1>1. LocalTypeOK /\ GlobalTypeOK /\ Loading /\ ref[p] \in Refs
  BY TypeParts DEF FetchBatch, Flatten, LocalTypeOK, Loading
<1>2. CASE Failed(p) /\ UNCHANGED <<rows, codes>>
  <2>1. LocalTypeOK' /\ GlobalTypeOK'
    BY <1>1, <1>2, FailedKeeps DEF FetchBatch, Flatten, GlobalTypeOK
  <2>2. Quiet(p)
    BY <1>1, <1>2, FailedKeeps DEF FetchBatch, Flatten, Quiet, Points
  <2> QED BY <2>1, <2>2, QuietKeeps
<1>3. ASSUME NEW B \in SUBSET todo[p],
             rows' = [rows EXCEPT ![ref[p]] = @ \cup (B \cap db)],
             todo' = [todo EXCEPT ![p] = @ \ B],
             codes' \in IF codes = "fresh" THEN {"loaded", "failed"} ELSE {codes},
             UNCHANGED <<pc, op, sid, stage, asked, load, ref, found, left, busy, want, stable>>
      PROVE  IInv'
  <2>1. pc[p] = "batch" /\ UNCHANGED <<db, cache, must>>
    BY DEF FetchBatch, Flatten
  <2>2. LocalTypeOK'
    BY <1>1, <1>3 DEF LocalTypeOK
  <2>3. GlobalTypeOK'
    BY <1>1, <1>3, <2>1 DEF GlobalTypeOK
  <2>4. Loading'
    BY <1>1, <1>3 DEF Loading
  <2>5. TypeOK'
    BY <2>2, <2>3, <2>4, TypeParts, PTL
  <2>6. LoadsArePrivate' /\ MustExists'
    BY <1>3, <2>1 DEF LoadsArePrivate, MustExists
  <2>7. /\ rows'[ref[p]] = rows[ref[p]] \cup (B \cap db)
        /\ \A x \in Refs \ {ref[p]} : rows'[x] = rows[x]
        /\ todo'[p] = todo[p] \ B
        /\ \A q \in Procs \ {p} : todo'[q] = todo[q]
    BY <1>1, <1>3 DEF GlobalTypeOK, LocalTypeOK
  <2>8. LoadsComplete'
    <3> SUFFICES ASSUME NEW q \in Procs
                 PROVE  /\ pc[q] = "batch" /\ load[q] = "all" =>
                              must[ref[q]] \subseteq rows'[ref[q]] \cup todo'[q]
                        /\ pc[q] = "fill" => must[ref[q]] \subseteq rows'[ref[q]]
      BY <1>3, <2>1 DEF LoadsComplete
    <3>1. CASE q = p
      <4>1. must[ref[p]] \subseteq db
        BY <1>1 DEF MustExists
      <4> QED BY <2>1, <2>7, <3>1, <4>1 DEF LoadsComplete
    <3>2. CASE q # p /\ pc[q] \in {"batch", "fill"}
      <4>1. ref[q] \in Refs /\ ref[q] # ref[p]
        BY <1>1, <2>1, <3>2 DEF LoadsArePrivate, Loading, LocalTypeOK
      <4> QED BY <2>7, <3>2, <4>1 DEF LoadsComplete
    <3> QED BY <3>1, <3>2
  <2>9. CatalogueComplete'
    BY <1>1, <2>1, <2>7 DEF CatalogueComplete, LoadsArePrivate, GlobalTypeOK
  <2> QED BY <2>5, <2>6, <2>8, <2>9
<1> QED BY <1>2, <1>3 DEF FetchBatch, Flatten

LEMMA LoadDonePreserves ==
  ASSUME IInv, NEW p \in Procs, LoadDone(p)
  PROVE  IInv'
<1> USE DEF IInv
<1>1. /\ LocalTypeOK /\ GlobalTypeOK /\ Loading /\ ref[p] \in Refs
      /\ rows[ref[p]] \in SUBSET Ids
  BY TypeParts DEF LoadDone, LocalTypeOK, GlobalTypeOK, Loading
<1>2. GlobalTypeOK'
  BY <1>1 DEF LoadDone, GlobalTypeOK
<1>3. CASE Got(p, ref[p], rows[ref[p]])
  <2>1. LocalTypeOK'
    BY <1>1, <1>3, GotKeeps
  <2>2. Quiet(p)
    BY <1>1, <1>3, GotKeeps DEF LoadDone, Quiet, Points
  <2> QED BY <1>2, <2>1, <2>2, QuietKeeps
<1>4. CASE load[p] = "all" /\ Goto(p, "fill") /\ UNCHANGED locals
  <2>1. /\ LocalTypeOK'
        /\ pc'[p] = "fill" /\ \A q \in Procs \ {p} : pc'[q] = pc[q]
    BY <1>1, <1>4 DEF LocalTypeOK, Goto, locals, Points
  <2>2. UNCHANGED <<db, cache, rows, must, load, ref, todo>> /\ pc[p] = "batch" /\ todo[p] = {}
    BY <1>4 DEF LoadDone, locals
  <2>3. Loading'
    BY <1>1, <2>1, <2>2 DEF Loading, LocalTypeOK
  <2>4. TypeOK'
    BY <1>2, <2>1, <2>3, TypeParts, PTL
  <2>5. LoadsArePrivate' /\ MustExists' /\ CatalogueComplete'
    BY <2>1, <2>2 DEF LoadsArePrivate, MustExists, CatalogueComplete
  <2>6. LoadsComplete'
    BY <1>4, <2>1, <2>2 DEF LoadsComplete
  <2> QED BY <2>4, <2>5, <2>6
<1> QED BY <1>3, <1>4 DEF LoadDone

LEMMA FillPreserves ==
  ASSUME IInv, NEW p \in Procs, Fill(p)
  PROVE  IInv'
<1> USE DEF IInv
<1>1. /\ LocalTypeOK /\ GlobalTypeOK /\ Loading /\ ref[p] \in Refs /\ sid[p] \in Stores
      /\ rows[ref[p]] \in SUBSET Ids
  BY TypeParts DEF Fill, LocalTypeOK, GlobalTypeOK, Loading
<1>2. /\ pc[p] = "fill" /\ UNCHANGED <<db, rows, must>>
      /\ cache' = [cache EXCEPT ![sid[p]] = ref[p]]
      /\ Got(p, ref[p], rows[ref[p]])
  BY DEF Fill
<1>3. GlobalTypeOK'
  BY <1>1 DEF Fill, GlobalTypeOK
<1>4. PICK l \in {"use", "byids"} : pc' = [pc EXCEPT ![p] = l]
  BY <1>1, <1>2, GotKeeps
<1>5. PICK x \in {ref[p], Nil} : ref' = [ref EXCEPT ![p] = x]
  BY <1>1, <1>2, GotKeeps
<1>6. LocalTypeOK' /\ \A q \in Procs \ {p} : load'[q] = load[q] /\ todo'[q] = todo[q]
  BY <1>1, <1>2, GotKeeps
<1>7. /\ pc'[p] = l /\ ref'[p] = x
      /\ \A q \in Procs \ {p} : pc'[q] = pc[q] /\ ref'[q] = ref[q]
      /\ \A s \in Stores : cache'[s] = IF s = sid[p] THEN ref[p] ELSE cache[s]
  BY <1>1, <1>2, <1>4, <1>5 DEF LocalTypeOK, GlobalTypeOK
<1>8. Loading'
  BY <1>1, <1>7 DEF Loading
<1>9. TypeOK'
  BY <1>3, <1>6, <1>8, TypeParts, PTL
<1>10. LoadsArePrivate'
  <2> SUFFICES ASSUME NEW q \in Procs, pc'[q] \in {"batch", "fill"}
               PROVE  /\ \A s \in Stores : cache'[s] # ref'[q]
                      /\ \A z \in Procs \ {q} : ref'[z] # ref'[q]
    BY DEF LoadsArePrivate
  <2>1. q # p /\ pc[q] \in {"batch", "fill"} /\ ref'[q] = ref[q] /\ ref[q] # Nil
    BY <1>1, <1>7 DEF Loading
  <2>2. /\ \A s \in Stores : cache[s] # ref[q]
        /\ \A z \in Procs \ {q} : ref[z] # ref[q]
    BY <2>1 DEF LoadsArePrivate
  <2> QED BY <1>7, <2>1, <2>2
<1>11. MustExists'
  BY <1>2 DEF MustExists
<1>12. LoadsComplete'
  BY <1>2, <1>6, <1>7 DEF LoadsComplete
<1>13. CatalogueComplete'
  BY <1>2, <1>7 DEF CatalogueComplete, LoadsComplete
<1> QED BY <1>9, <1>10, <1>11, <1>12, <1>13

LEMMA LookupPreserves ==
  ASSUME IInv, NEW p \in Procs, Lookup(p)
  PROVE  IInv'
<1>1. LocalTypeOK /\ GlobalTypeOK
  BY TypeParts DEF IInv
<1>2. GlobalTypeOK'
  BY <1>1 DEF Lookup, GlobalTypeOK
<1>3. CASE cache[sid[p]] # Nil /\ Got(p, cache[sid[p]], rows[cache[sid[p]]])
  <2>1. sid[p] \in Stores /\ cache[sid[p]] \in Refs /\ rows[cache[sid[p]]] \in SUBSET Ids
    BY <1>1, <1>3 DEF LocalTypeOK, GlobalTypeOK
  <2>2. LocalTypeOK'
    BY <1>1, <1>3, <2>1, GotKeeps
  <2>3. {cache[sid[p]], Nil} \subseteq {Nil, ref[p]} \cup {cache[s] : s \in Stores}
    BY <2>1
  <2>4. PICK r \in {cache[sid[p]], Nil} : ref' = [ref EXCEPT ![p] = r]
    BY <1>1, <1>3, <2>1, GotKeeps
  <2>5. \E x \in {Nil, ref[p]} \cup {cache[s] : s \in Stores} : ref' = [ref EXCEPT ![p] = x]
    BY <2>3, <2>4
  <2>6. PICK l \in {"use", "byids"} : pc' = [pc EXCEPT ![p] = l]
    BY <1>1, <1>3, <2>1, GotKeeps
  <2>7. \A q \in Procs \ {p} : load'[q] = load[q] /\ todo'[q] = todo[q]
    BY <1>1, <1>3, <2>1, GotKeeps
  <2>8. UNCHANGED <<cache, rows, must>> /\ db \subseteq db'
    BY <1>3 DEF Lookup
  <2>9. l \in Points \ {"batch", "fill"}
    BY DEF Points
  <2>10. Quiet(p)
    BY <2>5, <2>6, <2>7, <2>8, <2>9, Zenon DEF Quiet
  <2> QED BY <1>2, <2>2, <2>10, QuietKeeps
<1>4. CASE Goto(p, "pluck") /\ UNCHANGED locals
  <2>1. LocalTypeOK'
    BY <1>1, <1>4 DEF LocalTypeOK, Goto, locals, Points
  <2>3. ref' = [ref EXCEPT ![p] = ref[p]]
    BY <1>1, <1>4 DEF locals, LocalTypeOK
  <2>2. Quiet(p)
    BY <1>1, <1>4, <2>3 DEF Lookup, Quiet, Points, Goto, locals
  <2> QED BY <1>2, <2>1, <2>2, QuietKeeps
<1> QED BY <1>3, <1>4 DEF Lookup

LEMMA PluckPreserves ==
  ASSUME IInv, NEW p \in Procs, Pluck(p)
  PROVE  IInv'
<1>1. LocalTypeOK /\ GlobalTypeOK
  BY TypeParts DEF IInv
<1>2. CASE StartLoad(p, "all", db)
  BY <1>1, <1>2, StartLoadPreserves DEF GlobalTypeOK
<1>3. CASE \E L \in SUBSET db : StartLoad(p, "limit", L)
  BY <1>1, <1>3, StartLoadPreserves DEF GlobalTypeOK
<1>4. CASE Failed(p) /\ UNCHANGED <<db, cache, rows, codes, must>>
  <2>1. LocalTypeOK' /\ GlobalTypeOK'
    BY <1>1, <1>4, FailedKeeps DEF GlobalTypeOK
  <2>2. Quiet(p)
    BY <1>1, <1>4, FailedKeeps DEF Quiet, Points
  <2> QED BY <2>1, <2>2, QuietKeeps
<1> QED BY <1>2, <1>3, <1>4 DEF Pluck

LEMMA ByIDsPreserves ==
  ASSUME IInv, NEW p \in Procs, ByIDs(p)
  PROVE  IInv'
<1> DEFINE cached == IF CacheOff \/ cache[sid[p]] = Nil THEN {} ELSE rows[cache[sid[p]]]
           missing == asked[p] \ cached
<1>1. LocalTypeOK /\ GlobalTypeOK
  BY TypeParts DEF IInv
<1>2. CASE /\ Goto(p, "lookup") /\ UNCHANGED locals
           /\ UNCHANGED <<db, cache, rows, codes, must>>
  <2>1. LocalTypeOK' /\ GlobalTypeOK'
    BY <1>1, <1>2 DEF LocalTypeOK, GlobalTypeOK, Goto, locals, Points
  <2>3. ref' = [ref EXCEPT ![p] = ref[p]]
    BY <1>1, <1>2 DEF locals, LocalTypeOK
  <2>2. Quiet(p)
    BY <1>1, <1>2, <2>3 DEF Quiet, Points, Goto, locals
  <2> QED BY <2>1, <2>2, QuietKeeps
<1>3. CASE /\ asked[p] # {} /\ missing = {}
           /\ Got(p, cache[sid[p]], asked[p])
           /\ UNCHANGED <<db, cache, rows, codes, must>>
  <2>1. sid[p] \in Stores /\ cache[sid[p]] \in Refs /\ asked[p] \in SUBSET Ids
    BY <1>1, <1>3 DEF LocalTypeOK, GlobalTypeOK
  <2>2. LocalTypeOK' /\ GlobalTypeOK'
    BY <1>1, <1>3, <2>1, GotKeeps DEF GlobalTypeOK
  <2>3. {cache[sid[p]], Nil} \subseteq {Nil, ref[p]} \cup {cache[s] : s \in Stores}
    BY <2>1
  <2>4. PICK r \in {cache[sid[p]], Nil} : ref' = [ref EXCEPT ![p] = r]
    BY <1>1, <1>3, <2>1, GotKeeps
  <2>5. \E x \in {Nil, ref[p]} \cup {cache[s] : s \in Stores} : ref' = [ref EXCEPT ![p] = x]
    BY <2>3, <2>4
  <2>6. PICK l \in {"use", "byids"} : pc' = [pc EXCEPT ![p] = l]
    BY <1>1, <1>3, <2>1, GotKeeps
  <2>7. \A q \in Procs \ {p} : load'[q] = load[q] /\ todo'[q] = todo[q]
    BY <1>1, <1>3, <2>1, GotKeeps
  <2>8. UNCHANGED <<cache, rows, must>> /\ db \subseteq db'
    BY <1>3
  <2>9. l \in Points \ {"batch", "fill"}
    BY DEF Points
  <2>10. Quiet(p)
    BY <2>5, <2>6, <2>7, <2>8, <2>9, Zenon DEF Quiet
  <2> QED BY <2>2, <2>10, QuietKeeps
<1>4. CASE StartLoad(p, "ids", missing)
  <2>1. missing \in SUBSET Ids
    BY <1>1 DEF LocalTypeOK
  <2> QED BY <1>4, <2>1, StartLoadPreserves
<1> QED BY <1>2, <1>3, <1>4 DEF ByIDs

LEMMA EnterPreserves ==
  ASSUME IInv, NEW p \in Procs, NEW o \in AllOps, NEW s \in Stores,
         NEW l \in {"lookup", "byids"}, NEW A \in SUBSET Ids, Enter(p, o, s, l, A)
  PROVE  IInv'
<1>1. LocalTypeOK /\ GlobalTypeOK
  BY TypeParts DEF IInv
<1>2. LocalTypeOK' /\ GlobalTypeOK'
  BY <1>1 DEF Enter, Goto, Points, LocalTypeOK, GlobalTypeOK
<1>3. Quiet(p)
  BY <1>1 DEF Enter, Goto, Quiet, Points, LocalTypeOK
<1> QED BY <1>2, <1>3, QuietKeeps

LEMMA CallPreserves ==
  ASSUME IInv, NEW p \in Procs, Call(p)
  PROVE  IInv'
<1>1. CASE \E s \in Stores : CallFlat(p, s)
  BY <1>1, EnterPreserves DEF CallFlat, AllOps
<1>2. CASE \E s \in Stores : CallSkus(p, s)
  BY <1>2, EnterPreserves DEF CallSkus, AllOps
<1>3. CASE \E s \in Stores : CallProduct(p, s)
  BY <1>3, EnterPreserves DEF CallProduct, AllOps
<1>4. CASE \E s \in Stores : CallByIDs(p, s)
  BY <1>4, EnterPreserves DEF CallByIDs, AllOps, ByIDsOps
<1>5. ASSUME NEW i \in Ids, UpdateFind(p, i) PROVE IInv'
  <2>1. LocalTypeOK /\ GlobalTypeOK
    BY TypeParts DEF IInv
  <2>2. LocalTypeOK' /\ GlobalTypeOK'
    BY <1>5, <2>1 DEF UpdateFind, Goto, Points, AllOps, LocalTypeOK, GlobalTypeOK
  <2>3. Quiet(p)
    BY <1>5, <2>1 DEF UpdateFind, Goto, Quiet, Points, LocalTypeOK
  <2> QED BY <2>2, <2>3, QuietKeeps
<1> QED BY <1>1, <1>2, <1>3, <1>4, <1>5 DEF Call

LEMMA StepPreserves ==
  ASSUME IInv, NEW p \in Procs, Step(p)
  PROVE  IInv'
<1>1. LocalTypeOK /\ GlobalTypeOK
  BY TypeParts DEF IInv
<1>2. CASE Lookup(p) \/ Pluck(p) \/ ByIDs(p)
  BY <1>2, LookupPreserves, PluckPreserves, ByIDsPreserves
<1>3. CASE FetchBatch(p) \/ LoadDone(p) \/ Fill(p)
  BY <1>3, FetchBatchPreserves, LoadDonePreserves, FillPreserves
<1>4. ASSUME NEW i \in Ids, Use(p, i) PROVE IInv'
  <2>1. LocalTypeOK' /\ GlobalTypeOK'
    BY <1>1, <1>4 DEF Use, LocalTypeOK, GlobalTypeOK
  <2>2. Quiet(p)
    BY <1>1, <1>4 DEF Use, Quiet, Points, LocalTypeOK
  <2> QED BY <2>1, <2>2, QuietKeeps
<1>5. CASE Answer(p)
  <2>1. LocalTypeOK' /\ GlobalTypeOK'
    BY <1>1, <1>5, ReturnKeeps DEF Answer, GlobalTypeOK
  <2>2. Quiet(p)
    BY <1>1, <1>5, ReturnKeeps DEF Answer, Quiet, Points
  <2> QED BY <2>1, <2>2, QuietKeeps
<1>6. CASE UpdateSave(p)
  <2>1. LocalTypeOK'
    BY <1>1, <1>6, ReturnKeeps DEF UpdateSave
  <2>2. GlobalTypeOK'
    BY <1>1, <1>6 DEF UpdateSave, GlobalTypeOK, LocalTypeOK
  <2>3. Quiet(p)
    BY <1>1, <1>6, ReturnKeeps DEF UpdateSave, Quiet, Points
  <2> QED BY <2>1, <2>2, <2>3, QuietKeeps
<1> QED BY <1>2, <1>3, <1>4, <1>5, <1>6 DEF Step

LEMMA WritePreserves ==
  ASSUME IInv, Write
  PROVE  IInv'
<1> USE DEF IInv
<1>1. LocalTypeOK /\ GlobalTypeOK /\ Loading
  BY TypeParts
<1>2. PICK i \in Ids : Create(i) \/ Delete(i)
  BY DEF Write
<1>3. CASE Create(i)
  <2>1. UNCHANGED <<cache, rows, codes, must, pc, locals>> /\ db' = db \cup {i}
    BY <1>3 DEF Create
  <2>2. TypeOK'
    BY <2>1 DEF TypeOK, locals
  <2>3. LoadsArePrivate' /\ MustExists' /\ LoadsComplete' /\ CatalogueComplete'
    BY <2>1 DEF LoadsArePrivate, MustExists, LoadsComplete, CatalogueComplete, locals
  <2> QED BY <2>2, <2>3
<1>4. CASE Delete(i)
  <2>1. /\ UNCHANGED <<cache, rows, codes, pc, ref, load, todo>> /\ db' = db \ {i}
        /\ \A r \in Refs : must'[r] = must[r] \ {i}
    BY <1>4 DEF Delete
  <2>2. LocalTypeOK' /\ GlobalTypeOK'
    BY <1>1, <1>4 DEF Delete, LocalTypeOK, GlobalTypeOK
  <2>3. Loading'
    BY <1>1, <2>1 DEF Loading
  <2>7. TypeOK'
    BY <2>2, <2>3, TypeParts, PTL
  <2>4. LoadsArePrivate' /\ MustExists'
    BY <2>1 DEF LoadsArePrivate, MustExists
  <2>5. LoadsComplete'
    BY <1>1, <2>1 DEF LoadsComplete, Loading, LocalTypeOK
  <2>6. CatalogueComplete'
    BY <1>1, <2>1 DEF CatalogueComplete, GlobalTypeOK
  <2> QED BY <2>4, <2>5, <2>6, <2>7
<1> QED BY <1>2, <1>3, <1>4

LEMMA Initially == Init => IInv
<1> SUFFICES ASSUME Init PROVE IInv
  OBVIOUS
<1>1. TypeOK
  BY ConstantsAssumption DEF Init, TypeOK, Points, AllOps
<1>2. LoadsArePrivate /\ MustExists /\ LoadsComplete /\ CatalogueComplete
  BY DEF Init, LoadsArePrivate, MustExists, LoadsComplete, CatalogueComplete
<1> QED BY <1>1, <1>2 DEF IInv

LEMMA StutterKeeps ==
  ASSUME IInv, UNCHANGED vars
  PROVE  IInv'
<1>1. TypeOK'
  BY DEF IInv, vars, locals, TypeOK
<1>2. LoadsArePrivate' /\ MustExists' /\ LoadsComplete' /\ CatalogueComplete'
  BY DEF IInv, vars, locals, LoadsArePrivate, MustExists, LoadsComplete, CatalogueComplete
<1> QED BY <1>1, <1>2 DEF IInv

LEMMA Invariance == Spec => []IInv
<1>1. ASSUME IInv, Next PROVE IInv'
  BY <1>1, CallPreserves, StepPreserves, WritePreserves DEF Next
<1>2. IInv /\ [Next]_vars => IInv'
  BY <1>1, StutterKeeps
<1> QED BY Initially, <1>2, PTL DEF Spec

-----------------------------------------------------------------------------
(* Every variable has its type, and whoever loads has a map to load into:  *)
(* no load writes to a nil map.                                            *)
THEOREM TypeCorrect == Spec => []TypeOK
<1>1. IInv => TypeOK
  BY DEF IInv
<1> QED BY <1>1, Invariance, PTL

(* A catalogue that is being loaded is its goroutine's alone, though the   *)
(* maps are shared by reference and no lock is held during a load.         *)
THEOREM LoadsPrivate == Spec => []LoadsArePrivate
<1>1. IInv => LoadsArePrivate
  BY DEF IInv
<1> QED BY <1>1, Invariance, PTL

(* What flatProductsCache holds is whole: loads by id, with a limit, failed *)
(* or cut into batches, beside deletions and other fills, never leave a    *)
(* part of the products there.                                             *)
THEOREM CatalogueWhole == Spec => []CatalogueComplete
<1>1. IInv => CatalogueComplete
  BY DEF IInv
<1> QED BY <1>1, Invariance, PTL
=============================================================================

---------------------------- MODULE FlatLookups_proof ----------------------------
(***************************************************************************)
(* A lookup of one product by its id, or any lookup with the cache off,    *)
(* finds what is there, for any number of goroutines, products and stores  *)
(* and any batch size.  The argument rests on the privacy of the maps being *)
(* loaded, of FlatProducts_proof.                                          *)
(***************************************************************************)
EXTENDS FlatProducts_proof, FiniteSetTheorems

(* The call asks for one product, by its id.                               *)
Single(p) == op[p] \in ByIDsOps /\ Cardinality(want[p]) = 1
Promised(p) == CacheOff \/ Single(p)

(* What a call knows: until it is answered, the products it must find are  *)
(* among those it asks for, unless it has dropped its filter; while it      *)
(* loads, they are in its map or still to be fetched.                      *)
Asking(p) ==
    /\ stable[p] \subseteq db
    /\ op[p] = "magento" \/ load[p] = "limit" \/ pc[p] = "idle" => stable[p] = {}
    /\ Single(p) => /\ asked[p] = want[p]
                    /\ pc[p] \in {"byids", "batch", "use"}
                    /\ pc[p] = "batch" => load[p] = "ids"
    /\ CacheOff => pc[p] # "fill"
    /\ Promised(p) => \/ stable[p] \subseteq asked[p]
                      \/ op[p] = "skus" /\ stage[p] = 2 /\ asked[p] = {}
Finding(p) ==
    Promised(p) => /\ pc[p] = "batch" => stable[p] \subseteq rows[ref[p]] \cup todo[p]
                   /\ pc[p] = "use" => stable[p] \subseteq found[p]
Fine(p) == Asking(p) /\ Finding(p)

FindInv == \A p \in Procs : Fine(p)

-----------------------------------------------------------------------------
(* A step leaves the call of goroutine q alone.                            *)
Same(q) ==
    /\ pc'[q] = pc[q] /\ op'[q] = op[q] /\ stage'[q] = stage[q] /\ asked'[q] = asked[q]
    /\ load'[q] = load[q] /\ ref'[q] = ref[q] /\ todo'[q] = todo[q] /\ found'[q] = found[q]
    /\ want'[q] = want[q] /\ stable'[q] = stable[q]
OthersSame(p) == \A q \in Procs \ {p} : Same(q)

LEMMA SameFine ==
  ASSUME NEW q \in Procs, Fine(q), Same(q), stable[q] \subseteq db',
         pc[q] = "batch" => rows'[ref[q]] = rows[ref[q]]
  PROVE  Fine(q)'
<1>1. Single(q)' <=> Single(q)
  BY DEF Same, Single
<1>2. Promised(q)' <=> Promised(q)
  BY <1>1 DEF Promised
<1>3. Asking(q)'
  BY <1>1, <1>2 DEF Same, Fine, Asking
<1>4. Finding(q)'
  BY <1>2 DEF Same, Fine, Finding
<1> QED BY <1>3, <1>4 DEF Fine

LEMMA OthersFine ==
  ASSUME FindInv, NEW p \in Procs, OthersSame(p), db \subseteq db', Fine(p)',
         \A q \in Procs \ {p} : pc[q] = "batch" => rows'[ref[q]] = rows[ref[q]]
  PROVE  FindInv'
<1> SUFFICES ASSUME NEW q \in Procs PROVE Fine(q)'
  BY DEF FindInv
<1>1. CASE q = p
  BY <1>1
<1>2. CASE q # p
  <2>1. Fine(q) /\ Same(q)
    BY <1>2 DEF FindInv, OthersSame
  <2>2. stable[q] \subseteq db'
    BY <2>1 DEF Fine, Asking
  <2> QED BY <1>2, <2>1, <2>2, SameFine
<1> QED BY <1>1, <1>2

-----------------------------------------------------------------------------
(* The ends of a step.                                                     *)
LEMMA ReturnFine ==
  ASSUME LocalTypeOK, NEW p \in Procs, Return(p)
  PROVE  Fine(p)' /\ OthersSame(p)
<1>1. /\ pc'[p] = "idle" /\ op'[p] = "flat" /\ stable'[p] = {}
      /\ OthersSame(p)
  BY DEF LocalTypeOK, Return, Goto, OthersSame, Same
<1> QED BY <1>1 DEF Fine, Asking, Finding, Single, ByIDsOps

LEMMA FetchAgainFine ==
  ASSUME LocalTypeOK, NEW p \in Procs, Fine(p), NEW A, FetchAgain(p, A), db \subseteq db',
         op[p] \in {"skus", "magento"},
         Promised(p) => stable[p] \subseteq A \/ (op[p] = "skus" /\ A = {})
  PROVE  Fine(p)' /\ OthersSame(p)
<1>1. /\ pc'[p] = "byids" /\ stage'[p] = 2 /\ asked'[p] = A /\ load'[p] = "all"
      /\ op'[p] = op[p] /\ want'[p] = want[p] /\ stable'[p] = stable[p]
      /\ OthersSame(p)
  BY DEF LocalTypeOK, FetchAgain, Goto, OthersSame, Same
<1>2. ~Single(p)' /\ (Promised(p)' => Promised(p))
  BY <1>1 DEF Single, Promised, ByIDsOps
<1> QED BY <1>1, <1>2 DEF Fine, Asking, Finding

LEMMA FailedFine ==
  ASSUME LocalTypeOK, NEW p \in Procs, Fine(p), Failed(p), db \subseteq db'
  PROVE  Fine(p)' /\ OthersSame(p)
BY ReturnFine, FetchAgainFine DEF Failed

(* A fetch that has what the call must find ends it well, or is followed by *)
(* another for those products.                                             *)
LEMMA GotFine ==
  ASSUME LocalTypeOK, NEW p \in Procs, Fine(p), NEW r \in Refs, NEW S \in SUBSET Ids,
         Got(p, r, S), db \subseteq db', Promised(p) => stable[p] \subseteq S,
         Single(p) => pc[p] \in {"byids", "batch"}
  PROVE  Fine(p)' /\ OthersSame(p)
<1>1. CASE /\ op[p] \in {"skus", "magento"} /\ stage[p] = 1
           /\ FetchAgain(p, IF op[p] = "skus" THEN asked[p] \cap S ELSE S)
  <2>1. Promised(p) => stable[p] \subseteq IF op[p] = "skus" THEN asked[p] \cap S ELSE S
    BY <1>1 DEF Fine, Asking
  <2> QED BY <1>1, <2>1, FetchAgainFine
<1>2. CASE /\ ref' = [ref EXCEPT ![p] = r]
           /\ found' = [found EXCEPT ![p] = Picked(p, S)]
           /\ left' = [left EXCEPT ![p] = Picked(p, S)]
           /\ Goto(p, "use")
           /\ UNCHANGED <<op, sid, stage, asked, load, todo, busy, want, stable>>
  <2>1. /\ pc'[p] = "use" /\ found'[p] = Picked(p, S) /\ OthersSame(p)
    BY <1>2 DEF LocalTypeOK, Goto, OthersSame, Same
  <2>2. (Single(p)' <=> Single(p)) /\ (Promised(p)' <=> Promised(p))
    BY <1>2 DEF Single, Promised
  <2>3. Promised(p) => stable[p] \subseteq Picked(p, S)
    BY DEF Fine, Asking, Picked, ByIDsOps
  <2>4. Asking(p)'
    <3>1. stable'[p] \subseteq db'
      BY <1>2 DEF Fine, Asking
    <3>2. op'[p] = "magento" \/ load'[p] = "limit" \/ pc'[p] = "idle" => stable'[p] = {}
      BY <1>2, <2>1 DEF Fine, Asking
    <3> QED BY <1>2, <2>1, <2>2, <3>1, <3>2 DEF Fine, Asking
  <2>5. Finding(p)'
    BY <1>2, <2>1, <2>2, <2>3 DEF Finding
  <2> QED BY <2>1, <2>4, <2>5 DEF Fine
<1> QED BY <1>1, <1>2 DEF Got

(* A load that has all it must find ahead of it, in a map of its own.      *)
LEMMA StartLoadFine ==
  ASSUME IInv, FindInv, NEW p \in Procs, NEW kind \in {"all", "limit", "ids"},
         NEW S \in SUBSET Ids, StartLoad(p, kind, S),
         Promised(p) => stable[p] \subseteq S,
         kind = "limit" => stable[p] = {},
         Single(p) => kind = "ids" /\ pc[p] = "byids"
  PROVE  FindInv'
<1>1. LocalTypeOK /\ GlobalTypeOK /\ Loading
  BY TypeParts DEF IInv
<1>2. PICK r \in Free : /\ ref' = [ref EXCEPT ![p] = r]
                        /\ rows' = [rows EXCEPT ![r] = {}]
                        /\ must' = [must EXCEPT ![r] = db]
  BY DEF StartLoad
<1>3. /\ pc'[p] = "batch" /\ load'[p] = kind /\ todo'[p] = S
      /\ UNCHANGED <<db, op, stage, asked, want, stable>>
      /\ OthersSame(p)
  BY <1>1 DEF LocalTypeOK, StartLoad, Goto, OthersSame, Same
<1>4. (Single(p)' <=> Single(p)) /\ (Promised(p)' <=> Promised(p))
  BY <1>3 DEF Single, Promised
<1>5. Asking(p)'
  BY <1>3, <1>4 DEF FindInv, Fine, Asking
<1>6. Finding(p)'
  BY <1>3, <1>4 DEF Finding
<1>7. ASSUME NEW q \in Procs \ {p}
      PROVE  rows'[ref[q]] = rows[ref[q]]
  <2>1. ref[q] # r
    BY <1>2 DEF Free
  <2> QED BY <1>2, <2>1
<1>8. Fine(p)'
  BY <1>5, <1>6 DEF Fine
<1> QED BY <1>3, <1>7, <1>8, OthersFine

-----------------------------------------------------------------------------
(* The steps that change neither the tables nor the maps of loads.         *)
LEMMA QuietFine ==
  ASSUME FindInv, NEW p \in Procs, UNCHANGED rows, db \subseteq db', Fine(p)' /\ OthersSame(p)
  PROVE  FindInv'
BY OthersFine

LEMMA EnterFine ==
  ASSUME IInv, FindInv, NEW p \in Procs, NEW o, NEW s, NEW l, NEW A, Enter(p, o, s, l, A),
         o \in ByIDsOps => l = "byids",
         l \in {"lookup", "byids"}, o \in {"magento", "limit"} => A = {}
  PROVE  FindInv'
<1>1. LocalTypeOK
  BY TypeParts DEF IInv
<1>2. /\ pc'[p] = l /\ op'[p] = o /\ asked'[p] = A /\ want'[p] = A
      /\ stable'[p] = A \cap db /\ load'[p] = (IF o = "limit" THEN "limit" ELSE "all")
      /\ UNCHANGED <<db, rows>> /\ OthersSame(p)
  BY <1>1 DEF LocalTypeOK, Enter, Goto, OthersSame, Same
<1>3. Fine(p)'
  BY <1>2 DEF Fine, Asking, Finding, Single, Promised
<1> QED BY <1>2, <1>3, QuietFine

LEMMA LookupFine ==
  ASSUME IInv, FindInv, NEW p \in Procs, Lookup(p)
  PROVE  FindInv'
<1>1. LocalTypeOK /\ GlobalTypeOK /\ Fine(p) /\ UNCHANGED <<db, rows>> /\ pc[p] = "lookup"
  BY TypeParts DEF IInv, FindInv, Lookup
<1>2. ~Single(p)
  BY <1>1 DEF Fine, Asking
<1>3. CASE /\ load[p] = "all" /\ ~CacheOff /\ cache[sid[p]] # Nil
           /\ Got(p, cache[sid[p]], rows[cache[sid[p]]])
  <2>1. cache[sid[p]] \in Refs /\ rows[cache[sid[p]]] \in SUBSET Ids
    BY <1>1, <1>3 DEF LocalTypeOK, GlobalTypeOK
  <2>2. ~Promised(p)
    BY <1>2, <1>3 DEF Promised
  <2>3. Fine(p)' /\ OthersSame(p)
    BY <1>1, <1>2, <1>3, <2>1, <2>2, GotFine
  <2> QED BY <1>1, <2>3, QuietFine
<1>4. CASE Goto(p, "pluck") /\ UNCHANGED locals
  <2>1. pc'[p] = "pluck" /\ OthersSame(p)
    BY <1>1, <1>4 DEF LocalTypeOK, Goto, locals, OthersSame, Same
  <2>2. Fine(p)'
    BY <1>1, <1>2, <1>4, <2>1 DEF locals, Fine, Asking, Finding, Single, Promised
  <2> QED BY <1>1, <2>1, <2>2, QuietFine
<1> QED BY <1>3, <1>4 DEF Lookup

LEMMA PluckFine ==
  ASSUME IInv, FindInv, NEW p \in Procs, Pluck(p)
  PROVE  FindInv'
<1>1. LocalTypeOK /\ GlobalTypeOK /\ Fine(p) /\ pc[p] = "pluck"
  BY TypeParts DEF IInv, FindInv, Pluck
<1>2. ~Single(p) /\ stable[p] \subseteq db /\ db \in SUBSET Ids
  BY <1>1 DEF Fine, Asking, GlobalTypeOK
<1>3. CASE StartLoad(p, "all", db)
  BY <1>2, <1>3, StartLoadFine
<1>4. CASE load[p] = "limit" /\ \E L \in SUBSET db : StartLoad(p, "limit", L)
  <2>1. stable[p] = {}
    BY <1>1, <1>4 DEF Fine, Asking
  <2>2. PICK L \in SUBSET Ids : StartLoad(p, "limit", L)
    BY <1>2, <1>4
  <2> QED BY <1>2, <2>1, <2>2, StartLoadFine
<1>5. CASE Failed(p) /\ UNCHANGED <<db, cache, rows, codes, must>>
  <2>1. Fine(p)' /\ OthersSame(p)
    BY <1>1, <1>5, FailedFine
  <2> QED BY <1>5, <2>1, QuietFine
<1> QED BY <1>3, <1>4, <1>5 DEF Pluck

LEMMA FetchBatchFine ==
  ASSUME IInv, FindInv, NEW p \in Procs, FetchBatch(p)
  PROVE  FindInv'
<1>1. /\ LocalTypeOK /\ GlobalTypeOK /\ Loading /\ Fine(p)
      /\ pc[p] = "batch" /\ UNCHANGED db /\ ref[p] \in Refs
  BY TypeParts DEF IInv, FindInv, FetchBatch, Loading, LocalTypeOK
<1>2. CASE Failed(p) /\ UNCHANGED <<rows, codes>>
  <2>1. Fine(p)' /\ OthersSame(p)
    BY <1>1, <1>2, FailedFine
  <2> QED BY <1>1, <1>2, <2>1, QuietFine
<1>3. ASSUME NEW B \in SUBSET todo[p],
             rows' = [rows EXCEPT ![ref[p]] = @ \cup (B \cap db)],
             todo' = [todo EXCEPT ![p] = @ \ B],
             UNCHANGED <<pc, op, sid, stage, asked, load, ref, found, left, busy, want, stable>>
      PROVE  FindInv'
  <2>1. /\ rows'[ref[p]] = rows[ref[p]] \cup (B \cap db) /\ todo'[p] = todo[p] \ B
        /\ \A x \in Refs \ {ref[p]} : rows'[x] = rows[x]
        /\ OthersSame(p)
    BY <1>1, <1>3 DEF LocalTypeOK, GlobalTypeOK, OthersSame, Same
  <2>2. (Single(p)' <=> Single(p)) /\ (Promised(p)' <=> Promised(p))
    BY <1>3 DEF Single, Promised
  <2>3. Asking(p)'
    BY <1>1, <1>3, <2>2 DEF Fine, Asking
  <2>4. Finding(p)'
    <3>1. stable[p] \subseteq db
      BY <1>1 DEF Fine, Asking
    <3> QED BY <1>1, <1>3, <2>1, <2>2, <3>1 DEF Fine, Finding
  <2>5. ASSUME NEW q \in Procs \ {p}, pc[q] = "batch"
        PROVE  rows'[ref[q]] = rows[ref[q]]
    <3>1. ref[q] \in Refs /\ ref[q] # ref[p]
      BY <1>1, <2>5 DEF IInv, LoadsArePrivate, Loading, LocalTypeOK
    <3> QED BY <2>1, <3>1
  <2>6. Fine(p)'
    BY <2>3, <2>4 DEF Fine
  <2> QED BY <1>1, <2>1, <2>5, <2>6, OthersFine
<1> QED BY <1>2, <1>3 DEF FetchBatch

LEMMA LoadDoneFine ==
  ASSUME IInv, FindInv, NEW p \in Procs, LoadDone(p)
  PROVE  FindInv'
<1>1. /\ LocalTypeOK /\ GlobalTypeOK /\ Loading /\ Fine(p) /\ UNCHANGED <<db, rows>>
      /\ pc[p] = "batch" /\ todo[p] = {} /\ ref[p] \in Refs /\ rows[ref[p]] \in SUBSET Ids
  BY TypeParts DEF IInv, FindInv, LoadDone, Loading, LocalTypeOK, GlobalTypeOK
<1>2. CASE Got(p, ref[p], rows[ref[p]])
  <2>1. Promised(p) => stable[p] \subseteq rows[ref[p]]
    BY <1>1 DEF Fine, Finding
  <2>2. Fine(p)' /\ OthersSame(p)
    BY <1>1, <1>2, <2>1, GotFine
  <2> QED BY <1>1, <2>2, QuietFine
<1>3. CASE load[p] = "all" /\ ~CacheOff /\ Goto(p, "fill") /\ UNCHANGED locals
  <2>1. pc'[p] = "fill" /\ OthersSame(p)
    BY <1>1, <1>3 DEF LocalTypeOK, Goto, locals, OthersSame, Same
  <2>2. ~Promised(p)
    BY <1>1, <1>3 DEF Fine, Asking, Promised
  <2>3. Fine(p)'
    BY <1>1, <1>3, <2>1, <2>2 DEF locals, Fine, Asking, Finding, Single, Promised
  <2> QED BY <1>1, <2>1, <2>3, QuietFine
<1> QED BY <1>2, <1>3 DEF LoadDone

LEMMA FillFine ==
  ASSUME IInv, FindInv, NEW p \in Procs, Fill(p)
  PROVE  FindInv'
<1>1. /\ LocalTypeOK /\ GlobalTypeOK /\ Loading /\ Fine(p) /\ UNCHANGED <<db, rows>>
      /\ pc[p] = "fill" /\ ref[p] \in Refs /\ rows[ref[p]] \in SUBSET Ids
      /\ Got(p, ref[p], rows[ref[p]])
  BY TypeParts DEF IInv, FindInv, Fill, Loading, LocalTypeOK, GlobalTypeOK
<1>2. ~Promised(p)
  BY <1>1 DEF Fine, Asking, Promised
<1>3. Fine(p)' /\ OthersSame(p)
  BY <1>1, <1>2, GotFine DEF Promised
<1> QED BY <1>1, <1>3, QuietFine

(* A single id is in the cache, or it is all that is missing.              *)
LEMMA ByIDsFine ==
  ASSUME IInv, FindInv, NEW p \in Procs, ByIDs(p)
  PROVE  FindInv'
<1> DEFINE cached == IF CacheOff \/ cache[sid[p]] = Nil THEN {} ELSE rows[cache[sid[p]]]
           missing == asked[p] \ cached
<1>1. LocalTypeOK /\ GlobalTypeOK /\ Fine(p) /\ pc[p] = "byids"
  BY TypeParts DEF IInv, FindInv, ByIDs
<1>2. ASSUME Single(p)
      PROVE  \E i : asked[p] = {i}
  <2>1. want[p] \in SUBSET Ids /\ asked[p] = want[p] /\ Cardinality(want[p]) = 1
    BY <1>1, <1>2 DEF LocalTypeOK, Fine, Asking, Single
  <2>2. IsFiniteSet(want[p])
    BY <2>1, ConstantsAssumption, FS_Subset
  <2> QED BY <2>1, <2>2, FS_Singleton
<1>3. CASE /\ asked[p] = {} /\ Goto(p, "lookup") /\ UNCHANGED locals
           /\ UNCHANGED <<db, cache, rows, codes, must>>
  <2>1. pc'[p] = "lookup" /\ OthersSame(p)
    BY <1>1, <1>3 DEF LocalTypeOK, Goto, locals, OthersSame, Same
  <2>2. ~Single(p)
    BY <1>2, <1>3
  <2>3. Fine(p)'
    BY <1>1, <1>3, <2>1, <2>2 DEF locals, Fine, Asking, Finding, Single, Promised
  <2> QED BY <1>3, <2>1, <2>3, QuietFine
<1>4. CASE /\ asked[p] # {} /\ missing = {} /\ Got(p, cache[sid[p]], asked[p])
           /\ UNCHANGED <<db, cache, rows, codes, must>>
  <2>1. cache[sid[p]] \in Refs /\ asked[p] \in SUBSET Ids
    BY <1>1, <1>4 DEF LocalTypeOK, GlobalTypeOK
  <2>2. Promised(p) => stable[p] \subseteq asked[p]
    BY <1>1, <1>4 DEF Fine, Asking
  <2>3. Fine(p)' /\ OthersSame(p)
    BY <1>1, <1>4, <2>1, <2>2, GotFine
  <2> QED BY <1>4, <2>3, QuietFine
<1>5. CASE missing # {} /\ StartLoad(p, "ids", missing)
  <2>1. missing \in SUBSET Ids
    BY <1>1 DEF LocalTypeOK
  <2>2. Promised(p) => missing = asked[p]
    BY <1>2, <1>5 DEF Promised
  <2>3. Promised(p) => stable[p] \subseteq missing
    BY <1>1, <1>5, <2>2 DEF Fine, Asking
  <2> QED BY <1>1, <1>5, <2>1, <2>3, StartLoadFine
<1> QED BY <1>3, <1>4, <1>5 DEF ByIDs

LEMMA StepFine ==
  ASSUME IInv, FindInv, NEW p \in Procs, Step(p)
  PROVE  FindInv'
<1>1. LocalTypeOK /\ GlobalTypeOK /\ Fine(p)
  BY TypeParts DEF IInv, FindInv
<1>2. ASSUME NEW i \in Ids, Use(p, i) PROVE FindInv'
  <2>1. \A q \in Procs : Same(q)
    BY <1>2 DEF Use, Same
  <2>2. UNCHANGED <<db, rows>>
    BY <1>2 DEF Use
  <2>3. Fine(p)' /\ OthersSame(p)
    BY <1>1, <2>1, <2>2, SameFine DEF OthersSame, Fine, Asking
  <2> QED BY <2>2, <2>3, QuietFine
<1>3. CASE Answer(p)
  <2>1. Fine(p)' /\ OthersSame(p)
    BY <1>1, <1>3, ReturnFine DEF Answer
  <2> QED BY <1>3, <2>1, QuietFine DEF Answer
<1>4. CASE UpdateSave(p)
  <2>1. Fine(p)' /\ OthersSame(p)
    BY <1>1, <1>4, ReturnFine DEF UpdateSave
  <2> QED BY <1>4, <2>1, QuietFine DEF UpdateSave
<1> QED BY <1>2, <1>3, <1>4, LookupFine, PluckFine, FetchBatchFine, LoadDoneFine, FillFine, ByIDsFine
        DEF Step

LEMMA CallFine ==
  ASSUME IInv, FindInv, NEW p \in Procs, Call(p)
  PROVE  FindInv'
<1>1. CASE \E s \in Stores : CallFlat(p, s)
  BY <1>1, EnterFine DEF CallFlat, ByIDsOps
<1>2. CASE \E s \in Stores : CallSkus(p, s)
  BY <1>2, EnterFine DEF CallSkus, ByIDsOps
<1>3. CASE \E s \in Stores : CallProduct(p, s)
  BY <1>3, EnterFine DEF CallProduct, ByIDsOps
<1>4. CASE \E s \in Stores : CallByIDs(p, s)
  BY <1>4, EnterFine DEF CallByIDs, ByIDsOps
<1>5. ASSUME NEW i \in Ids, UpdateFind(p, i) PROVE FindInv'
  <2>1. LocalTypeOK /\ Fine(p)
    BY TypeParts DEF IInv, FindInv
  <2>2. /\ pc'[p] = "save" /\ op'[p] = "update" /\ stable'[p] = {}
        /\ UNCHANGED <<db, rows>> /\ OthersSame(p)
    BY <1>5, <2>1 DEF UpdateFind, LocalTypeOK, Goto, OthersSame, Same, Fine, Asking
  <2>3. Fine(p)'
    BY <2>2 DEF Fine, Asking, Finding, Single, ByIDsOps
  <2> QED BY <2>2, <2>3, QuietFine
<1> QED BY <1>1, <1>2, <1>3, <1>4, <1>5 DEF Call

(* A deleted product need not be found any more.                           *)
LEMMA WriteFine ==
  ASSUME IInv, FindInv, Write
  PROVE  FindInv'
<1>1. PICK i \in Ids : Create(i) \/ Delete(i)
  BY DEF Write
<1>2. CASE Create(i)
  <2>1. (\A q \in Procs : Same(q)) /\ db \subseteq db' /\ UNCHANGED rows
    BY <1>2 DEF Create, locals, Same
  <2> QED BY <2>1, SameFine DEF FindInv, Fine, Asking
<1>3. CASE Delete(i)
  <2>1. /\ UNCHANGED <<rows, pc, op, stage, asked, load, ref, todo, found, want>>
        /\ db' = db \ {i} /\ \A q \in Procs : stable'[q] = stable[q] \ {i}
    BY <1>3 DEF Delete
  <2>2. ASSUME NEW q \in Procs PROVE Fine(q)'
    <3>1. Fine(q) /\ (Single(q)' <=> Single(q)) /\ (Promised(q)' <=> Promised(q))
      BY <2>1 DEF FindInv, Single, Promised
    <3>2. Asking(q)'
      BY <2>1, <3>1 DEF Fine, Asking
    <3>3. Finding(q)'
      BY <2>1, <3>1 DEF Fine, Finding
    <3> QED BY <3>2, <3>3 DEF Fine
  <2> QED BY <2>2 DEF FindInv
<1> QED BY <1>1, <1>2, <1>3

LEMMA FindInvariant == Spec => []FindInv
<1>1. Init => FindInv
  BY DEF Init, FindInv, Fine, Asking, Finding, Single, ByIDsOps
<1>2. ASSUME IInv, FindInv, Next PROVE FindInv'
  BY <1>2, StepFine, CallFine, WriteFine DEF Next
<1>3. ASSUME FindInv, UNCHANGED vars PROVE FindInv'
  <2>1. (\A q \in Procs : Same(q)) /\ UNCHANGED <<db, rows>>
    BY <1>3 DEF vars, locals, Same
  <2> QED BY <1>3, <2>1, SameFine DEF FindInv, Fine, Asking
<1>4. IInv /\ FindInv /\ [Next]_vars => FindInv'
  BY <1>2, <1>3
<1> QED BY <1>1, <1>4, Invariance, PTL DEF Spec

(* FetchWithAllAttributesFlatByIDs finds a product that is asked for alone, *)
(* and every lookup finds what is there when the cache is off, beside      *)
(* loads, fills, failures, creations and deletions of others.              *)
THEOREM SingleFound == Spec => []LookupsFind
<1>1. FindInv => LookupsFind
  BY DEF FindInv, Fine, Finding, LookupsFind, Promised, Single
<1> QED BY <1>1, FindInvariant, PTL
=============================================================================

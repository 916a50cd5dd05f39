--------------------------- MODULE ProductImport_proof ---------------------------
(***************************************************************************)
(* What products:import guarantees for any number of importers, tables,    *)
(* rows, batches and failures: first what its goroutines and channels do,  *)
(* then the types, then what the tables hold after an import that ended    *)
(* well, and last what becomes of the products.                            *)
(***************************************************************************)
EXTENDS ProductImport, Positions_proof, TLAPS

PCs == Before \cup {"idle", "flush"}

(* The types of the part of the state the goroutines meet at.              *)
FlowTypes ==
    /\ pc \in [Imports -> PCs]
    /\ worker \in [Imports -> [Columns -> {"none", "run", "done", "err"}]]
    /\ errs \in [Imports -> [Modules -> {"none", "nil", "err"}]]
    /\ res \in [Imports -> {"none", "ok", "err"}]

(* A module has sent its result only after its goroutines ended, and "nil"  *)
(* only when all of them ended well.                                       *)
Waited ==
    \A i \in Imports : \A m \in Modules : \A c \in Written(m) \cap Columns :
        /\ errs[i][m] # "none" => worker[i][c] \in {"done", "err"}
        /\ errs[i][m] = "nil" => worker[i][c] = "done"

(* An import under way has no result, and before it flushes no errors.     *)
UnderWay ==
    \A i \in Imports :
        /\ pc[i] # "idle" => res[i] = "none"
        /\ pc[i] \in Before => \A m \in Modules : errs[i][m] = "none"

FlowInv == FlowTypes /\ Waited /\ UnderWay /\ NoWriteAfterReturn /\ ErrorsReported

-----------------------------------------------------------------------------
(* Every column is written by one of the goroutines ImportProducts starts. *)
LEMMA ColumnsWritten ==
    \A c \in Columns : \E m \in Modules : c \in Written(m)
  BY SMT DEF Columns, Tables, Modules, Written

(* The invariant holds before any import.                                  *)
LEMMA FlowInit == Init => FlowInv
  BY SMT DEF Init, FlowInv, FlowTypes, Waited, UnderWay, NoWriteAfterReturn, ErrorsReported,
             PCs, EachColumn

(* Starting an import forgets everything about the one before.             *)
LEMMA FlowStart ==
    ASSUME FlowInv, NEW i \in Imports, Start(i) PROVE FlowInv'
  <1>1. /\ worker' = [worker EXCEPT ![i] = EachColumn("none")]
        /\ errs' = [errs EXCEPT ![i] = [m \in Modules |-> "none"]]
        /\ \/ pc' = [pc EXCEPT ![i] = "lookup"] /\ res' = [res EXCEPT ![i] = "none"]
           \/ pc' = pc /\ res' = [res EXCEPT ![i] = "err"]
        /\ pc[i] = "idle"
    BY DEF Start
  <1>2. FlowTypes'
    BY <1>1 DEF FlowInv, FlowTypes, PCs, Before, EachColumn
  <1>3. Waited'
    BY <1>1 DEF FlowInv, FlowTypes, Waited, EachColumn
  <1>4. UnderWay'
    BY <1>1 DEF FlowInv, FlowTypes, UnderWay, Before
  <1>5. NoWriteAfterReturn'
    BY <1>1 DEF FlowInv, FlowTypes, NoWriteAfterReturn, EachColumn
  <1>6. ErrorsReported'
    BY <1>1 DEF FlowInv, FlowTypes, ErrorsReported, EachColumn
  <1>. QED  BY <1>2, <1>3, <1>4, <1>5, <1>6 DEF FlowInv

(* The steps before the flush only move the import on, or start the flush. *)
LEMMA FlowBefore ==
    ASSUME FlowInv, NEW i \in Imports,
           \/ Lookup(i) \/ InsertEntities(i) \/ InsertSequence(i) \/ InsertRows(i)
           \/ ReadLastInsertID(i) \/ AllInserted(i)
    PROVE  FlowInv'
  <1>1. /\ pc[i] \in Before
        /\ UNCHANGED <<errs, res>>
        /\ \/ /\ UNCHANGED worker
              /\ \/ UNCHANGED pc
                 \/ \E l \in Before : pc' = [pc EXCEPT ![i] = l]
           \/ /\ worker' = [worker EXCEPT ![i] = EachColumn("run")]
              /\ pc' = [pc EXCEPT ![i] = "flush"]
    <2>1. CASE Lookup(i)
      BY <2>1 DEF Lookup, Before
    <2>2. CASE InsertEntities(i)
      BY <2>2 DEF InsertEntities, StartFlush, Before
    <2>3. CASE InsertSequence(i)
      BY <2>3 DEF InsertSequence, Before
    <2>4. CASE InsertRows(i)
      BY <2>4 DEF InsertRows, Before
    <2>5. CASE ReadLastInsertID(i)
      BY <2>5 DEF ReadLastInsertID, Before
    <2>6. CASE AllInserted(i)
      BY <2>6 DEF AllInserted, StartFlush, Before
    <2>. QED  BY <2>1, <2>2, <2>3, <2>4, <2>5, <2>6
  <1>2. FlowTypes'
    <2>1. pc' \in [Imports -> PCs]
      BY <1>1 DEF FlowInv, FlowTypes, PCs
    <2>2. worker' \in [Imports -> [Columns -> {"none", "run", "done", "err"}]]
      BY <1>1 DEF FlowInv, FlowTypes, EachColumn
    <2>. QED  BY <1>1, <2>1, <2>2 DEF FlowInv, FlowTypes
  <1>3. Waited'
    <2>. SUFFICES ASSUME NEW j \in Imports, NEW m \in Modules, NEW c \in Written(m) \cap Columns,
                         errs[j][m] # "none"
                  PROVE  worker'[j][c] = worker[j][c]
      BY <1>1 DEF FlowInv, Waited
    <2>1. j # i
      BY <1>1 DEF FlowInv, UnderWay
    <2>. QED  BY <1>1, <2>1 DEF FlowInv, FlowTypes
  <1>4. UnderWay'
    BY <1>1 DEF FlowInv, FlowTypes, UnderWay, PCs, Before
  <1>5. NoWriteAfterReturn'
    BY <1>1 DEF FlowInv, FlowTypes, NoWriteAfterReturn, EachColumn, PCs, Before
  <1>6. ErrorsReported'
    <2>. SUFFICES ASSUME NEW j \in Imports, res[j] = "ok" PROVE worker'[j] = worker[j]
      BY <1>1 DEF FlowInv, ErrorsReported
    <2>1. pc[i] # "idle" /\ res[i] # "ok"
      BY <1>1 DEF FlowInv, UnderWay, Before
    <2>. QED  BY <1>1, <2>1 DEF FlowInv, FlowTypes
  <1>. QED  BY <1>2, <1>3, <1>4, <1>5, <1>6 DEF FlowInv

(* A goroutine that writes is one nobody has waited for.                   *)
LEMMA FlowWrite ==
    ASSUME FlowInv, NEW i \in Imports, NEW c \in Columns, Write(i, c) PROVE FlowInv'
  <1>1. /\ worker[i][c] = "run"
        /\ UNCHANGED <<pc, errs, res>>
        /\ \E w \in {"run", "done", "err"} : worker' = [worker EXCEPT ![i][c] = w]
    BY DEF Write, WriteTable, WriteGallery, WriteFails
  <1>2. FlowTypes'
    BY <1>1 DEF FlowInv, FlowTypes
  <1>3. Waited'
    BY <1>1 DEF FlowInv, FlowTypes, Waited
  <1>4. UnderWay'
    BY <1>1 DEF FlowInv, UnderWay
  <1>5. NoWriteAfterReturn'
    BY <1>1 DEF FlowInv, FlowTypes, NoWriteAfterReturn
  <1>6. ErrorsReported'
    BY <1>1 DEF FlowInv, FlowTypes, ErrorsReported
  <1>. QED  BY <1>2, <1>3, <1>4, <1>5, <1>6 DEF FlowInv

(* A module sends "nil" when none of its goroutines ended with an error.   *)
LEMMA FlowSend ==
    ASSUME FlowInv, NEW i \in Imports, NEW m \in Modules, Send(i, m) PROVE FlowInv'
  <1>1. /\ pc[i] = "flush"
        /\ \A c \in Written(m) : worker[i][c] \in {"done", "err"}
        /\ errs' = [errs EXCEPT ![i][m] = FlushResult(i, m)]
        /\ UNCHANGED <<pc, worker, res>>
    BY DEF Send
  <1>2. FlushResult(i, m) \in {"nil", "err"}
    BY DEF FlushResult
  <1>3. FlushResult(i, m) = "nil" => \A c \in Written(m) : worker[i][c] = "done"
    BY <1>1 DEF FlushResult
  <1>4. FlowTypes'
    BY <1>1, <1>2 DEF FlowInv, FlowTypes
  <1>5. Waited'
    BY <1>1, <1>2, <1>3 DEF FlowInv, FlowTypes, Waited
  <1>6. UnderWay'
    BY <1>1 DEF FlowInv, FlowTypes, UnderWay, Before
  <1>7. NoWriteAfterReturn'
    BY <1>1 DEF FlowInv, NoWriteAfterReturn
  <1>8. ErrorsReported'
    BY <1>1 DEF FlowInv, ErrorsReported
  <1>. QED  BY <1>4, <1>5, <1>6, <1>7, <1>8 DEF FlowInv

(* wg.Wait is over: every goroutine has ended, and well when no error came. *)
LEMMA FlowJoin ==
    ASSUME FlowInv, NEW i \in Imports, Join(i) PROVE FlowInv'
  <1>1. /\ pc[i] = "flush"
        /\ \A m \in Modules : errs[i][m] # "none"
        /\ res' = [res EXCEPT ![i] = IF \E m \in Modules : errs[i][m] = "err" THEN "err" ELSE "ok"]
        /\ pc' = [pc EXCEPT ![i] = "idle"]
        /\ UNCHANGED <<worker, errs>>
    BY DEF Join
  <1>2. \A c \in Columns : worker[i][c] \in {"done", "err"}
    BY <1>1, ColumnsWritten DEF FlowInv, Waited
  <1>3. (\A m \in Modules : errs[i][m] # "err") => \A c \in Columns : worker[i][c] = "done"
    <2>. SUFFICES ASSUME \A m \in Modules : errs[i][m] # "err", NEW c \in Columns
                  PROVE  worker[i][c] = "done"
      OBVIOUS
    <2>1. PICK m \in Modules : c \in Written(m)
      BY ColumnsWritten
    <2>2. errs[i][m] = "nil"
      BY <1>1 DEF FlowInv, FlowTypes
    <2>. QED  BY <2>1, <2>2 DEF FlowInv, Waited
  <1>4. FlowTypes'
    BY <1>1 DEF FlowInv, FlowTypes, PCs
  <1>5. Waited'
    BY <1>1 DEF FlowInv, Waited
  <1>6. UnderWay'
    BY <1>1 DEF FlowInv, FlowTypes, UnderWay, Before
  <1>7. NoWriteAfterReturn'
    BY <1>1, <1>2 DEF FlowInv, FlowTypes, NoWriteAfterReturn
  <1>8. ErrorsReported'
    BY <1>1, <1>3 DEF FlowInv, FlowTypes, ErrorsReported
  <1>. QED  BY <1>4, <1>5, <1>6, <1>7, <1>8 DEF FlowInv

(* Every step preserves the invariant.                                     *)
LEMMA FlowNext == FlowInv /\ [Next]_vars => FlowInv'
  <1>. SUFFICES ASSUME FlowInv, [Next]_vars PROVE FlowInv'
    OBVIOUS
  <1>1. ASSUME NEW i \in Imports, Main(i) PROVE FlowInv'
    BY <1>1, FlowBefore, FlowJoin DEF Main
  <1>2. CASE UNCHANGED vars
    BY <1>2 DEF vars, local, FlowInv, FlowTypes, Waited, UnderWay, NoWriteAfterReturn,
                ErrorsReported
  <1>. QED  BY <1>1, <1>2, FlowStart, FlowWrite, FlowSend DEF Next, GoOn

LEMMA Flow == Spec => []FlowInv
  BY FlowInit, FlowNext, PTL DEF Spec

(* ImportProducts returns only when every goroutine it started has ended.  *)
THEOREM NothingWrittenAfterReturn == Spec => []NoWriteAfterReturn
  <1>1. FlowInv => NoWriteAfterReturn
    BY DEF FlowInv
  <1>. QED  BY <1>1, Flow, PTL

(* An import that ends well has written every table: no error is lost on   *)
(* the way through the two channels.                                       *)
THEOREM NoErrorLost == Spec => []ErrorsReported
  <1>1. FlowInv => ErrorsReported
    BY DEF FlowInv
  <1>. QED  BY <1>1, Flow, PTL

-----------------------------------------------------------------------------
(* What an upsert makes of a table: the fold, row after row, in closed form. *)
(* The table after the rows at the positions of S: the greatest of an id counts. *)
Upto(f, batch, S) ==
    [n \in DOMAIN f |-> LET at == {k \in S : batch[k].id = n}
                        IN  IF at = {} THEN f[n] ELSE batch[Greatest(at)].value]

Put(f, r) == [f EXCEPT ![r.id] = r.value]

LEMMA MaxIs ==
    ASSUME NEW n \in Nat, NEW S \in SUBSET (1..n), S # {}
    PROVE  Max(S) \in S /\ Max(S) \in 1..n /\ \A j \in S : j <= Max(S)
  <1>1. Greatest(S) \in S /\ \A j \in S : j <= Greatest(S)
    BY GreatestIs
  <1>2. \E x \in S : \A y \in S : x >= y
    <2>1. \A j \in S : j \in Nat
      OBVIOUS
    <2>2. \A y \in S : Greatest(S) >= y
      BY <1>1, <2>1
    <2>. QED  BY <1>1, <2>2
  <1>3. Max(S) \in S /\ \A y \in S : Max(S) >= y
    BY <1>2, Zenon DEF Max
  <1>4. \A j \in S : j \in 1..n
    OBVIOUS
  <1>. QED  BY <1>3, <1>4

LEMMA MaxOfFirst ==
    ASSUME NEW m \in Nat \ {0}
    PROVE  Max(1..m) = m
  <1>1. Max(1..m) \in 1..m /\ \A j \in 1..m : j <= Max(1..m)
    <2>1. (1..m) \in SUBSET (1..m) /\ 1..m # {}
      OBVIOUS
    <2>. QED  BY <2>1, MaxIs
  <1>2. m <= Max(1..m)
    BY <1>1
  <1>. QED  BY <1>1, <1>2

LEMMA UptoOneMore ==
    ASSUME NEW S, NEW m, NEW f, NEW batch,
           S \in SUBSET Nat, m \in S, \A j \in S : j <= m
    PROVE  Upto(f, batch, S) = Put(Upto(f, batch, S \ {m}), batch[m])
  <1>. DEFINE At(T, x) == {k \in T : batch[k].id = x}
              U(T, x) == IF At(T, x) = {} THEN f[x] ELSE batch[Greatest(At(T, x))].value
  <1>1. \A x : x # batch[m].id => At(S, x) = At(S \ {m}, x)
    OBVIOUS
  <1>2. Greatest(At(S, batch[m].id)) = m /\ At(S, batch[m].id) # {}
    <2>1. At(S, batch[m].id) \in SUBSET Nat /\ m \in At(S, batch[m].id)
      <3>1. S \in SUBSET Nat
        OBVIOUS
      <3>. QED  BY <3>1
    <2>2. \A j \in At(S, batch[m].id) : j <= m
      BY DEF At
    <2>. HIDE DEF At
    <2>. QED  BY <2>1, <2>2, GreatestUnique
  <1>3. \A T : Upto(f, batch, T) = [x \in DOMAIN f |-> U(T, x)]
    BY DEF Upto
  <1>. HIDE DEF At
  <1>4. \A x : x # batch[m].id => U(S, x) = U(S \ {m}, x)
    BY <1>1
  <1>5. U(S, batch[m].id) = batch[m].value
    BY <1>2
  <1>. HIDE DEF U
  <1>. DEFINE g == Upto(f, batch, S \ {m})
  <1>6. g = [x \in DOMAIN f |-> U(S \ {m}, x)]
    BY <1>3
  <1>7. [g EXCEPT ![batch[m].id] = batch[m].value]
          = [x \in DOMAIN f |-> IF x = batch[m].id THEN batch[m].value ELSE U(S \ {m}, x)]
    BY <1>6
  <1>8. [x \in DOMAIN f |-> IF x = batch[m].id THEN batch[m].value ELSE U(S \ {m}, x)]
          = [x \in DOMAIN f |-> U(S, x)]
    BY <1>4, <1>5
  <1>. QED  BY <1>3, <1>7, <1>8 DEF Put

LEMMA UptoNone ==
    ASSUME NEW f, f = [x \in DOMAIN f |-> f[x]], NEW batch
    PROVE  Upto(f, batch, {}) = f
  <1>1. \A x : {k \in {} : batch[k].id = x} = {}
    OBVIOUS
  <1>2. Upto(f, batch, {}) = [x \in DOMAIN f |-> f[x]]
    BY <1>1 DEF Upto
  <1>. QED  BY <1>2

LEMMA FirstOnes ==
    ASSUME NEW m \in Nat \ {0}
    PROVE  Max(1..m) = m /\ (1..m) \ {m} = 1..(m - 1) /\ 1..m # {}
  <1>1. Max(1..m) = m
    BY MaxOfFirst
  <1>2. (1..m) \ {m} = 1..(m - 1)
    OBVIOUS
  <1>. QED  BY <1>1, <1>2

LEMMA UpsertIs ==
    ASSUME NEW f, f = [x \in DOMAIN f |-> f[x]], NEW X, NEW batch \in Seq(X)
    PROVE  Upsert(f, batch) = Upto(f, batch, DOMAIN batch)
  <1>. DEFINE D == DOMAIN batch
              n == Len(batch)
              Step(g) == [s \in SUBSET D |->
                            IF s = {} THEN f
                            ELSE Put(g[s \ {Max(s)}], batch[Max(s)])]
              iter == CHOOSE g : g = Step(g)
  <1>1. Upsert(f, batch) = iter[D]
    BY DEF Upsert, FoldLeft, MapThenFoldSet, Put
  <1>2. n \in Nat /\ D = 1..n
    OBVIOUS
  <1>. DEFINE F == [s \in SUBSET D |-> Upto(f, batch, s)]
  <1>3. F = Step(F)
    <2>1. Upto(f, batch, {}) = f
      BY UptoNone
    <2>2. ASSUME NEW s \in SUBSET D, s # {}
          PROVE  Upto(f, batch, s) = Put(Upto(f, batch, s \ {Max(s)}), batch[Max(s)])
      <3>1. Max(s) \in s /\ \A j \in s : j <= Max(s)
        BY <1>2, <2>2, MaxIs
      <3>. DEFINE m == Max(s)
      <3>2. s \in SUBSET Nat
        BY <1>2
      <3>. HIDE DEF m, n, D
      <3>3. m \in s /\ \A j \in s : j <= m
        BY <3>1 DEF m
      <3>4. Upto(f, batch, s) = Put(Upto(f, batch, s \ {m}), batch[m])
        BY <3>2, <3>3, UptoOneMore
      <3>. QED  BY <3>4 DEF m
    <2>3. \A s \in SUBSET D : s # {} => F[s \ {Max(s)}] = Upto(f, batch, s \ {Max(s)})
      OBVIOUS
    <2>. HIDE DEF D
    <2>4. \A s \in SUBSET D : F[s] = IF s = {} THEN f
                      ELSE Put(F[s \ {Max(s)}], batch[Max(s)])
      BY <2>1, <2>2, <2>3
    <2>. QED  BY <2>4
  <1>4. iter = Step(iter)
    <2>. HIDE DEF Step, F
    <2>. QED  BY <1>3, Zenon
  <1>. HIDE DEF F, iter
  <1>5. iter[{}] = f
    BY <1>4
  <1>6. ASSUME NEW m \in 1..n
        PROVE  iter[1..m] = Put(iter[1..(m - 1)], batch[m])
    <2>. DEFINE s == 1..m
    <2>1. Max(s) = m /\ s \ {m} = 1..(m - 1) /\ s # {} /\ s \in SUBSET D
      <3>1. m \in Nat \ {0}
        BY <1>2
      <3>2. s \in SUBSET D
        BY <1>2
      <3>. HIDE DEF D, n
      <3>. QED  BY <3>1, <3>2, FirstOnes
    <2>. HIDE DEF s, D, n
    <2>2. Step(iter)[s] = Put(iter[s \ {Max(s)}], batch[Max(s)])
      BY <2>1
    <2>3. iter[s] = Put(iter[s \ {Max(s)}], batch[Max(s)])
      BY <1>4, <2>2
    <2>4. iter[s] = Put(iter[1..(m - 1)], batch[m])
      BY <2>1, <2>3
    <2>. QED  BY <2>4 DEF s
  <1>. DEFINE Differ == {k \in 0..n : iter[1..k] # Upto(f, batch, 1..k)}
  <1>7. Differ = {}
    <2>1. SUFFICES ASSUME Differ # {} PROVE FALSE
      OBVIOUS
    <2>2. PICK k \in Differ : \A j \in Differ : k <= j
      <3>1. Differ \in SUBSET Nat
        BY <1>2
      <3>. HIDE DEF Differ
      <3>. QED  BY <2>1, <3>1, LeastNumber
    <2>3. k \in 0..n /\ iter[1..k] # Upto(f, batch, 1..k)
      OBVIOUS
    <2>4. k # 0
      <3>1. 1..0 = {}
        OBVIOUS
      <3>. HIDE DEF n
      <3>. QED  BY <1>5, <2>3, <3>1, UptoNone
    <2>5. k \in 1..n /\ k - 1 \in 0..n /\ k - 1 \notin Differ
      <3>1. k \in 1..n /\ k - 1 \in 0..n /\ ~(k <= k - 1)
        BY <1>2, <2>3, <2>4
      <3>. HIDE DEF Differ
      <3>. QED  BY <2>2, <3>1
    <2>6. iter[1..(k - 1)] = Upto(f, batch, 1..(k - 1))
      BY <2>5
    <2>. DEFINE s == 1..k
    <2>7. s \in SUBSET Nat /\ k \in s /\ \A j \in s : j <= k
      BY <1>2, <2>5
    <2>10. s \ {k} = 1..(k - 1)
      BY <1>2, <2>5
    <2>. HIDE DEF Differ, n, D, s
    <2>8. Upto(f, batch, s) = Put(Upto(f, batch, s \ {k}), batch[k])
      BY <2>7, UptoOneMore
    <2>9. Upto(f, batch, 1..k) = Put(Upto(f, batch, 1..(k - 1)), batch[k])
      BY <2>8, <2>10 DEF s
    <2>. QED  BY <1>6, <2>3, <2>5, <2>6, <2>9
  <1>8. iter[1..n] = Upto(f, batch, 1..n)
    <2>1. n \in 0..n
      BY <1>2
    <2>. QED  BY <1>7, <2>1
  <1>. QED  BY <1>1, <1>2, <1>8

-----------------------------------------------------------------------------
(* The types of the tables and of what an import keeps to itself.          *)
StoreTypes ==
    /\ enterprise \in Schemas
    /\ prod \in Seq(Skus \cup {Nil}) /\ Len(prod) <= MaxProducts
    /\ tab \in [Tables -> [Ids -> Values \cup {Nil}]]
    /\ gallery \in [Values -> Nat]
    /\ rewritten \in [Imports -> SUBSET (Tables \X Ids)]
    /\ failures \in 0..MaxFailures
LocalTypes ==
    /\ rows \in [Imports -> Seq(Rows)]
    /\ looked \in [Imports -> Nat]
    /\ skuToID \in [Imports -> [Skus -> Numbers]]
    /\ toCreate \in [Imports -> Seq(Skus)]
    /\ lastID \in [Imports -> Ids]
    /\ pos \in [Imports -> [Columns -> Nat]]
    /\ runs \in [Imports -> 0..MaxRuns]

(* Before the flush no goroutine runs and nothing is written.              *)
NotYet ==
    \A i \in Imports : pc[i] \in Before =>
        \A c \in Columns : worker[i][c] = "none" /\ pos[i][c] = 0

(* A batch is of some SKUs, and the ids it is given are ids.               *)
InBatch == {"rows", "unsequenced", "lastid"}
LastIdFits ==
    \A i \in Imports :
        /\ pc[i] \in InBatch => toCreate[i] # <<>>
        /\ pc[i] = "lastid" => lastID[i] + Len(Batch(i)) - 1 <= MaxProducts

PosBounded ==
    \A i \in Imports : \A t \in Tables : pos[i][t] <= Cardinality(Good(i, t))

TypeInv == StoreTypes /\ LocalTypes /\ NotYet /\ LastIdFits /\ PosBounded

-----------------------------------------------------------------------------
(* A batch ends after it begins, and not after the rows.                   *)
LEMMA ElementOf ==
    ASSUME NEW X, NEW s \in Seq(X) PROVE \A k \in DOMAIN s : s[k] \in X
  OBVIOUS

LEMMA BatchEndIs ==
    ASSUME NEW k \in Nat, NEW n \in Nat, k <= n
    PROVE  BatchEnd(k, n) \in k..n /\ (k < n => k < BatchEnd(k, n))
  BY ConstantsAssumption DEF BatchEnd

LEMMA WriteEndIs ==
    ASSUME NEW i, NEW c, pos[i][c] \in Nat, Cardinality(Good(i, c)) \in Nat,
           pos[i][c] <= Cardinality(Good(i, c))
    PROVE  WriteEnd(i, c) \in pos[i][c]..Cardinality(Good(i, c))
  BY BatchEndIs DEF WriteEnd

(* What is collected for a column: an id and a value for each good row.    *)
LEMMA GoodIs ==
    ASSUME LocalTypes, NEW i \in Imports, NEW c \in Columns
    PROVE  /\ Len(rows[i]) \in Nat /\ Good(i, c) \in SUBSET (1..Len(rows[i]))
           /\ Cardinality(Good(i, c)) \in Nat
           /\ \A k \in 1..Cardinality(Good(i, c)) : Nth(Good(i, c), k) \in Good(i, c)
           /\ Collected(i, c) \in Seq([id : Ids, value : Values])
           /\ Len(Collected(i, c)) = Cardinality(Good(i, c))
  <1>1. rows[i] \in Seq(Rows) /\ skuToID[i] \in [Skus -> Numbers]
    BY DEF LocalTypes
  <1>2. Len(rows[i]) \in Nat /\ Good(i, c) \in SUBSET (1..Len(rows[i]))
    BY <1>1 DEF Good
  <1>3. /\ Cardinality(Good(i, c)) \in Nat
        /\ \A k \in 1..Cardinality(Good(i, c)) : Nth(Good(i, c), k) \in Good(i, c)
    BY <1>2, NthIs
  <1>4. ASSUME NEW k \in Good(i, c)
        PROVE  [id |-> skuToID[i][rows[i][k].sku], value |-> rows[i][k].cell[c]]
                 \in [id : Ids, value : Values]
    <2>1. rows[i][k] \in Rows
      BY <1>1, <1>2
    <2>2. rows[i][k].sku \in Skus /\ skuToID[i][rows[i][k].sku] \in Ids
      BY <1>1, <1>4, <2>1 DEF Good, Rows, Numbers
    <2>3. rows[i][k].cell[c] \in Values
      BY <1>4, <2>1 DEF Good, Rows
    <2>. QED  BY <2>2, <2>3
  <1>. DEFINE n == Cardinality(Good(i, c))
              el(k) == LET r == rows[i][Nth(Good(i, c), k)]
                       IN [id |-> skuToID[i][r.sku], value |-> r.cell[c]]
  <1>5. \A k \in 1..n : el(k) \in [id : Ids, value : Values]
    BY <1>3, <1>4
  <1>6. Collected(i, c) = [k \in 1..n |-> el(k)]
    BY DEF Collected
  <1>. HIDE DEF n, el
  <1>7. n \in Nat
    BY <1>3 DEF n
  <1>8. Collected(i, c) \in Seq([id : Ids, value : Values]) /\ Len(Collected(i, c)) = n
    BY <1>5, <1>6, <1>7
  <1>. QED  BY <1>2, <1>3, <1>8 DEF n

(* The rows that are looked up, and the SKUs that are missing.             *)
LEMMA NamedIs ==
    ASSUME NEW f \in Seq(Rows)
    PROVE  /\ Named(f) \in Seq(Rows)
           /\ \A k \in DOMAIN f : f[k].sku # Blank => \E x \in DOMAIN Named(f) : Named(f)[x] = f[k]
           /\ \A x \in DOMAIN Named(f) : \E k \in DOMAIN f : Named(f)[x] = f[k] /\ f[k].sku # Blank
  <1>. DEFINE S == {k \in DOMAIN f : f[k].sku # Blank}
  <1>1. S \in SUBSET (1..Len(f)) /\ S \in SUBSET DOMAIN f /\ Len(f) \in Nat
    OBVIOUS
  <1>2. \A k \in S : k \in DOMAIN f /\ f[k].sku # Blank
    OBVIOUS
  <1>3. \A k \in DOMAIN f : f[k].sku # Blank => k \in S
    OBVIOUS
  <1>4. Named(f) = Kept(f, S)
    BY DEF Named
  <1>. HIDE DEF S
  <1>5. /\ Cardinality(S) \in Nat
        /\ \A k \in 1..Cardinality(S) : Nth(S, k) \in S
        /\ \A x \in S : \E k \in 1..Cardinality(S) : Nth(S, k) = x
    BY <1>1, NthIs
  <1>6. /\ Kept(f, S) \in Seq(Rows) /\ Len(Kept(f, S)) = Cardinality(S)
        /\ \A k \in 1..Cardinality(S) : Kept(f, S)[k] = f[Nth(S, k)]
    BY <1>1, KeptIs
  <1>7. DOMAIN Kept(f, S) = 1..Cardinality(S)
    BY <1>6
  <1>. QED  BY <1>2, <1>3, <1>4, <1>5, <1>6, <1>7

LEMMA ToCreateIs ==
    ASSUME LocalTypes, NEW i \in Imports
    PROVE  /\ ToCreate(i) \in Seq(Skus)
           /\ \A k \in New(i) : \E x \in DOMAIN ToCreate(i) : ToCreate(i)[x] = rows[i][k].sku
           /\ \A x \in DOMAIN ToCreate(i) : Nth(New(i), x) \in New(i)
                                            /\ ToCreate(i)[x] = rows[i][Nth(New(i), x)].sku
           /\ \A x, y \in DOMAIN ToCreate(i) : x < y => Nth(New(i), x) < Nth(New(i), y)
           /\ DOMAIN ToCreate(i) \in SUBSET Nat
           /\ \A k \in New(i) : /\ k \in DOMAIN rows[i] /\ rows[i][k].sku \in Skus
                                /\ skuToID[i][rows[i][k].sku] = Nil
  <1>1. rows[i] \in Seq(Rows)
    BY DEF LocalTypes
  <1>2. Len(rows[i]) \in Nat /\ New(i) \in SUBSET (1..Len(rows[i]))
    BY <1>1 DEF New
  <1>3. \A k \in New(i) : /\ k \in DOMAIN rows[i] /\ rows[i][k].sku \in Skus
                          /\ skuToID[i][rows[i][k].sku] = Nil
    <2>. TAKE k \in New(i)
    <2>1. k \in DOMAIN rows[i] /\ rows[i][k].sku # Blank /\ skuToID[i][rows[i][k].sku] = Nil
      BY DEF New
    <2>2. rows[i][k] \in Rows
      BY <1>1, <2>1
    <2>. QED  BY <2>1, <2>2 DEF Rows
  <1>. DEFINE n == Cardinality(New(i))
  <1>4. /\ n \in Nat
        /\ \A k \in 1..n : Nth(New(i), k) \in New(i)
        /\ \A j, k \in 1..n : j < k => Nth(New(i), j) < Nth(New(i), k)
        /\ \A x \in New(i) : \E k \in 1..n : Nth(New(i), k) = x
    BY <1>2, NthIs
  <1>5. ToCreate(i) = [k \in 1..n |-> rows[i][Nth(New(i), k)].sku]
    BY DEF ToCreate
  <1>. HIDE DEF n
  <1>6. \A k \in 1..n : rows[i][Nth(New(i), k)].sku \in Skus
    BY <1>3, <1>4
  <1>7. ToCreate(i) \in Seq(Skus) /\ DOMAIN ToCreate(i) = 1..n
    BY <1>4, <1>5, <1>6
  <1>. QED  BY <1>3, <1>4, <1>5, <1>7

(* Numbering: an SKU of the batch gets the id of a row of it.              *)
LEMMA NumberedIs ==
    ASSUME NEW map, NEW batch \in Seq(Skus), NEW ids, NEW s \in Skus
    PROVE  \/ Numbered(map, batch, ids)[s] = map[s]
           \/ \E k \in DOMAIN batch : batch[k] = s /\ Numbered(map, batch, ids)[s] = ids[k]
  <1>. DEFINE at == {k \in DOMAIN batch : batch[k] = s}
  <1>1. Numbered(map, batch, ids)[s] = IF at = {} THEN map[s] ELSE ids[Greatest(at)]
    BY DEF Numbered
  <1>2. CASE at = {}
    BY <1>1, <1>2
  <1>3. CASE at # {}
    <2>1. at \in SUBSET (1..Len(batch)) /\ Len(batch) \in Nat
      OBVIOUS
    <2>2. Greatest(at) \in at
      <3>. HIDE DEF at
      <3>. QED  BY <1>3, <2>1, GreatestIs
    <2>. QED  BY <1>1, <1>3, <2>2
  <1>. QED  BY <1>2, <1>3

LEMMA NumberedType ==
    ASSUME NEW map \in [Skus -> Numbers], NEW batch \in Seq(Skus), NEW ids,
           \A k \in DOMAIN batch : ids[k] \in Numbers
    PROVE  Numbered(map, batch, ids) \in [Skus -> Numbers]
  <1>1. \A s \in Skus : Numbered(map, batch, ids)[s] \in Numbers
    BY NumberedIs
  <1>2. Numbered(map, batch, ids) = [s \in Skus |-> Numbered(map, batch, ids)[s]]
    BY DEF Numbered
  <1>. QED  BY <1>1, <1>2
-----------------------------------------------------------------------------
(* An upsert writes the last value of each id, and nothing else.           *)
LEMMA UpsertAt ==
    ASSUME NEW f \in [Ids -> Values \cup {Nil}], NEW batch \in Seq([id : Ids, value : Values])
    PROVE  /\ Upsert(f, batch) \in [Ids -> Values \cup {Nil}]
           /\ \A x \in Ids : (\A k \in DOMAIN batch : batch[k].id # x) => Upsert(f, batch)[x] = f[x]
           /\ \A k \in DOMAIN batch :
                 (\A j \in DOMAIN batch : batch[j].id = batch[k].id => j <= k)
                   => Upsert(f, batch)[batch[k].id] = batch[k].value
  <1>. DEFINE At(x) == {k \in DOMAIN batch : batch[k].id = x}
              U == Upsert(f, batch)
  <1>1. U = Upto(f, batch, DOMAIN batch)
    <2>1. f = [x \in DOMAIN f |-> f[x]]
      OBVIOUS
    <2>. QED  BY <2>1, UpsertIs
  <1>2. /\ DOMAIN f = Ids
        /\ U = [x \in Ids |-> IF At(x) = {} THEN f[x] ELSE batch[Greatest(At(x))].value]
    BY <1>1 DEF Upto
  <1>3. Len(batch) \in Nat /\ \A x : At(x) \in SUBSET (1..Len(batch)) /\ At(x) \in SUBSET Nat
    OBVIOUS
  <1>4. \A k \in DOMAIN batch : batch[k].id \in Ids /\ batch[k].value \in Values
    <2>1. \A k \in DOMAIN batch : batch[k] \in [id : Ids, value : Values]
      BY ElementOf
    <2>. QED  BY <2>1
  <1>5. \A x : \A k \in At(x) : k \in DOMAIN batch /\ batch[k].id = x
    OBVIOUS
  <1>6. \A k \in DOMAIN batch : k \in At(batch[k].id)
    OBVIOUS
  <1>. HIDE DEF At
  <1>7. \A x \in Ids : U[x] \in Values \cup {Nil}
    <2>. TAKE x \in Ids
    <2>1. CASE At(x) = {}
      BY <1>2, <2>1
    <2>2. CASE At(x) # {}
      <3>1. Greatest(At(x)) \in At(x)
        BY <1>3, <2>2, GreatestIs
      <3>. QED  BY <1>2, <1>4, <1>5, <2>2, <3>1
    <2>. QED  BY <2>1, <2>2
  <1>8. ASSUME NEW k \in DOMAIN batch, \A j \in DOMAIN batch : batch[j].id = batch[k].id => j <= k
        PROVE  U[batch[k].id] = batch[k].value
    <2>. DEFINE x == batch[k].id
    <2>1. k \in At(x) /\ \A j \in At(x) : j <= k
      BY <1>5, <1>6, <1>8
    <2>2. At(x) # {} /\ At(x) \in SUBSET Nat
      BY <1>3, <2>1
    <2>3. Greatest(At(x)) = k
      <3>. HIDE DEF x
      <3>. QED  BY <2>1, <2>2, GreatestUnique
    <2>. QED  BY <1>2, <1>4, <2>2, <2>3
  <1>9. \A x \in Ids : (\A k \in DOMAIN batch : batch[k].id # x) => U[x] = f[x]
    BY <1>2, <1>5
  <1>10. U \in [Ids -> Values \cup {Nil}]
    <2>. HIDE DEF U
    <2>1. U = [x \in Ids |-> U[x]]
      BY <1>2
    <2>. QED  BY <1>7, <2>1
  <1>. QED  BY <1>8, <1>9, <1>10
-----------------------------------------------------------------------------
LEMMA GoodFinite ==
    LocalTypes => \A i \in Imports : \A c \in Columns : Cardinality(Good(i, c)) \in Nat
  BY GoodIs

(* What is collected changes with the rows and the map, and only while     *)
(* nothing of it is written.                                               *)
LEMMA PosStays ==
    ASSUME TypeInv, LocalTypes',
           \A j \in Imports :
              \/ rows'[j] = rows[j] /\ skuToID'[j] = skuToID[j] /\ pos'[j] = pos[j]
              \/ \A t \in Tables : pos'[j][t] = 0
    PROVE  PosBounded'
  <1>1. \A j \in Imports : \A c \in Columns : Cardinality(Good(j, c)') \in Nat
    <2>1. (LocalTypes => \A i \in Imports : \A c \in Columns : Cardinality(Good(i, c)) \in Nat)'
      BY GoodFinite, PTL
    <2>. QED  BY <2>1
  <1>2. SUFFICES ASSUME NEW j \in Imports, NEW t \in Tables
                 PROVE  pos'[j][t] <= Cardinality(Good(j, t)')
    BY DEF PosBounded
  <1>3. CASE rows'[j] = rows[j] /\ skuToID'[j] = skuToID[j] /\ pos'[j] = pos[j]
    <2>1. Good(j, t)' = Good(j, t)
      BY <1>3 DEF Good
    <2>. QED  BY <1>3, <2>1 DEF TypeInv, PosBounded
  <1>4. CASE \A x \in Tables : pos'[j][x] = 0
    <2>1. t \in Columns
      BY DEF Columns
    <2>. QED  BY <1>1, <1>4, <2>1
  <1>. QED  BY <1>2, <1>3, <1>4

(* Types of the values the steps store.                                    *)
LEMMA Defaults ==
    /\ NoIds \in [Skus -> Numbers]
    /\ EachColumn(0) \in [Columns -> Nat] /\ \A c \in Columns : EachColumn(0)[c] = 0
    /\ <<>> \in Seq(Rows) /\ <<>> \in Seq(Skus) /\ 0 \in Ids /\ 0 \in Numbers
    /\ \A f \in Files : f \in Seq(Rows)
  BY ConstantsAssumption DEF NoIds, Numbers, Ids, EachColumn

LEMMA TypeInit == Init => TypeInv
  <1>. SUFFICES ASSUME Init PROVE TypeInv
    OBVIOUS
  <1>1. prod \in Seq(Skus \cup {Nil}) /\ Len(prod) <= MaxProducts
    <2>1. prod \in Seq(Skus) /\ Len(prod) <= MaxProducts
      BY ConstantsAssumption DEF Init
    <2>. QED  BY <2>1
  <1>2. failures \in 0..MaxFailures /\ \A i \in Imports : runs[i] \in 0..MaxRuns
    BY ConstantsAssumption DEF Init
  <1>3. StoreTypes
    BY <1>1, <1>2 DEF Init, StoreTypes
  <1>4. LocalTypes
    BY <1>2, Defaults DEF Init, LocalTypes
  <1>5. NotYet /\ LastIdFits
    BY DEF Init, NotYet, LastIdFits, InBatch, Before
  <1>6. PosBounded
    BY <1>4, GoodFinite, Defaults DEF Init, PosBounded, Columns
  <1>. QED  BY <1>3, <1>4, <1>5, <1>6 DEF TypeInv

-----------------------------------------------------------------------------
(* Steps that leave the import alone leave what is said of it.             *)
LEMMA LastIdStays ==
    ASSUME TypeInv,
           \A j \in Imports : pc'[j] \in InBatch =>
              pc'[j] = pc[j] /\ toCreate'[j] = toCreate[j] /\ lastID'[j] = lastID[j]
    PROVE  LastIdFits'
  <1>. SUFFICES ASSUME NEW j \in Imports, pc'[j] \in InBatch
                PROVE  /\ toCreate'[j] # <<>>
                       /\ pc'[j] = "lastid" => lastID'[j] + Len(Batch(j)') - 1 <= MaxProducts
    BY DEF LastIdFits, InBatch
  <1>1. pc'[j] = pc[j] /\ toCreate'[j] = toCreate[j] /\ lastID'[j] = lastID[j]
    OBVIOUS
  <1>2. Batch(j)' = Batch(j)
    BY <1>1 DEF Batch, BatchEnd
  <1>. QED  BY <1>1, <1>2 DEF TypeInv, LastIdFits

LEMMA NotYetStays ==
    ASSUME TypeInv,
           \A j \in Imports : pc'[j] \in Before =>
              pc[j] \in Before /\ worker'[j] = worker[j] /\ pos'[j] = pos[j]
    PROVE  NotYet'
  BY DEF TypeInv, NotYet

LEMMA TypeStart ==
    ASSUME FlowInv, TypeInv, NEW i \in Imports, Start(i) PROVE TypeInv'
  <1>1. /\ looked' = [looked EXCEPT ![i] = 0]
        /\ skuToID' = [skuToID EXCEPT ![i] = NoIds]
        /\ toCreate' = [toCreate EXCEPT ![i] = <<>>]
        /\ lastID' = [lastID EXCEPT ![i] = 0]
        /\ worker' = [worker EXCEPT ![i] = EachColumn("none")]
        /\ pos' = [pos EXCEPT ![i] = EachColumn(0)]
        /\ rewritten' = [rewritten EXCEPT ![i] = {}]
        /\ UNCHANGED <<enterprise, prod, tab, gallery>>
    BY DEF Start
  <1>2. \E f \in Seq(Rows) : rows' = [rows EXCEPT ![i] = f]
    BY Defaults DEF Start
  <1>3. pc' = [pc EXCEPT ![i] = "lookup"] \/ (pc' = pc /\ pc[i] = "idle")
    BY DEF Start
  <1>4. runs' \in [Imports -> 0..MaxRuns] /\ failures' \in 0..MaxFailures
    <2>1. runs' = [runs EXCEPT ![i] = @ + 1] /\ runs[i] < MaxRuns
      BY DEF Start
    <2>2. failures' = failures \/ (failures < MaxFailures /\ failures' = failures + 1)
      BY DEF Start
    <2>. QED  BY <2>1, <2>2, ConstantsAssumption DEF TypeInv, StoreTypes, LocalTypes
  <1>5. StoreTypes'
    BY <1>1, <1>4 DEF TypeInv, StoreTypes
  <1>6. LocalTypes'
    BY <1>1, <1>2, <1>4, Defaults DEF TypeInv, LocalTypes
  <1>7. NotYet'
    BY <1>1, <1>3, Defaults DEF TypeInv, NotYet, FlowInv, FlowTypes, LocalTypes, EachColumn
  <1>8. LastIdFits'
    <2>1. \A j \in Imports : pc'[j] \in InBatch =>
              pc'[j] = pc[j] /\ toCreate'[j] = toCreate[j] /\ lastID'[j] = lastID[j]
      BY <1>1, <1>3 DEF FlowInv, FlowTypes, TypeInv, LocalTypes, InBatch
    <2>. QED  BY <2>1, LastIdStays
  <1>9. PosBounded'
    <2>1. \A j \in Imports :
              \/ rows'[j] = rows[j] /\ skuToID'[j] = skuToID[j] /\ pos'[j] = pos[j]
              \/ \A t \in Tables : pos'[j][t] = 0
      BY <1>1, <1>2, Defaults DEF TypeInv, LocalTypes, Columns
    <2>. QED  BY <1>6, <2>1, PosStays
  <1>. QED  BY <1>5, <1>6, <1>7, <1>8, <1>9 DEF TypeInv

LEMMA TypeLookup ==
    ASSUME FlowInv, TypeInv, NEW i \in Imports, Lookup(i), UNCHANGED <<enterprise, rewritten>>
    PROVE  TypeInv'
  <1>. DEFINE names == Named(rows[i])
              end == BatchEnd(looked[i], Len(names))
  <1>1. /\ pc[i] = "lookup"
        /\ UNCHANGED <<prod, tab, gallery, rows, lastID, worker, pos, errs, res, runs>>
    BY DEF Lookup
  <1>2. \/ /\ looked[i] < Len(names)
           /\ looked' = [looked EXCEPT ![i] = end]
           /\ UNCHANGED <<pc, toCreate>>
        \/ /\ pc' = [pc EXCEPT ![i] = "insert"]
           /\ toCreate' = [toCreate EXCEPT ![i] = ToCreate(i)]
           /\ UNCHANGED looked
    BY DEF Lookup
  <1>3. \/ \E m \in [Skus -> Numbers] : skuToID' = [skuToID EXCEPT ![i] = m]
        \/ UNCHANGED skuToID
    BY DEF Lookup, Found
  <1>4. failures' = failures \/ (failures < MaxFailures /\ failures' = failures + 1)
    BY DEF Lookup
  <1>5. looked[i] < Len(names) => end \in Nat
    <2>1. rows[i] \in Seq(Rows) /\ looked[i] \in Nat
      BY DEF TypeInv, LocalTypes
    <2>2. Len(names) \in Nat
      BY <2>1, NamedIs
    <2>. HIDE DEF names
    <2>. DEFINE p == looked[i]
                l == Len(names)
    <2>3. SUFFICES ASSUME p < l PROVE BatchEnd(p, l) \in Nat
      OBVIOUS
    <2>4. p \in Nat /\ l \in Nat /\ p <= l
      BY <2>1, <2>2, <2>3
    <2>. HIDE DEF p, l
    <2>5. BatchEnd(p, l) \in p..l
      BY <2>4, BatchEndIs
    <2>. QED  BY <2>4, <2>5
  <1>. HIDE DEF names, end
  <1>6. StoreTypes'
    BY <1>1, <1>4, ConstantsAssumption DEF TypeInv, StoreTypes
  <1>7. LocalTypes'
    <2>1. looked' \in [Imports -> Nat]
      BY <1>2, <1>5 DEF TypeInv, LocalTypes
    <2>2. ToCreate(i) \in Seq(Skus)
      BY ToCreateIs DEF TypeInv
    <2>3. toCreate' \in [Imports -> Seq(Skus)]
      BY <1>2, <2>2 DEF TypeInv, LocalTypes
    <2>4. skuToID' \in [Imports -> [Skus -> Numbers]]
      BY <1>3 DEF TypeInv, LocalTypes
    <2>. QED  BY <1>1, <2>1, <2>3, <2>4 DEF TypeInv, LocalTypes
  <1>8. \A j \in Imports : pc'[j] \in Before => pc[j] \in Before
    BY <1>1, <1>2 DEF FlowInv, FlowTypes, Before
  <1>9. NotYet'
    BY <1>1, <1>8, NotYetStays
  <1>10. LastIdFits'
    <2>1. \A j \in Imports : pc'[j] \in InBatch =>
              pc'[j] = pc[j] /\ toCreate'[j] = toCreate[j] /\ lastID'[j] = lastID[j]
      BY <1>1, <1>2 DEF FlowInv, FlowTypes, TypeInv, LocalTypes, InBatch
    <2>. QED  BY <2>1, LastIdStays
  <1>11. PosBounded'
    <2>1. \A j \in Imports :
              \/ rows'[j] = rows[j] /\ skuToID'[j] = skuToID[j] /\ pos'[j] = pos[j]
              \/ \A t \in Tables : pos'[j][t] = 0
      BY <1>1, <1>3 DEF TypeInv, LocalTypes, NotYet, Before, Columns
    <2>. QED  BY <1>7, <2>1, PosStays
  <1>. QED  BY <1>6, <1>7, <1>9, <1>10, <1>11 DEF TypeInv

(* The insertion of the entities adds products, and gives their SKUs ids.  *)
LEMMA TypeInsertEntities ==
    ASSUME FlowInv, TypeInv, NEW i \in Imports, InsertEntities(i),
           UNCHANGED <<enterprise, rewritten>>
    PROVE  TypeInv'
  <1>. DEFINE new == toCreate[i]
  <1>1. /\ pc[i] = "insert" /\ Len(prod) + Len(new) <= MaxProducts
        /\ toCreate' = [toCreate EXCEPT ![i] = <<>>]
        /\ pc' = [pc EXCEPT ![i] = "flush"]
        /\ UNCHANGED <<tab, gallery, rows, looked, lastID, pos, errs, res, runs>>
    BY DEF InsertEntities, StartFlush
  <1>2. new \in Seq(Skus) /\ Len(new) \in Nat /\ prod \in Seq(Skus \cup {Nil}) /\ Len(prod) \in Nat
    BY DEF TypeInv, StoreTypes, LocalTypes
  <1>12. \A k \in DOMAIN new : Len(prod) + k \in Ids /\ 0 \in Ids
    BY <1>1, <1>2, ConstantsAssumption DEF Ids
  <1>13. PICK n \in 0..Len(new), ids \in [DOMAIN new -> Ids] :
          /\ prod' = prod \o new \/ prod' = prod \o [k \in 1..n |-> Nil]
          /\ skuToID' = [skuToID EXCEPT ![i] = Numbered(@, new, ids)]
    <2>1. CASE /\ prod' = prod \o new
               /\ skuToID' = [skuToID EXCEPT ![i] = Numbered(@, new,
                                    [k \in DOMAIN new |-> Len(prod) + k])]
      <3>. DEFINE ids == [k \in DOMAIN new |-> Len(prod) + k]
      <3>1. ids \in [DOMAIN new -> Ids] /\ 0 \in 0..Len(new)
        BY <1>2, <1>12
      <3>2. skuToID' = [skuToID EXCEPT ![i] = Numbered(@, new, ids)]
        BY <2>1
      <3>. HIDE DEF ids, new
      <3>. QED  BY <2>1, <3>1, <3>2
    <2>2. ASSUME NEW n \in {k \in 0..(Len(new) - 1) : k % BatchSize = 0},
                 prod' = prod \o [k \in 1..n |-> Nil],
                 skuToID' = [skuToID EXCEPT ![i] = Numbered(@, new,
                                    [k \in DOMAIN new |-> IF k <= n THEN Len(prod) + k ELSE 0])]
          PROVE  \E m \in 0..Len(new), ids \in [DOMAIN new -> Ids] :
                   /\ prod' = prod \o new \/ prod' = prod \o [k \in 1..m |-> Nil]
                   /\ skuToID' = [skuToID EXCEPT ![i] = Numbered(@, new, ids)]
      <3>. DEFINE ids == [k \in DOMAIN new |-> IF k <= n THEN Len(prod) + k ELSE 0]
      <3>1. ids \in [DOMAIN new -> Ids]
        BY <1>12
      <3>2. n \in 0..Len(new)
        BY <1>2
      <3>3. skuToID' = [skuToID EXCEPT ![i] = Numbered(@, new, ids)]
        BY <2>2
      <3>. HIDE DEF ids, new
      <3>. QED  BY <2>2, <3>1, <3>2, <3>3
    <2>. QED  BY <2>1, <2>2 DEF InsertEntities
  <1>3. failures' = failures \/ (failures < MaxFailures /\ failures' = failures + 1)
    BY DEF InsertEntities
  <1>4. prod' \in Seq(Skus \cup {Nil}) /\ Len(prod') <= MaxProducts
    <2>. DEFINE none == [k \in 1..n |-> Nil]
                X == Skus \cup {Nil}
    <2>1. new \in Seq(X)
      BY <1>2
    <2>2. none \in Seq(X) /\ Len(none) = n
      BY <1>13
    <2>3. prod \in Seq(X) /\ Len(prod) \in Nat /\ Len(new) \in Nat /\ n \in 0..Len(new)
      BY <1>2, <1>13
    <2>. HIDE DEF none, new, X
    <2>4. prod \o new \in Seq(X) /\ Len(prod \o new) = Len(prod) + Len(new)
      BY <2>1, <2>3
    <2>5. prod \o none \in Seq(X) /\ Len(prod \o none) = Len(prod) + n
      BY <2>2, <2>3
    <2>6. prod' = prod \o new \/ prod' = prod \o none
      BY <1>13 DEF none, new
    <2>7. prod' \in Seq(X)
      BY <2>4, <2>5, <2>6
    <2>8. Len(prod') <= MaxProducts
      <3>1. Len(prod) + Len(new) <= MaxProducts
        BY <1>1 DEF new
      <3>. QED  BY <2>3, <2>4, <2>5, <2>6, <3>1, ConstantsAssumption
    <2>. QED  BY <2>7, <2>8 DEF X
  <1>5. skuToID' \in [Imports -> [Skus -> Numbers]]
    <2>1. skuToID[i] \in [Skus -> Numbers]
      BY DEF TypeInv, LocalTypes
    <2>2. \A k \in DOMAIN new : ids[k] \in Numbers
      BY <1>13 DEF Numbers
    <2>3. Numbered(skuToID[i], new, ids) \in [Skus -> Numbers]
      <3>. HIDE DEF new
      <3>. QED  BY <1>2, <2>1, <2>2, NumberedType
    <2>. QED  BY <1>13, <2>3 DEF TypeInv, LocalTypes
  <1>6. StoreTypes'
    BY <1>1, <1>3, <1>4, ConstantsAssumption DEF TypeInv, StoreTypes
  <1>7. LocalTypes'
    BY <1>1, <1>5, Defaults DEF TypeInv, LocalTypes
  <1>8. \A j \in Imports : pc'[j] \in Before => pc'[j] = pc[j] /\ j # i
    BY <1>1 DEF FlowInv, FlowTypes, Before
  <1>9. NotYet'
    <2>1. \A j \in Imports : j # i => worker'[j] = worker[j]
      BY DEF InsertEntities, StartFlush, FlowInv, FlowTypes
    <2>. QED  BY <1>1, <1>8, <2>1, NotYetStays
  <1>10. LastIdFits'
    <2>1. \A j \in Imports : pc'[j] \in InBatch =>
              pc'[j] = pc[j] /\ toCreate'[j] = toCreate[j] /\ lastID'[j] = lastID[j]
      BY <1>1, <1>8 DEF TypeInv, LocalTypes, Before, InBatch
    <2>. QED  BY <2>1, LastIdStays
  <1>11. PosBounded'
    <2>1. \A j \in Imports :
              \/ rows'[j] = rows[j] /\ skuToID'[j] = skuToID[j] /\ pos'[j] = pos[j]
              \/ \A t \in Tables : pos'[j][t] = 0
      BY <1>1, <1>13 DEF TypeInv, LocalTypes, NotYet, Before, Columns
    <2>. QED  BY <1>7, <2>1, PosStays
  <1>. QED  BY <1>6, <1>7, <1>9, <1>10, <1>11 DEF TypeInv

-----------------------------------------------------------------------------
(* A batch is the first of what there is to create.                        *)
LEMMA BatchIs ==
    ASSUME LocalTypes, NEW i \in Imports
    PROVE  /\ toCreate[i] \in Seq(Skus) /\ Len(toCreate[i]) \in Nat
           /\ Batch(i) \in Seq(Skus) /\ Len(Batch(i)) \in 0..Len(toCreate[i])
           /\ DOMAIN Batch(i) = 1..Len(Batch(i))
           /\ \A k \in DOMAIN Batch(i) : Batch(i)[k] = toCreate[i][k]
           /\ toCreate[i] # <<>> => Len(Batch(i)) >= 1
  <1>. DEFINE s == toCreate[i]
              e == BatchEnd(0, Len(s))
  <1>1. s \in Seq(Skus) /\ Len(s) \in Nat
    BY DEF LocalTypes
  <1>2. e \in 0..Len(s) /\ (0 < Len(s) => 0 < e)
    <2>. DEFINE l == Len(s)
    <2>1. l \in Nat /\ 0 <= l
      BY <1>1
    <2>. HIDE DEF l
    <2>2. BatchEnd(0, l) \in 0..l /\ (0 < l => 0 < BatchEnd(0, l))
      BY <2>1, BatchEndIs
    <2>. QED  BY <2>2 DEF l
  <1>3. Batch(i) = SubSeq(s, 1, e)
    BY DEF Batch
  <1>4. s # <<>> => 0 < Len(s)
    BY <1>1
  <1>. HIDE DEF e, s
  <1>5. Batch(i) \in Seq(Skus) /\ Len(Batch(i)) = e
    BY <1>1, <1>2, <1>3
  <1>6. \A k \in 1..e : Batch(i)[k] = s[k]
    BY <1>1, <1>2, <1>3
  <1>7. DOMAIN Batch(i) = 1..e
    BY <1>5
  <1>. QED  BY <1>1, <1>2, <1>4, <1>5, <1>6, <1>7 DEF s

(* The steps that only move the import on within a batch, or to the flush. *)
LEMMA TypeMoves ==
    ASSUME FlowInv, TypeInv, NEW i \in Imports, InsertSequence(i) \/ AllInserted(i),
           UNCHANGED <<enterprise, rewritten>>
    PROVE  TypeInv'
  <1>1. /\ pc[i] = "insert"
        /\ UNCHANGED <<prod, tab, gallery, rows, looked, skuToID, toCreate, lastID, pos, runs>>
        /\ \/ pc' = [pc EXCEPT ![i] = "flush"] /\ worker' = [worker EXCEPT ![i] = EachColumn("run")]
           \/ /\ toCreate[i] # <<>> /\ UNCHANGED worker
              /\ \E l \in {"rows", "unsequenced"} : pc' = [pc EXCEPT ![i] = l]
        /\ failures' = failures \/ (failures < MaxFailures /\ failures' = failures + 1)
    BY DEF InsertSequence, AllInserted, StartFlush
  <1>2. StoreTypes' /\ LocalTypes'
    BY <1>1, ConstantsAssumption DEF TypeInv, StoreTypes, LocalTypes
  <1>3. NotYet'
    <2>1. \A j \in Imports : pc'[j] \in Before =>
              pc[j] \in Before /\ worker'[j] = worker[j] /\ pos'[j] = pos[j]
      BY <1>1 DEF FlowInv, FlowTypes, PCs, Before
    <2>. QED  BY <2>1, NotYetStays
  <1>4. LastIdFits'
    <2>. SUFFICES ASSUME NEW j \in Imports, pc'[j] \in InBatch
                  PROVE  /\ toCreate'[j] # <<>>
                         /\ pc'[j] = "lastid" => lastID'[j] + Len(Batch(j)') - 1 <= MaxProducts
      BY DEF LastIdFits, InBatch
    <2>1. Batch(j)' = Batch(j)
      BY <1>1 DEF Batch, BatchEnd
    <2>2. CASE j = i
      BY <1>1, <2>2 DEF FlowInv, FlowTypes, InBatch
    <2>3. CASE j # i
      <3>1. pc'[j] = pc[j]
        BY <1>1, <2>3 DEF FlowInv, FlowTypes
      <3>. QED  BY <1>1, <2>1, <3>1 DEF TypeInv, LastIdFits
    <2>. QED  BY <2>2, <2>3
  <1>5. PosBounded'
    <2>1. \A j \in Imports : rows'[j] = rows[j] /\ skuToID'[j] = skuToID[j] /\ pos'[j] = pos[j]
      BY <1>1
    <2>. QED  BY <1>2, <2>1, PosStays
  <1>. QED  BY <1>2, <1>3, <1>4, <1>5 DEF TypeInv

LEMMA TypeInsertRows ==
    ASSUME FlowInv, TypeInv, NEW i \in Imports, InsertRows(i), UNCHANGED <<enterprise, rewritten>>
    PROVE  TypeInv'
  <1>1. /\ pc[i] \in {"rows", "unsequenced"} /\ Len(prod) + Len(Batch(i)) <= MaxProducts
        /\ pc' = [pc EXCEPT ![i] = "lastid"]
        /\ UNCHANGED <<tab, gallery, rows, looked, skuToID, toCreate, worker, pos, errs, res, runs>>
    BY DEF InsertRows
  <1>2. /\ \/ /\ prod' = prod \o Batch(i)
              /\ lastID' = [lastID EXCEPT ![i] = Len(prod) + 1]
           \/ /\ \E n \in 0..(MaxProducts - Len(Batch(i))) : lastID' = [lastID EXCEPT ![i] = n]
              /\ UNCHANGED prod
        /\ failures' = failures \/ (failures < MaxFailures /\ failures' = failures + 1)
    BY DEF InsertRows
  <1>3. /\ toCreate[i] # <<>>
        /\ toCreate[i] \in Seq(Skus) /\ Batch(i) \in Seq(Skus) /\ Len(Batch(i)) \in Nat
        /\ Len(Batch(i)) >= 1
        /\ prod \in Seq(Skus \cup {Nil}) /\ Len(prod) \in Nat
    BY <1>1, BatchIs DEF TypeInv, StoreTypes, LocalTypes, LastIdFits, InBatch
  <1>4. prod' \in Seq(Skus \cup {Nil}) /\ Len(prod') <= MaxProducts
    <2>. DEFINE X == Skus \cup {Nil}
    <2>1. Batch(i) \in Seq(X) /\ prod \in Seq(X) /\ Len(prod) <= MaxProducts
      BY <1>3 DEF TypeInv, StoreTypes
    <2>. HIDE DEF X
    <2>2. prod \o Batch(i) \in Seq(X) /\ Len(prod \o Batch(i)) = Len(prod) + Len(Batch(i))
      BY <1>3, <2>1
    <2>3. prod' = prod \/ prod' = prod \o Batch(i)
      BY <1>2
    <2>. QED  BY <1>1, <2>1, <2>2, <2>3 DEF X
  <1>5. PICK n \in Ids : /\ lastID' = [lastID EXCEPT ![i] = n]
                         /\ n + Len(Batch(i)) - 1 <= MaxProducts
    <2>1. CASE lastID' = [lastID EXCEPT ![i] = Len(prod) + 1]
      <3>1. Len(prod) + 1 \in Ids /\ Len(prod) + 1 + Len(Batch(i)) - 1 <= MaxProducts
        BY <1>1, <1>3, ConstantsAssumption DEF Ids
      <3>. QED  BY <2>1, <3>1
    <2>2. ASSUME NEW n \in 0..(MaxProducts - Len(Batch(i))), lastID' = [lastID EXCEPT ![i] = n]
          PROVE  n \in Ids /\ n + Len(Batch(i)) - 1 <= MaxProducts
      BY <1>3, ConstantsAssumption DEF Ids
    <2>. QED  BY <1>2, <2>1, <2>2
  <1>6. StoreTypes'
    <2>1. failures' \in 0..MaxFailures
      BY <1>2, ConstantsAssumption DEF TypeInv, StoreTypes
    <2>. QED  BY <1>1, <1>4, <2>1 DEF TypeInv, StoreTypes
  <1>7. LocalTypes'
    <2>1. lastID' \in [Imports -> Ids]
      BY <1>5 DEF TypeInv, LocalTypes
    <2>. QED  BY <1>1, <2>1 DEF TypeInv, LocalTypes
  <1>8. NotYet'
    <2>1. \A j \in Imports : pc'[j] \in Before => pc[j] \in Before /\ worker'[j] = worker[j]
      BY <1>1 DEF FlowInv, FlowTypes, Before
    <2>. QED  BY <1>1, <2>1, NotYetStays
  <1>9. LastIdFits'
    <2>. SUFFICES ASSUME NEW j \in Imports, pc'[j] \in InBatch
                  PROVE  /\ toCreate'[j] # <<>>
                         /\ pc'[j] = "lastid" => lastID'[j] + Len(Batch(j)') - 1 <= MaxProducts
      BY DEF LastIdFits, InBatch
    <2>1. toCreate'[j] = toCreate[j] /\ Batch(j)' = Batch(j)
      BY <1>1 DEF Batch, BatchEnd
    <2>2. CASE j = i
      <3>1. lastID'[i] + Len(Batch(i)) - 1 <= MaxProducts
        BY <1>5 DEF TypeInv, LocalTypes
      <3>. QED  BY <1>3, <2>1, <2>2, <3>1
    <2>3. CASE j # i
      <3>1. pc'[j] = pc[j] /\ lastID'[j] = lastID[j]
        BY <1>1, <1>5, <2>3 DEF FlowInv, FlowTypes, TypeInv, LocalTypes
      <3>. QED  BY <2>1, <3>1 DEF TypeInv, LastIdFits
    <2>. QED  BY <2>2, <2>3
  <1>10. PosBounded'
    <2>1. \A j \in Imports : rows'[j] = rows[j] /\ skuToID'[j] = skuToID[j] /\ pos'[j] = pos[j]
      BY <1>1
    <2>. QED  BY <1>7, <2>1, PosStays
  <1>. QED  BY <1>6, <1>7, <1>8, <1>9, <1>10 DEF TypeInv

LEMMA TypeReadLastInsertID ==
    ASSUME FlowInv, TypeInv, NEW i \in Imports, ReadLastInsertID(i),
           UNCHANGED <<enterprise, rewritten>>
    PROVE  TypeInv'
  <1>1. /\ pc[i] = "lastid"
        /\ toCreate' = [toCreate EXCEPT ![i] = SubSeq(@, Len(Batch(i)) + 1, Len(@))]
        /\ pc' = [pc EXCEPT ![i] = "insert"]
        /\ failures' = failures \/ (failures < MaxFailures /\ failures' = failures + 1)
        /\ UNCHANGED <<prod, tab, gallery, rows, looked, lastID, worker, pos, errs, res, runs>>
    BY DEF ReadLastInsertID
  <1>2. /\ toCreate[i] \in Seq(Skus) /\ Batch(i) \in Seq(Skus) /\ Len(Batch(i)) \in 0..Len(toCreate[i])
        /\ DOMAIN Batch(i) = 1..Len(Batch(i)) /\ Len(toCreate[i]) \in Nat
        /\ lastID[i] + Len(Batch(i)) - 1 <= MaxProducts /\ lastID[i] \in Nat
        /\ Len(Batch(i)) >= 1
    BY <1>1, BatchIs DEF TypeInv, LocalTypes, LastIdFits, InBatch, Ids
  <1>3. PICK first \in {lastID[i], 0} :
          skuToID' = [skuToID EXCEPT ![i] = Numbered(@, Batch(i), [k \in DOMAIN Batch(i) |-> first + k - 1])]
    <2>. DEFINE ids(n) == [k \in DOMAIN Batch(i) |-> n + k - 1]
    <2>1. [k \in DOMAIN Batch(i) |-> k - 1] = ids(0)
      BY <1>2
    <2>2. \/ skuToID' = [skuToID EXCEPT ![i] = Numbered(@, Batch(i), ids(lastID[i]))]
          \/ skuToID' = [skuToID EXCEPT ![i] = Numbered(@, Batch(i), [k \in DOMAIN Batch(i) |-> k - 1])]
      BY DEF ReadLastInsertID
    <2>3. \E first \in {lastID[i], 0} : skuToID' = [skuToID EXCEPT ![i] = Numbered(@, Batch(i), ids(first))]
      <3>. HIDE DEF ids
      <3>. QED  BY <2>1, <2>2
    <2>. QED  BY <2>3
  <1>4. skuToID' \in [Imports -> [Skus -> Numbers]]
    <2>. DEFINE ids == [k \in DOMAIN Batch(i) |-> first + k - 1]
    <2>1. first \in Nat /\ first <= lastID[i]
      BY <1>2, <1>3
    <2>2. \A k \in DOMAIN Batch(i) : first + k - 1 \in Ids
      BY <1>2, <2>1, ConstantsAssumption DEF Ids
    <2>3. \A k \in DOMAIN Batch(i) : ids[k] \in Numbers
      BY <2>2 DEF Numbers
    <2>4. skuToID[i] \in [Skus -> Numbers]
      BY DEF TypeInv, LocalTypes
    <2>. HIDE DEF ids
    <2>5. Numbered(skuToID[i], Batch(i), ids) \in [Skus -> Numbers]
      BY <1>2, <2>3, <2>4, NumberedType
    <2>. QED  BY <1>3, <2>5 DEF TypeInv, LocalTypes, ids
  <1>5. LocalTypes'
    <2>1. SubSeq(toCreate[i], Len(Batch(i)) + 1, Len(toCreate[i])) \in Seq(Skus)
      BY <1>2
    <2>. QED  BY <1>1, <1>4, <2>1 DEF TypeInv, LocalTypes
  <1>6. StoreTypes'
    BY <1>1, ConstantsAssumption DEF TypeInv, StoreTypes
  <1>7. \A j \in Imports : pc'[j] \in Before => pc[j] \in Before
    BY <1>1 DEF FlowInv, FlowTypes, Before
  <1>8. NotYet'
    BY <1>1, <1>7, NotYetStays
  <1>9. LastIdFits'
    <2>1. \A j \in Imports : pc'[j] \in InBatch =>
              pc'[j] = pc[j] /\ toCreate'[j] = toCreate[j] /\ lastID'[j] = lastID[j]
      BY <1>1 DEF FlowInv, FlowTypes, TypeInv, LocalTypes, InBatch
    <2>. QED  BY <2>1, LastIdStays
  <1>10. PosBounded'
    <2>1. \A j \in Imports :
              \/ rows'[j] = rows[j] /\ skuToID'[j] = skuToID[j] /\ pos'[j] = pos[j]
              \/ \A t \in Tables : pos'[j][t] = 0
      BY <1>1, <1>3 DEF TypeInv, LocalTypes, NotYet, Before, Columns
    <2>. QED  BY <1>5, <2>1, PosStays
  <1>. QED  BY <1>5, <1>6, <1>8, <1>9, <1>10 DEF TypeInv

-----------------------------------------------------------------------------
(* The steps that only end a goroutine, report or return keep the types.   *)
LEMMA TypeFrame ==
    ASSUME TypeInv, UNCHANGED <<enterprise, prod, tab, rows, looked, skuToID, toCreate, lastID,
                                pos, rewritten, runs>>,
           gallery' \in [Values -> Nat], failures' \in 0..MaxFailures,
           \A j \in Imports : /\ pc'[j] \in Before => pc'[j] = pc[j] /\ worker'[j] = worker[j]
    PROVE  TypeInv'
  <1>1. StoreTypes' /\ LocalTypes'
    BY DEF TypeInv, StoreTypes, LocalTypes
  <1>2. NotYet'
    BY NotYetStays
  <1>3. LastIdFits'
    <2>1. \A j \in Imports : pc'[j] \in InBatch => pc'[j] = pc[j]
      BY DEF Before, InBatch
    <2>. QED  BY <2>1, LastIdStays
  <1>4. PosBounded'
    BY <1>1, PosStays
  <1>. QED  BY <1>1, <1>2, <1>3, <1>4 DEF TypeInv

(* A table's write: what one batch of it does.                             *)
LEMMA WriteTableIs ==
    ASSUME TypeInv, NEW i \in Imports, NEW c \in Columns, WriteTable(i, c)
    PROVE  LET d == Collected(i, c)
               p == pos[i][c]
               e == WriteEnd(i, c)
           IN /\ c \in Tables /\ worker[i][c] = "run"
              /\ p \in Nat /\ e \in Nat /\ p <= e /\ e <= Len(d)
              /\ Len(d) = Cardinality(Good(i, c)) /\ d \in Seq([id : Ids, value : Values])
              /\ SubSeq(d, p + 1, e) \in Seq([id : Ids, value : Values])
              /\ DOMAIN SubSeq(d, p + 1, e) = 1..(e - p)
              /\ \A k \in 1..(e - p) : SubSeq(d, p + 1, e)[k] = d[p + k]
              /\ tab' = [tab EXCEPT ![c] = Upsert(@, SubSeq(d, p + 1, e))]
              /\ pos' = [pos EXCEPT ![i][c] = e]
              /\ worker' = [worker EXCEPT ![i][c] = IF e < Len(d) THEN "run" ELSE "done"]
              /\ rewritten' = [j \in Imports |->
                    IF j = i THEN rewritten[j] \ {<<c, d[k].id>> : k \in (p + 1)..e}
                    ELSE rewritten[j] \cup {<<c, d[k].id>> : k \in (p + 1)..e}]
              /\ \A k \in 1..Len(d) : d[k].id \in Ids
              /\ UNCHANGED <<prod, gallery, pc, rows, looked, skuToID, toCreate, lastID, errs, res,
                             runs, failures>>
  <1>. DEFINE d == Collected(i, c)
              p == pos[i][c]
              e == WriteEnd(i, c)
              b == SubSeq(d, p + 1, e)
              R == [id : Ids, value : Values]
  <1>1. /\ Cardinality(Good(i, c)) \in Nat /\ d \in Seq(R) /\ Len(d) = Cardinality(Good(i, c))
    BY GoodIs DEF TypeInv
  <1>2. /\ c \in Tables /\ worker[i][c] = "run"
        /\ tab' = [tab EXCEPT ![c] = Upsert(@, b)]
        /\ pos' = [pos EXCEPT ![i][c] = e]
        /\ worker' = [worker EXCEPT ![i][c] = IF e < Cardinality(Good(i, c)) THEN "run" ELSE "done"]
        /\ rewritten' = [j \in Imports |->
                IF j = i THEN rewritten[j] \ {<<c, d[k].id>> : k \in (p + 1)..e}
                ELSE rewritten[j] \cup {<<c, d[k].id>> : k \in (p + 1)..e}]
        /\ UNCHANGED <<prod, gallery, pc, rows, looked, skuToID, toCreate, lastID, errs, res, runs,
                       failures>>
    BY DEF WriteTable
  <1>3. p \in Nat /\ p <= Cardinality(Good(i, c))
    BY <1>2 DEF TypeInv, LocalTypes, PosBounded
  <1>4. e \in p..Cardinality(Good(i, c))
    BY <1>1, <1>3, WriteEndIs
  <1>5. p \in Nat /\ e \in Nat /\ p <= e /\ e <= Len(d)
    BY <1>1, <1>3, <1>4
  <1>6. \A k \in 1..Len(d) : d[k].id \in Ids
    <2>1. \A k \in DOMAIN d : d[k] \in R
      <3>. HIDE DEF R, d
      <3>. QED  BY <1>1, ElementOf
    <2>2. DOMAIN d = 1..Len(d)
      BY <1>1
    <2>. QED  BY <2>1, <2>2
  <1>7. b \in Seq(R) /\ DOMAIN b = 1..(e - p) /\ \A k \in 1..(e - p) : b[k] = d[p + k]
    <2>. HIDE DEF R, d, p, e
    <2>1. \A k \in (p + 1)..e : d[k] \in R
      BY <1>1, <1>5, ElementOf
    <2>2. b = [k \in 1..(e - p) |-> d[p + k]]
      BY <1>1, <1>5
    <2>3. \A k \in 1..(e - p) : d[p + k] \in R
      BY <1>5, <2>1
    <2>4. e - p \in Nat
      BY <1>5
    <2>. HIDE DEF b
    <2>. QED  BY <2>2, <2>3, <2>4
  <1>. HIDE DEF d, p, e, b, R
  <1>. QED  BY <1>1, <1>2, <1>5, <1>6, <1>7 DEF d, p, e, b, R

-----------------------------------------------------------------------------
LEMMA TypeWriteTable ==
    ASSUME FlowInv, TypeInv, NEW i \in Imports, NEW c \in Columns, WriteTable(i, c),
           UNCHANGED enterprise
    PROVE  TypeInv'
  <1>. DEFINE d == Collected(i, c)
              p == pos[i][c]
              e == WriteEnd(i, c)
              b == SubSeq(d, p + 1, e)
              cells == {<<c, d[k].id>> : k \in (p + 1)..e}
  <1>1. /\ c \in Tables /\ worker[i][c] = "run"
        /\ p \in Nat /\ e \in Nat /\ p <= e /\ e <= Len(d) /\ Len(d) = Cardinality(Good(i, c))
        /\ b \in Seq([id : Ids, value : Values])
        /\ tab' = [tab EXCEPT ![c] = Upsert(@, b)]
        /\ pos' = [pos EXCEPT ![i][c] = e]
        /\ worker' = [worker EXCEPT ![i][c] = IF e < Len(d) THEN "run" ELSE "done"]
        /\ rewritten' = [j \in Imports |-> IF j = i THEN rewritten[j] \ cells
                                           ELSE rewritten[j] \cup cells]
        /\ \A k \in 1..Len(d) : d[k].id \in Ids
        /\ UNCHANGED <<prod, gallery, pc, rows, looked, skuToID, toCreate, lastID, errs, res,
                       runs, failures>>
    BY WriteTableIs
  <1>2. cells \in SUBSET (Tables \X Ids)
    <2>1. \A k \in (p + 1)..e : k \in 1..Len(d)
      BY <1>1
    <2>. QED  BY <1>1, <2>1
  <1>. HIDE DEF d, p, e, b, cells
  <1>3. tab' \in [Tables -> [Ids -> Values \cup {Nil}]]
    <2>1. tab[c] \in [Ids -> Values \cup {Nil}]
      BY <1>1 DEF TypeInv, StoreTypes
    <2>2. Upsert(tab[c], b) \in [Ids -> Values \cup {Nil}]
      BY <1>1, <2>1, UpsertAt
    <2>. QED  BY <1>1, <2>2 DEF TypeInv, StoreTypes
  <1>4. rewritten' \in [Imports -> SUBSET (Tables \X Ids)]
    <2>. DEFINE X == Tables \X Ids
    <2>1. \A j \in Imports : rewritten[j] \in SUBSET X
      BY DEF TypeInv, StoreTypes
    <2>2. cells \in SUBSET X
      BY <1>2
    <2>. HIDE DEF X
    <2>3. rewritten' \in [Imports -> SUBSET X]
      BY <1>1, <2>1, <2>2
    <2>. QED  BY <2>3 DEF X
  <1>5. StoreTypes'
    BY <1>1, <1>3, <1>4 DEF TypeInv, StoreTypes
  <1>6. LocalTypes'
    BY <1>1 DEF TypeInv, LocalTypes
  <1>7. pc[i] = "flush"
    BY <1>1 DEF FlowInv, NoWriteAfterReturn
  <1>8. NotYet'
    <2>1. \A j \in Imports : pc'[j] \in Before => pc[j] \in Before /\ j # i
      BY <1>1, <1>7 DEF Before
    <2>2. \A j \in Imports : j # i => worker'[j] = worker[j] /\ pos'[j] = pos[j]
      BY <1>1 DEF TypeInv, LocalTypes, FlowInv, FlowTypes
    <2>. QED  BY <2>1, <2>2, NotYetStays
  <1>9. LastIdFits'
    BY <1>1, LastIdStays
  <1>10. PosBounded'
    <2>. SUFFICES ASSUME NEW j \in Imports, NEW t \in Tables
                  PROVE  pos'[j][t] <= Cardinality(Good(j, t)')
      BY DEF PosBounded
    <2>1. Good(j, t)' = Good(j, t)
      BY <1>1 DEF Good
    <2>2. CASE j = i /\ t = c
      <3>1. pos'[i][c] = e
        BY <1>1 DEF TypeInv, LocalTypes
      <3>. QED  BY <1>1, <2>1, <2>2, <3>1
    <2>3. CASE j # i \/ t # c
      <3>1. pos'[j][t] = pos[j][t]
        BY <1>1, <2>3 DEF TypeInv, LocalTypes, Columns
      <3>. QED  BY <2>1, <3>1 DEF TypeInv, PosBounded
    <2>. QED  BY <2>2, <2>3
  <1>. QED  BY <1>5, <1>6, <1>8, <1>9, <1>10 DEF TypeInv

(* The gallery only grows, by a number of rows.                            *)
LEMMA TypeWriteGallery ==
    ASSUME FlowInv, TypeInv, NEW i \in Imports, WriteGallery(i), UNCHANGED enterprise
    PROVE  TypeInv'
  <1>1. /\ worker[i]["gallery"] = "run"
        /\ gallery' = [v \in Values |-> gallery[v] + Cardinality({s \in Skus : <<s, v>> \in Images(i)})]
        /\ worker' = [worker EXCEPT ![i]["gallery"] = "done"]
        /\ UNCHANGED <<prod, tab, pc, rows, looked, skuToID, toCreate, lastID, pos, errs, res,
                       rewritten, runs, failures>>
    BY DEF WriteGallery
  <1>2. gallery' \in [Values -> Nat]
    <2>1. \A v \in Values : Cardinality({s \in Skus : <<s, v>> \in Images(i)}) \in Nat
      <3>. TAKE v \in Values
      <3>1. IsFiniteSet({s \in Skus : <<s, v>> \in Images(i)})
        <4>1. IsFiniteSet(Skus)
          BY ConstantsAssumption
        <4>2. {s \in Skus : <<s, v>> \in Images(i)} \in SUBSET Skus
          OBVIOUS
        <4>. QED  BY <4>1, <4>2, FS_Subset
      <3>. QED  BY <3>1, FS_CardinalityType
    <2>2. \A v \in Values : gallery[v] \in Nat
      BY DEF TypeInv, StoreTypes
    <2>. QED  BY <1>1, <2>1, <2>2
  <1>3. pc[i] = "flush"
    BY <1>1 DEF FlowInv, NoWriteAfterReturn, Columns
  <1>4. \A j \in Imports : pc'[j] \in Before => pc'[j] = pc[j] /\ worker'[j] = worker[j]
    BY <1>1, <1>3 DEF Before, FlowInv, FlowTypes
  <1>5. failures' \in 0..MaxFailures
    BY <1>1 DEF TypeInv, StoreTypes
  <1>. QED  BY <1>1, <1>2, <1>4, <1>5, TypeFrame

LEMMA TypeWriteFails ==
    ASSUME FlowInv, TypeInv, NEW i \in Imports, NEW c \in Columns, WriteFails(i, c),
           UNCHANGED enterprise
    PROVE  TypeInv'
  <1>1. /\ worker[i][c] = "run"
        /\ failures' = failures \/ (failures < MaxFailures /\ failures' = failures + 1)
        /\ worker' = [worker EXCEPT ![i][c] = "err"]
        /\ UNCHANGED <<prod, tab, gallery, pc, rows, looked, skuToID, toCreate, lastID, pos, errs,
                       res, rewritten, runs>>
    BY DEF WriteFails
  <1>2. pc[i] = "flush"
    BY <1>1 DEF FlowInv, NoWriteAfterReturn
  <1>3. \A j \in Imports : pc'[j] \in Before => pc'[j] = pc[j] /\ worker'[j] = worker[j]
    BY <1>1, <1>2 DEF Before, FlowInv, FlowTypes
  <1>4. failures' \in 0..MaxFailures
    BY <1>1, ConstantsAssumption DEF TypeInv, StoreTypes
  <1>5. gallery' \in [Values -> Nat]
    BY <1>1 DEF TypeInv, StoreTypes
  <1>. QED  BY <1>1, <1>3, <1>4, <1>5, TypeFrame

LEMMA TypeJoin ==
    ASSUME FlowInv, TypeInv, NEW i \in Imports, Join(i), UNCHANGED <<enterprise, rewritten>>
    PROVE  TypeInv'
  <1>1. /\ pc' = [pc EXCEPT ![i] = "idle"]
        /\ UNCHANGED <<prod, tab, gallery, rows, looked, skuToID, toCreate, lastID, worker, pos,
                       errs, runs, failures>>
    BY DEF Join
  <1>2. \A j \in Imports : pc'[j] \in Before => pc'[j] = pc[j]
    BY <1>1 DEF Before, FlowInv, FlowTypes
  <1>3. gallery' \in [Values -> Nat] /\ failures' \in 0..MaxFailures
    BY <1>1 DEF TypeInv, StoreTypes
  <1>. QED  BY <1>1, <1>2, <1>3, TypeFrame

LEMMA TypeNext == FlowInv /\ TypeInv /\ [Next]_vars => TypeInv'
  <1>. SUFFICES ASSUME FlowInv, TypeInv, [Next]_vars PROVE TypeInv'
    OBVIOUS
  <1>1. ASSUME NEW i \in Imports, Main(i) PROVE TypeInv'
    BY <1>1, TypeLookup, TypeInsertEntities, TypeMoves, TypeInsertRows, TypeReadLastInsertID, TypeJoin
    DEF Main
  <1>2. ASSUME NEW i \in Imports, NEW c \in Columns, Write(i, c) PROVE TypeInv'
    BY <1>2, TypeWriteTable, TypeWriteGallery, TypeWriteFails DEF Write
  <1>3. ASSUME NEW i \in Imports, NEW m \in Modules, Send(i, m) PROVE TypeInv'
    <2>1. UNCHANGED <<enterprise, prod, tab, gallery, pc, rows, looked, skuToID, toCreate, lastID,
                      worker, pos, res, rewritten, runs, failures>>
      BY <1>3 DEF Send
    <2>2. gallery' \in [Values -> Nat] /\ failures' \in 0..MaxFailures
      BY <2>1 DEF TypeInv, StoreTypes
    <2>. QED  BY <2>1, <2>2, TypeFrame
  <1>4. CASE UNCHANGED vars
    <2>1. gallery' \in [Values -> Nat] /\ failures' \in 0..MaxFailures
      BY <1>4 DEF TypeInv, StoreTypes, vars
    <2>. QED  BY <1>4, <2>1, TypeFrame DEF vars, local
  <1>. QED  BY <1>1, <1>2, <1>3, <1>4, TypeStart DEF Next, GoOn

LEMMA Typed == Spec => []TypeInv
  BY TypeInit, TypeNext, Flow, PTL DEF Spec

(* The SKUs of rows are SKUs, and so are those the ghosts collect.         *)
GhostTypes ==
    /\ uncreated \in [Imports -> SUBSET Skus] /\ misread \in [Imports -> SUBSET Skus]
    /\ doubtful \in SUBSET Skus

LEMMA SkusOfIs ==
    ASSUME NEW f \in Seq(Rows) PROVE SkusOf(f) \in SUBSET Skus
  <1>1. \A k \in DOMAIN f : f[k] \in Rows
    BY ElementOf
  <1>. QED  BY <1>1 DEF SkusOf, Rows

LEMMA GhostsAre ==
    ASSUME LocalTypes, GhostTypes, NEW i \in Imports
    PROVE  /\ uncreated[i] \in SUBSET Skus /\ misread[i] \in SUBSET Skus
           /\ Range(Batch(i)) \in SUBSET Skus /\ Range(toCreate[i]) \in SUBSET Skus
  <1>1. \A k \in DOMAIN Batch(i) : Batch(i)[k] \in Skus
    BY BatchIs, ElementOf
  <1>2. \A k \in DOMAIN toCreate[i] : toCreate[i][k] \in Skus
    BY ElementOf DEF LocalTypes
  <1>. QED  BY <1>1, <1>2 DEF GhostTypes, Range

LEMMA GhostNext == TypeInv /\ GhostTypes /\ [Next]_vars => GhostTypes'
  <1>. SUFFICES ASSUME TypeInv, GhostTypes, [Next]_vars PROVE GhostTypes'
    OBVIOUS
  <1>1. ASSUME NEW i \in Imports, Start(i) PROVE GhostTypes'
    <2>1. /\ uncreated' = [uncreated EXCEPT ![i] = {}] /\ misread' = [misread EXCEPT ![i] = {}]
          /\ \/ \E f \in Files : doubtful' = doubtful \cup Unclear(f) \cup Shared(i, f)
             \/ doubtful' = doubtful
      BY <1>1 DEF Start
    <2>2. \A f \in Files : Unclear(f) \in SUBSET Skus /\ Shared(i, f) \in SUBSET Skus
      BY SkusOfIs, Defaults DEF Unclear, Shared
    <2>. QED  BY <2>1, <2>2 DEF GhostTypes
  <1>2. ASSUME NEW i \in Imports, Lookup(i) PROVE GhostTypes'
    <2>. DEFINE names == Named(rows[i])
                batch == SubSeq(names, looked[i] + 1, BatchEnd(looked[i], Len(names)))
    <2>1. /\ UNCHANGED <<uncreated, misread>>
          /\ doubtful' = doubtful \/ (looked[i] < Len(names) /\ doubtful' = doubtful \cup SkusOf(batch))
      BY <1>2 DEF Lookup
    <2>2. looked[i] < Len(names) => batch \in Seq(Rows)
      <3>1. names \in Seq(Rows) /\ looked[i] \in Nat
        BY NamedIs DEF TypeInv, LocalTypes
      <3>. HIDE DEF names
      <3>2. looked[i] < Len(names) => BatchEnd(looked[i], Len(names)) \in looked[i]..Len(names)
        <4>. DEFINE p == looked[i]
                    l == Len(names)
        <4>1. SUFFICES ASSUME p < l PROVE BatchEnd(p, l) \in p..l
          OBVIOUS
        <4>2. p \in Nat /\ l \in Nat /\ p <= l
          BY <3>1, <4>1
        <4>. HIDE DEF p, l
        <4>. QED  BY <4>2, BatchEndIs
      <3>. QED  BY <3>1, <3>2
    <2>3. looked[i] < Len(names) => SkusOf(batch) \in SUBSET Skus
      <3>. HIDE DEF batch
      <3>. QED  BY <2>2, SkusOfIs
    <2>. HIDE DEF batch, names
    <2>. QED  BY <2>1, <2>3 DEF GhostTypes
  <1>3. ASSUME NEW i \in Imports,
               InsertEntities(i) \/ InsertSequence(i) \/ InsertRows(i) \/ ReadLastInsertID(i)
                 \/ AllInserted(i) \/ Join(i)
        PROVE GhostTypes'
    <2>1. /\ UNCHANGED doubtful
          /\ \/ UNCHANGED uncreated
             \/ uncreated' = [uncreated EXCEPT ![i] = @ \cup Range(Batch(i))]
             \/ uncreated' = [uncreated EXCEPT ![i] = @ \cup Range(toCreate[i])]
          /\ misread' = misread \/ misread' = [misread EXCEPT ![i] = @ \cup Range(Batch(i))]
      BY <1>3 DEF InsertEntities, InsertSequence, InsertRows, ReadLastInsertID, AllInserted, Join, created
    <2>. QED  BY <2>1, GhostsAre DEF GhostTypes, TypeInv
  <1>4. CASE UNCHANGED created
    BY <1>4 DEF GhostTypes, created
  <1>. QED  BY <1>1, <1>2, <1>3, <1>4 DEF Next, GoOn, Main, Write, Send, vars, created

LEMMA Ghosts == Spec => []GhostTypes
  <1>1. Init => GhostTypes
    BY DEF Init, GhostTypes, Twice
  <1>. QED  BY <1>1, GhostNext, Typed, PTL DEF Spec

(* The tables, the maps and the positions have their types whatever the    *)
(* imports, files and failures; and no goroutine writes past the end.      *)
THEOREM ImportTypeCorrect == Spec => []TypeOK
  <1>1. FlowInv /\ TypeInv /\ GhostTypes => TypeOK
    <2>. SUFFICES ASSUME FlowInv, TypeInv, GhostTypes PROVE TypeOK
      OBVIOUS
    <2>1. \A i \in Imports : \A t \in Tables : pos[i][t] <= Len(Collected(i, t))
      BY GoodIs DEF TypeInv, PosBounded, Columns
    <2>. QED  BY <2>1 DEF TypeOK, FlowInv, FlowTypes, PCs, TypeInv, StoreTypes, LocalTypes, GhostTypes
  <1>. QED  BY <1>1, Flow, Typed, Ghosts, PTL

-----------------------------------------------------------------------------
(* Of what a table has written, the last value of each id is in the table, *)
(* unless another import has written it since.                             *)
Held(i, t, k) ==
    LET d == Collected(i, t)
    IN tab[t][d[k].id] = d[k].value \/ <<t, d[k].id>> \in rewritten[i]
LastOf(d, n, k) == \A j \in 1..n : d[j].id = d[k].id => j <= k

PrefixHeld ==
    \A i \in Imports : \A t \in Tables : \A k \in 1..pos[i][t] :
        LastOf(Collected(i, t), pos[i][t], k) => Held(i, t, k)

(* A goroutine that ended well has written everything.                     *)
DoneIsAll ==
    \A i \in Imports : \A t \in Tables :
        worker[i][t] = "done" => pos[i][t] = Cardinality(Good(i, t))

WriteInv == PrefixHeld /\ DoneIsAll

-----------------------------------------------------------------------------
LEMMA WriteInit == Init => WriteInv
  BY SMT DEF Init, WriteInv, PrefixHeld, DoneIsAll, EachColumn, Columns

(* Steps that write no table.                                              *)
LEMMA WriteFrame ==
    ASSUME WriteInv, UNCHANGED tab,
           \A j \in Imports : rewritten'[j] = rewritten[j] \/ \A t \in Tables : pos'[j][t] = 0,
           \A j \in Imports : \A t \in Tables : worker'[j][t] = "done" =>
              worker[j][t] = "done" /\ rows'[j] = rows[j] /\ skuToID'[j] = skuToID[j]
              /\ pos'[j] = pos[j],
           \A j \in Imports :
              \/ rows'[j] = rows[j] /\ skuToID'[j] = skuToID[j] /\ pos'[j] = pos[j]
              \/ \A t \in Tables : pos'[j][t] = 0
    PROVE  WriteInv'
  <1>1. \A j \in Imports : rows'[j] = rows[j] /\ skuToID'[j] = skuToID[j] =>
           \A t \in Tables : Good(j, t)' = Good(j, t) /\ Collected(j, t)' = Collected(j, t)
    BY DEF Good, Collected
  <1>2. PrefixHeld'
    <2>. SUFFICES ASSUME NEW j \in Imports, NEW t \in Tables, NEW k \in 1..pos'[j][t],
                         LastOf(Collected(j, t)', pos'[j][t], k)
                  PROVE  Held(j, t, k)'
      BY DEF PrefixHeld, LastOf
    <2>1. pos'[j][t] # 0
      OBVIOUS
    <2>2. rows'[j] = rows[j] /\ skuToID'[j] = skuToID[j] /\ pos'[j] = pos[j]
      BY <2>1
    <2>3. rewritten'[j] = rewritten[j]
      BY <2>1
    <2>4. Collected(j, t)' = Collected(j, t)
      BY <1>1, <2>2
    <2>5. Held(j, t, k)
      BY <2>2, <2>4 DEF WriteInv, PrefixHeld
    <2>. QED  BY <2>3, <2>4, <2>5 DEF Held
  <1>3. DoneIsAll'
    <2>. SUFFICES ASSUME NEW j \in Imports, NEW t \in Tables, worker'[j][t] = "done"
                  PROVE  pos'[j][t] = Cardinality(Good(j, t)')
      BY DEF DoneIsAll
    <2>1. worker[j][t] = "done" /\ pos'[j] = pos[j] /\ Good(j, t)' = Good(j, t)
      BY <1>1
    <2>. QED  BY <2>1 DEF WriteInv, DoneIsAll
  <1>. QED  BY <1>2, <1>3 DEF WriteInv

(* One batch: its last values are in the table, the earlier ones remain    *)
(* unless the batch has their id, and other imports are told.              *)
LEMMA WriteWriteTable ==
    ASSUME TypeInv, FlowInv, WriteInv, NEW i \in Imports, NEW c \in Columns, WriteTable(i, c)
    PROVE  WriteInv'
  <1>. DEFINE d == Collected(i, c)
              p == pos[i][c]
              e == WriteEnd(i, c)
              b == SubSeq(d, p + 1, e)
              cells == {<<c, d[k].id>> : k \in (p + 1)..e}
  <1>1. /\ c \in Tables
        /\ p \in Nat /\ e \in Nat /\ p <= e /\ e <= Len(d) /\ Len(d) = Cardinality(Good(i, c))
        /\ b \in Seq([id : Ids, value : Values]) /\ DOMAIN b = 1..(e - p)
        /\ \A k \in 1..(e - p) : b[k] = d[p + k]
        /\ tab' = [tab EXCEPT ![c] = Upsert(@, b)]
        /\ pos' = [pos EXCEPT ![i][c] = e]
        /\ worker' = [worker EXCEPT ![i][c] = IF e < Len(d) THEN "run" ELSE "done"]
        /\ rewritten' = [j \in Imports |-> IF j = i THEN rewritten[j] \ cells
                                           ELSE rewritten[j] \cup cells]
        /\ \A k \in 1..Len(d) : d[k].id \in Ids
        /\ UNCHANGED <<rows, skuToID>>
    BY WriteTableIs
  <1>2. \A j \in Imports : \A t \in Tables :
           Good(j, t)' = Good(j, t) /\ Collected(j, t)' = Collected(j, t)
    <2>1. UNCHANGED <<rows, skuToID>>
      BY <1>1
    <2>. QED  BY <2>1 DEF Good, Collected
  <1>3. \A x : x[1] # c => x \notin cells
    OBVIOUS
  <1>4. \A x : <<c, x>> \in cells <=> \E k \in (p + 1)..e : d[k].id = x
    OBVIOUS
  <1>5. /\ DOMAIN tab = Tables /\ tab[c] \in [Ids -> Values \cup {Nil}]
        /\ DOMAIN pos = Imports /\ pos[i] \in [Columns -> Nat]
        /\ worker \in [Imports -> [Columns -> {"none", "run", "done", "err"}]]
    BY <1>1 DEF TypeInv, StoreTypes, LocalTypes, FlowInv, FlowTypes
  <1>. DEFINE U == Upsert(tab[c], b)
  <1>6. /\ \A x \in Ids : (\A k \in DOMAIN b : b[k].id # x) => U[x] = tab[c][x]
        /\ \A k \in DOMAIN b :
              (\A j \in DOMAIN b : b[j].id = b[k].id => j <= k) => U[b[k].id] = b[k].value
    <2>. HIDE DEF b
    <2>. QED  BY <1>1, <1>5, UpsertAt
  <1>7. tab'[c] = U /\ (\A t \in Tables : t # c => tab'[t] = tab[t])
    BY <1>1, <1>5
  <1>8. pos'[i][c] = e /\ \A j \in Imports : \A t \in Tables : j # i \/ t # c => pos'[j][t] = pos[j][t]
    BY <1>1, <1>5 DEF Columns
  <1>. HIDE DEF d, p, e, b, cells, U
  <1>9. ASSUME NEW x \in Ids, <<c, x>> \notin cells PROVE U[x] = tab[c][x]
    <2>1. \A k \in DOMAIN b : b[k].id # x
      <3>. SUFFICES ASSUME NEW k \in 1..(e - p) PROVE b[k].id # x
        BY <1>1
      <3>1. p + k \in (p + 1)..e /\ b[k] = d[p + k]
        BY <1>1
      <3>. QED  BY <1>4, <1>9, <3>1
    <2>. QED  BY <1>6, <2>1
  <1>10. ASSUME NEW k \in (p + 1)..e, LastOf(d, e, k) PROVE U[d[k].id] = d[k].value
    <2>. DEFINE x == k - p
    <2>1. x \in 1..(e - p) /\ p + x = k
      BY <1>1
    <2>2. b[x] = d[k]
      BY <1>1, <2>1
    <2>. HIDE DEF x
    <2>3. \A j \in DOMAIN b : b[j].id = b[x].id => j <= x
      <3>. SUFFICES ASSUME NEW j \in 1..(e - p), b[j].id = b[x].id PROVE j <= x
        BY <1>1
      <3>1. p + j \in 1..e /\ d[p + j].id = d[k].id
        BY <1>1, <2>2
      <3>2. p + j <= k
        BY <1>10, <3>1 DEF LastOf
      <3>. QED  BY <1>1, <2>1, <3>2
    <2>4. U[b[x].id] = b[x].value
      BY <1>1, <1>6, <2>1, <2>3
    <2>. QED  BY <2>2, <2>4
  <1>11. ASSUME NEW j \in Imports, NEW t \in Tables, NEW k \in 1..pos'[j][t],
                LastOf(Collected(j, t), pos'[j][t], k)
         PROVE  Held(j, t, k)'
    <2>. DEFINE D == Collected(j, t)
                x == D[k].id
    <2>. SUFFICES tab'[t][x] = D[k].value \/ <<t, x>> \in rewritten'[j]
      BY <1>2 DEF Held
    <2>1. CASE j = i /\ t = c
      <3>1. D = d /\ k \in 1..e /\ LastOf(d, e, k) /\ x \in Ids
        BY <1>1, <1>8, <1>11, <2>1 DEF d
      <3>2. CASE k \in (p + 1)..e
        BY <1>7, <1>10, <2>1, <3>1, <3>2
      <3>3. CASE k \in 1..p
        <4>1. LastOf(d, p, k)
          BY <1>1, <3>1 DEF LastOf
        <4>2. tab[c][x] = d[k].value \/ <<c, x>> \in rewritten[i]
          BY <2>1, <3>1, <3>3, <4>1 DEF WriteInv, PrefixHeld, Held, d, p
        <4>3. <<c, x>> \notin cells
          <5>1. \A m \in (p + 1)..e : m \in 1..e /\ ~(m <= k)
            BY <1>1, <3>3
          <5>2. \A m \in (p + 1)..e : d[m].id # x
            BY <3>1, <5>1 DEF LastOf
          <5>. QED  BY <1>4, <5>2
        <4>4. tab'[c][x] = tab[c][x]
          BY <1>7, <1>9, <3>1, <4>3
        <4>5. <<c, x>> \in rewritten[i] => <<c, x>> \in rewritten'[i]
          BY <1>1, <4>3
        <4>. QED  BY <2>1, <3>1, <4>2, <4>4, <4>5
      <3>4. k \in (p + 1)..e \/ k \in 1..p
        BY <1>1, <3>1
      <3>. QED  BY <3>2, <3>3, <3>4
    <2>2. CASE j # i \/ t # c
      <3>1. pos'[j][t] = pos[j][t]
        BY <1>8, <2>2
      <3>2. tab[t][x] = D[k].value \/ <<t, x>> \in rewritten[j]
        BY <1>11, <3>1 DEF WriteInv, PrefixHeld, Held
      <3>3. <<t, x>> \in rewritten[j] => <<t, x>> \in rewritten'[j]
        BY <1>1, <1>3, <2>2
      <3>4. x \in Ids
        <4>1. t \in Columns /\ pos[j][t] \in Nat /\ pos[j][t] <= Cardinality(Good(j, t))
          BY DEF TypeInv, LocalTypes, PosBounded, Columns
        <4>2. D \in Seq([id : Ids, value : Values]) /\ Len(D) = Cardinality(Good(j, t))
              /\ Cardinality(Good(j, t)) \in Nat
          BY <4>1, GoodIs DEF TypeInv
        <4>3. k \in 1..Len(D)
          BY <3>1, <4>1, <4>2
        <4>4. D[k] \in [id : Ids, value : Values]
          <5>. HIDE DEF D
          <5>1. k \in DOMAIN D
            BY <4>2, <4>3
          <5>. QED  BY <4>2, <5>1, ElementOf
        <4>. QED  BY <4>4
      <3>5. tab'[t][x] = tab[t][x] \/ (t = c /\ <<c, x>> \in cells)
        BY <1>7, <1>9, <3>4
      <3>6. t = c /\ <<c, x>> \in cells => <<t, x>> \in rewritten'[j]
        BY <1>1, <2>2
      <3>. QED  BY <3>2, <3>3, <3>5, <3>6
    <2>. QED  BY <2>1, <2>2
  <1>12. PrefixHeld'
    BY <1>2, <1>11 DEF PrefixHeld, LastOf
  <1>13. DoneIsAll'
    <2>. SUFFICES ASSUME NEW j \in Imports, NEW t \in Tables, worker'[j][t] = "done"
                  PROVE  pos'[j][t] = Cardinality(Good(j, t))
      BY <1>2 DEF DoneIsAll
    <2>1. CASE j = i /\ t = c
      <3>1. worker'[i][c] = IF e < Len(d) THEN "run" ELSE "done"
        BY <1>1, <1>5
      <3>. QED  BY <1>1, <1>8, <2>1, <3>1
    <2>2. CASE j # i \/ t # c
      <3>1. worker[j][t] = "done"
        BY <1>1, <1>5, <2>2 DEF Columns
      <3>. QED  BY <1>8, <2>2, <3>1 DEF WriteInv, DoneIsAll
    <2>. QED  BY <2>1, <2>2
  <1>. QED  BY <1>12, <1>13 DEF WriteInv

LEMMA WriteNext == FlowInv /\ TypeInv /\ WriteInv /\ [Next]_vars => WriteInv'
  <1>. SUFFICES ASSUME FlowInv, TypeInv, WriteInv, [Next]_vars PROVE WriteInv'
    OBVIOUS
  <1>1. ASSUME NEW i \in Imports, Start(i) PROVE WriteInv'
    <2>1. /\ worker' = [worker EXCEPT ![i] = EachColumn("none")]
          /\ pos' = [pos EXCEPT ![i] = EachColumn(0)]
          /\ skuToID' = [skuToID EXCEPT ![i] = NoIds]
          /\ rewritten' = [rewritten EXCEPT ![i] = {}]
          /\ UNCHANGED tab
          /\ \E f : rows' = [rows EXCEPT ![i] = f]
      BY <1>1 DEF Start
    <2>2. \A j \in Imports : j # i => /\ rows'[j] = rows[j] /\ skuToID'[j] = skuToID[j]
                                     /\ pos'[j] = pos[j] /\ worker'[j] = worker[j]
                                     /\ rewritten'[j] = rewritten[j]
      BY <2>1 DEF TypeInv, StoreTypes, LocalTypes, FlowInv, FlowTypes
    <2>3. \A t \in Tables : pos'[i][t] = 0 /\ worker'[i][t] = "none"
      BY <2>1, Defaults DEF TypeInv, LocalTypes, FlowInv, FlowTypes, Columns, EachColumn
    <2>. QED  BY <2>1, <2>2, <2>3, WriteFrame
  <1>2. ASSUME NEW i \in Imports,
               \/ Lookup(i) \/ InsertEntities(i) \/ InsertSequence(i) \/ InsertRows(i)
               \/ ReadLastInsertID(i) \/ AllInserted(i),
               UNCHANGED rewritten
        PROVE  WriteInv'
    <2>1. /\ pc[i] \in Before /\ UNCHANGED <<tab, rows, pos>>
          /\ worker' = worker \/ worker' = [worker EXCEPT ![i] = EachColumn("run")]
          /\ skuToID' = skuToID \/ \E m : skuToID' = [skuToID EXCEPT ![i] = m]
      <3>1. CASE Lookup(i)
        BY <3>1 DEF Lookup, Before
      <3>2. CASE InsertEntities(i)
        <4>1. \E m : skuToID' = [skuToID EXCEPT ![i] = m]
          BY <3>2 DEF InsertEntities
        <4>. QED  BY <3>2, <4>1 DEF InsertEntities, StartFlush, Before
      <3>3. CASE InsertSequence(i) \/ InsertRows(i) \/ AllInserted(i)
        BY <3>3 DEF InsertSequence, InsertRows, AllInserted, StartFlush, Before
      <3>4. CASE ReadLastInsertID(i)
        <4>1. \E m : skuToID' = [skuToID EXCEPT ![i] = m]
          BY <3>4 DEF ReadLastInsertID
        <4>. QED  BY <3>4, <4>1 DEF ReadLastInsertID, Before
      <3>. QED  BY <1>2, <3>1, <3>2, <3>3, <3>4
    <2>2. \A t \in Tables : pos'[i][t] = 0 /\ worker'[i][t] \in {"none", "run"}
      BY <2>1 DEF TypeInv, NotYet, Before, Columns, FlowInv, FlowTypes, EachColumn
    <2>3. \A j \in Imports : j # i => skuToID'[j] = skuToID[j] /\ worker'[j] = worker[j]
      BY <2>1 DEF TypeInv, LocalTypes, FlowInv, FlowTypes
    <2>. QED  BY <1>2, <2>1, <2>2, <2>3, WriteFrame
  <1>3. ASSUME NEW i \in Imports, Join(i), UNCHANGED rewritten PROVE WriteInv'
    <2>1. UNCHANGED <<tab, rows, skuToID, pos, worker>>
      BY <1>3 DEF Join
    <2>. QED  BY <1>3, <2>1, WriteFrame
  <1>4. ASSUME NEW i \in Imports, Main(i) PROVE WriteInv'
    BY <1>2, <1>3, <1>4 DEF Main
  <1>5. ASSUME NEW i \in Imports, NEW c \in Columns,
               (c = "gallery" /\ WriteGallery(i)) \/ WriteFails(i, c)
        PROVE  WriteInv'
    <2>1. UNCHANGED <<tab, rows, skuToID, pos, rewritten>>
      BY <1>5 DEF WriteGallery, WriteFails
    <2>2. worker' = [worker EXCEPT ![i]["gallery"] = "done"]
          \/ worker' = [worker EXCEPT ![i][c] = "err"]
      BY <1>5 DEF WriteGallery, WriteFails
    <2>3. "gallery" \notin Tables
      BY ConstantsAssumption DEF Tables
    <2>4. \A j \in Imports : \A t \in Tables : worker'[j][t] = "done" => worker[j][t] = "done"
      <3>1. \A t \in Tables : t \in Columns /\ t # "gallery"
        BY <2>3 DEF Columns
      <3>2. worker \in [Imports -> [Columns -> {"none", "run", "done", "err"}]]
        BY DEF FlowInv, FlowTypes
      <3>3. "done" # "err"
        OBVIOUS
      <3>. QED  BY <2>2, <3>1, <3>2, <3>3
    <2>. QED  BY <2>1, <2>4, WriteFrame
  <1>6. ASSUME NEW i \in Imports, NEW c \in Columns, Write(i, c) PROVE WriteInv'
    BY <1>5, <1>6, WriteWriteTable DEF Write
  <1>7. ASSUME NEW i \in Imports, NEW m \in Modules, Send(i, m) PROVE WriteInv'
    <2>1. UNCHANGED <<tab, rows, skuToID, pos, worker, rewritten>>
      BY <1>7 DEF Send
    <2>. QED  BY <2>1, WriteFrame
  <1>8. CASE UNCHANGED vars
    BY <1>8, WriteFrame DEF vars, local
  <1>. QED  BY <1>1, <1>4, <1>6, <1>7, <1>8 DEF Next, GoOn

(* When an import ends well, the tables hold the last value the file gives *)
(* each SKU, however the goroutines and their batches interleave, and      *)
(* whatever other imports do to other cells.                               *)
THEOREM TheLastValueWins == Spec => []LastValueWins
  <1>1. FlowInv /\ TypeInv /\ WriteInv => LastValueWins
    <2>. SUFFICES ASSUME FlowInv, TypeInv, WriteInv, NEW i \in Imports, res[i] = "ok",
                         NEW t \in Tables, NEW k \in DOMAIN Collected(i, t),
                         \A j \in DOMAIN Collected(i, t) :
                            Collected(i, t)[j].id = Collected(i, t)[k].id => j <= k
                  PROVE  Held(i, t, k)
      BY DEF LastValueWins, Held
    <2>1. t \in Columns /\ worker[i][t] = "done"
      BY DEF FlowInv, ErrorsReported, Columns
    <2>2. pos[i][t] = Cardinality(Good(i, t))
      BY <2>1 DEF WriteInv, DoneIsAll
    <2>3. DOMAIN Collected(i, t) = 1..pos[i][t]
      BY <2>1, <2>2, GoodIs DEF TypeInv
    <2>. QED  BY <2>3 DEF WriteInv, PrefixHeld, LastOf
  <1>. QED  BY <1>1, WriteInit, WriteNext, Flow, Typed, PTL DEF Spec

-----------------------------------------------------------------------------
(* Some product has the SKU.                                               *)
SoldIn(p, s) == \E n \in DOMAIN p : p[n] = s

(* What becomes of the SKUs of an import: some product has them, or their  *)
(* insert failed.  The map has only such; those of the file are such or to *)
(* be created; those of the batch just inserted are such; and from the     *)
(* flush on, all of them.                                                  *)
Settled(i, s) == SoldIn(prod, s) \/ s \in uncreated[i]
Creating == {"insert", "rows", "unsequenced", "lastid"}
ImportSold(i) ==
    /\ \A s \in Skus : skuToID[i][s] # Nil => Settled(i, s)
    /\ pc[i] \in Creating =>
          \A k \in DOMAIN rows[i] : rows[i][k].sku # Blank =>
             \/ Settled(i, rows[i][k].sku)
             \/ \E x \in DOMAIN toCreate[i] : toCreate[i][x] = rows[i][k].sku
    /\ pc[i] = "lastid" => \A x \in DOMAIN Batch(i) : Settled(i, Batch(i)[x])
    /\ pc[i] = "flush" \/ res[i] = "ok" =>
          \A k \in DOMAIN rows[i] : rows[i][k].sku # Blank => Settled(i, rows[i][k].sku)

AllSold == \A i \in Imports : ImportSold(i)

-----------------------------------------------------------------------------
(* Products are added at the end; none goes.                               *)
LEMMA Appended ==
    ASSUME NEW X, NEW p \in Seq(X), NEW new \in Seq(X), NEW q, q = p \o new
    PROVE  /\ \A s : SoldIn(p, s) => SoldIn(q, s)
           /\ \A x \in DOMAIN new : SoldIn(q, new[x]) /\ q[Len(p) + x] = new[x]
           /\ DOMAIN q = 1..(Len(p) + Len(new)) /\ Len(p) \in Nat /\ Len(new) \in Nat
           /\ \A n \in DOMAIN p : n \in DOMAIN q /\ q[n] = p[n]
  <1>1. Len(p) \in Nat /\ DOMAIN p = 1..Len(p) /\ Len(new) \in Nat /\ DOMAIN new = 1..Len(new)
    OBVIOUS
  <1>2. DOMAIN q = 1..(Len(p) + Len(new))
    OBVIOUS
  <1>3. \A n \in DOMAIN p : n \in DOMAIN q /\ q[n] = p[n]
    BY <1>1, <1>2
  <1>4. \A x \in DOMAIN new : Len(p) + x \in DOMAIN q /\ q[Len(p) + x] = new[x]
    BY <1>1, <1>2
  <1>5. \A s : SoldIn(p, s) => SoldIn(q, s)
    BY <1>3 DEF SoldIn
  <1>6. \A x \in DOMAIN new : SoldIn(q, new[x])
    BY <1>4 DEF SoldIn
  <1>. QED  BY <1>1, <1>2, <1>3, <1>4, <1>5, <1>6

(* What the two inserts do: they append the SKUs, or, failing, nothing but *)
(* ids of no product.                                                      *)
LEMMA InsertEntitiesIs ==
    ASSUME TypeInv, GhostTypes, NEW i \in Imports, InsertEntities(i)
    PROVE  \E new \in Seq(Skus \cup {Nil}) :
              /\ prod \in Seq(Skus \cup {Nil}) /\ prod' = prod \o new
              /\ uncreated[i] \subseteq uncreated'[i]
              /\ \A j \in Imports : j # i => uncreated'[j] = uncreated[j]
              /\ \/ /\ new = toCreate[i]
                    /\ skuToID' = [skuToID EXCEPT ![i] = Numbered(@, toCreate[i],
                                         [k \in DOMAIN toCreate[i] |-> Len(prod) + k])]
                 \/ /\ \A x \in DOMAIN new : new[x] = Nil
                    /\ \A x \in DOMAIN toCreate[i] : toCreate[i][x] \in uncreated'[i]
                    /\ \E ids : skuToID' = [skuToID EXCEPT ![i] = Numbered(@, toCreate[i], ids)]
  <1>1. toCreate[i] \in Seq(Skus) /\ prod \in Seq(Skus \cup {Nil})
    BY DEF TypeInv, LocalTypes, StoreTypes
  <1>2. toCreate[i] \in Seq(Skus \cup {Nil})
    BY <1>1
  <1>3. CASE /\ prod' = prod \o toCreate[i] /\ UNCHANGED uncreated
             /\ skuToID' = [skuToID EXCEPT ![i] = Numbered(@, toCreate[i],
                                  [k \in DOMAIN toCreate[i] |-> Len(prod) + k])]
    BY <1>1, <1>2, <1>3
  <1>4. ASSUME NEW n \in Nat, prod' = prod \o [k \in 1..n |-> Nil],
               uncreated' = [uncreated EXCEPT ![i] = @ \cup Range(toCreate[i])],
               NEW ids, skuToID' = [skuToID EXCEPT ![i] = Numbered(@, toCreate[i], ids)]
        PROVE  \E new \in Seq(Skus \cup {Nil}) :
              /\ prod \in Seq(Skus \cup {Nil}) /\ prod' = prod \o new
              /\ uncreated[i] \subseteq uncreated'[i]
              /\ \A j \in Imports : j # i => uncreated'[j] = uncreated[j]
              /\ \A x \in DOMAIN new : new[x] = Nil
              /\ \A x \in DOMAIN toCreate[i] : toCreate[i][x] \in uncreated'[i]
              /\ \E m : skuToID' = [skuToID EXCEPT ![i] = Numbered(@, toCreate[i], m)]
    <2>. DEFINE none == [k \in 1..n |-> Nil]
    <2>1. none \in Seq(Skus \cup {Nil}) /\ \A x \in DOMAIN none : none[x] = Nil
      OBVIOUS
    <2>2. /\ uncreated'[i] = uncreated[i] \cup Range(toCreate[i])
          /\ \A j \in Imports : j # i => uncreated'[j] = uncreated[j]
      BY <1>4 DEF GhostTypes
    <2>3. \A x \in DOMAIN toCreate[i] : toCreate[i][x] \in uncreated'[i]
      BY <2>2 DEF Range
    <2>. HIDE DEF none
    <2>. QED  BY <1>1, <1>4, <2>1, <2>2, <2>3 DEF none
  <1>5. \A n \in 0..(Len(toCreate[i]) - 1) : n \in Nat
    OBVIOUS
  <1>6. \/ /\ prod' = prod \o toCreate[i] /\ UNCHANGED uncreated
           /\ skuToID' = [skuToID EXCEPT ![i] = Numbered(@, toCreate[i],
                                [k \in DOMAIN toCreate[i] |-> Len(prod) + k])]
        \/ /\ uncreated' = [uncreated EXCEPT ![i] = @ \cup Range(toCreate[i])]
           /\ \E n \in Nat : \E ids :
                /\ prod' = prod \o [k \in 1..n |-> Nil]
                /\ skuToID' = [skuToID EXCEPT ![i] = Numbered(@, toCreate[i], ids)]
    BY <1>5 DEF InsertEntities
  <1>. QED  BY <1>3, <1>4, <1>6

LEMMA InsertRowsIs ==
    ASSUME TypeInv, GhostTypes, NEW i \in Imports, InsertRows(i)
    PROVE  /\ prod \in Seq(Skus \cup {Nil}) /\ Batch(i) \in Seq(Skus \cup {Nil})
           /\ uncreated[i] \subseteq uncreated'[i]
           /\ \A j \in Imports : j # i => uncreated'[j] = uncreated[j]
           /\ \/ prod' = prod \o Batch(i) /\ lastID' = [lastID EXCEPT ![i] = Len(prod) + 1]
              \/ /\ UNCHANGED prod /\ \E n : lastID' = [lastID EXCEPT ![i] = n]
                 /\ \A x \in DOMAIN Batch(i) : Batch(i)[x] \in uncreated'[i]
  <1>1. Batch(i) \in Seq(Skus \cup {Nil}) /\ prod \in Seq(Skus \cup {Nil})
    <2>1. Batch(i) \in Seq(Skus) /\ prod \in Seq(Skus \cup {Nil})
      BY BatchIs DEF TypeInv, StoreTypes
    <2>. QED  BY <2>1
  <1>2. CASE /\ prod' = prod \o Batch(i) /\ lastID' = [lastID EXCEPT ![i] = Len(prod) + 1]
             /\ UNCHANGED uncreated
    BY <1>1, <1>2
  <1>3. CASE /\ UNCHANGED prod /\ \E n : lastID' = [lastID EXCEPT ![i] = n]
             /\ uncreated' = [uncreated EXCEPT ![i] = @ \cup Range(Batch(i))]
    <2>1. /\ uncreated'[i] = uncreated[i] \cup Range(Batch(i))
          /\ \A j \in Imports : j # i => uncreated'[j] = uncreated[j]
      BY <1>3 DEF GhostTypes
    <2>. QED  BY <1>1, <1>3, <2>1 DEF Range
  <1>. QED  BY <1>2, <1>3 DEF InsertRows

-----------------------------------------------------------------------------
(* An import that a step leaves alone.                                     *)
LEMMA SoldFrame ==
    ASSUME NEW j \in Imports, ImportSold(j), \A s : SoldIn(prod, s) => SoldIn(prod', s),
           pc'[j] = pc[j], rows'[j] = rows[j], skuToID'[j] = skuToID[j],
           toCreate'[j] = toCreate[j], res'[j] = res[j], uncreated'[j] = uncreated[j]
    PROVE  ImportSold(j)'
  <1>1. Batch(j)' = Batch(j)
    BY DEF Batch, BatchEnd
  <1>2. \A s : Settled(j, s) => Settled(j, s)'
    BY DEF Settled
  <1>. QED  BY <1>1, <1>2 DEF ImportSold

LEMMA SoldInit == Init => AllSold
  BY SMT DEF Init, AllSold, ImportSold, NoIds, Creating

LEMMA SoldStart ==
    ASSUME FlowInv, TypeInv, GhostTypes, AllSold, NEW i \in Imports, Start(i) PROVE AllSold'
  <1>1. /\ skuToID' = [skuToID EXCEPT ![i] = NoIds]
        /\ toCreate' = [toCreate EXCEPT ![i] = <<>>]
        /\ uncreated' = [uncreated EXCEPT ![i] = {}]
        /\ \E f : rows' = [rows EXCEPT ![i] = f]
        /\ pc' = [pc EXCEPT ![i] = "lookup"] \/ (pc' = pc /\ pc[i] = "idle")
        /\ \E r \in {"none", "err"} : res' = [res EXCEPT ![i] = r]
        /\ UNCHANGED prod
    BY DEF Start
  <1>2. \A s : SoldIn(prod, s) => SoldIn(prod', s)
    BY <1>1 DEF SoldIn
  <1>3. ImportSold(i)'
    <2>1. skuToID'[i] = NoIds /\ pc'[i] \in {"lookup", "idle"} /\ res'[i] # "ok"
      BY <1>1 DEF TypeInv, LocalTypes, FlowInv, FlowTypes
    <2>. QED  BY <2>1 DEF ImportSold, NoIds, Creating
  <1>4. ASSUME NEW j \in Imports, j # i PROVE ImportSold(j)'
    <2>1. pc'[j] = pc[j] /\ rows'[j] = rows[j] /\ skuToID'[j] = skuToID[j]
          /\ toCreate'[j] = toCreate[j] /\ res'[j] = res[j] /\ uncreated'[j] = uncreated[j]
      BY <1>1, <1>4 DEF TypeInv, LocalTypes, FlowInv, FlowTypes, GhostTypes
    <2>. QED  BY <1>2, <2>1, SoldFrame DEF AllSold
  <1>. QED  BY <1>3, <1>4 DEF AllSold

LEMMA SoldLookup ==
    ASSUME FlowInv, TypeInv, AllSold, NEW i \in Imports, Lookup(i) PROVE AllSold'
  <1>1. /\ pc[i] = "lookup" /\ UNCHANGED <<prod, rows, res, uncreated>>
        /\ \/ UNCHANGED <<pc, toCreate>>
           \/ /\ pc' = [pc EXCEPT ![i] = "insert"]
              /\ toCreate' = [toCreate EXCEPT ![i] = ToCreate(i)]
              /\ UNCHANGED skuToID
        /\ skuToID' = skuToID \/ \E m : skuToID' = [skuToID EXCEPT ![i] = m]
    BY DEF Lookup
  <1>2. \A s : SoldIn(prod, s) <=> SoldIn(prod', s)
    BY <1>1 DEF SoldIn
  <1>3. \A s : Settled(i, s) => Settled(i, s)'
    BY <1>1, <1>2 DEF Settled
  <1>4. \A s \in Skus : skuToID'[i][s] # Nil => Settled(i, s)
    <2>. TAKE s \in Skus
    <2>1. CASE UNCHANGED skuToID
      BY <2>1 DEF AllSold, ImportSold
    <2>2. ASSUME NEW batch, NEW m \in Found(batch, skuToID[i]), skuToID' = [skuToID EXCEPT ![i] = m]
          PROVE  skuToID'[i][s] # Nil => Settled(i, s)
      <3>1. skuToID'[i] = m
        BY <2>2 DEF TypeInv, LocalTypes
      <3>2. m[s] = skuToID[i][s] \/ \E n \in DOMAIN prod : prod[n] = s
        BY DEF Found
      <3>. QED  BY <3>1, <3>2 DEF SoldIn, Settled, AllSold, ImportSold
    <2>. QED  BY <2>1, <2>2 DEF Lookup
  <1>5. ImportSold(i)'
    <2>1. res'[i] # "ok"
      BY <1>1 DEF FlowInv, UnderWay
    <2>2. pc'[i] = "insert" =>
            \A k \in DOMAIN rows[i] : rows[i][k].sku # Blank =>
               \/ Settled(i, rows[i][k].sku)
               \/ \E x \in DOMAIN toCreate'[i] : toCreate'[i][x] = rows[i][k].sku
      <3>. SUFFICES ASSUME pc'[i] = "insert", NEW k \in DOMAIN rows[i], rows[i][k].sku # Blank,
                           ~Settled(i, rows[i][k].sku)
                    PROVE  \E x \in DOMAIN toCreate'[i] : toCreate'[i][x] = rows[i][k].sku
        OBVIOUS
      <3>1. toCreate'[i] = ToCreate(i)
        BY <1>1 DEF TypeInv, LocalTypes
      <3>2. rows[i] \in Seq(Rows)
        BY DEF TypeInv, LocalTypes
      <3>3. rows[i][k] \in Rows
        BY <3>2, ElementOf
      <3>4. rows[i][k].sku \in Skus
        BY <3>3 DEF Rows
      <3>5. k \in New(i)
        BY <3>4 DEF New, AllSold, ImportSold
      <3>. QED  BY <3>1, <3>5, ToCreateIs DEF TypeInv
    <2>3. pc'[i] \in {"lookup", "insert"}
      BY <1>1 DEF FlowInv, FlowTypes
    <2>. QED  BY <1>1, <1>3, <1>4, <2>1, <2>2, <2>3 DEF ImportSold, Creating
  <1>6. ASSUME NEW j \in Imports, j # i PROVE ImportSold(j)'
    <2>1. pc'[j] = pc[j] /\ rows'[j] = rows[j] /\ skuToID'[j] = skuToID[j]
          /\ toCreate'[j] = toCreate[j] /\ res'[j] = res[j] /\ uncreated'[j] = uncreated[j]
      BY <1>1, <1>6 DEF TypeInv, LocalTypes, FlowInv, FlowTypes
    <2>. QED  BY <1>2, <2>1, SoldFrame DEF AllSold
  <1>. QED  BY <1>5, <1>6 DEF AllSold

LEMMA SoldInsertEntities ==
    ASSUME FlowInv, TypeInv, GhostTypes, AllSold, NEW i \in Imports, InsertEntities(i)
    PROVE  AllSold'
  <1>. DEFINE todo == toCreate[i]
  <1>1. /\ pc[i] = "insert"
        /\ toCreate' = [toCreate EXCEPT ![i] = <<>>]
        /\ pc' = [pc EXCEPT ![i] = "flush"]
        /\ \E ids : skuToID' = [skuToID EXCEPT ![i] = Numbered(@, todo, ids)]
        /\ UNCHANGED <<rows, res>>
    <2>1. \E ids : skuToID' = [skuToID EXCEPT ![i] = Numbered(@, todo, ids)]
      BY InsertEntitiesIs
    <2>. QED  BY <2>1 DEF InsertEntities, StartFlush
  <1>2. PICK new \in Seq(Skus \cup {Nil}) :
              /\ prod \in Seq(Skus \cup {Nil}) /\ prod' = prod \o new
              /\ uncreated[i] \subseteq uncreated'[i]
              /\ \A j \in Imports : j # i => uncreated'[j] = uncreated[j]
              /\ new = todo \/ \A x \in DOMAIN todo : todo[x] \in uncreated'[i]
    BY InsertEntitiesIs
  <1>3. /\ \A s : SoldIn(prod, s) => SoldIn(prod', s)
        /\ \A x \in DOMAIN new : SoldIn(prod', new[x])
    BY <1>2, Appended
  <1>4. /\ \A s : Settled(i, s) => Settled(i, s)'
        /\ \A x \in DOMAIN todo : SoldIn(prod', todo[x]) \/ todo[x] \in uncreated'[i]
    BY <1>2, <1>3 DEF Settled
  <1>5. ImportSold(i)'
    <2>1. res'[i] # "ok" /\ pc'[i] = "flush" /\ rows'[i] = rows[i]
      BY <1>1 DEF FlowInv, UnderWay, FlowTypes
    <2>2. \A k \in DOMAIN rows[i] : rows[i][k].sku # Blank =>
             SoldIn(prod', rows[i][k].sku) \/ rows[i][k].sku \in uncreated'[i]
      <3>1. \A k \in DOMAIN rows[i] : rows[i][k].sku # Blank =>
               Settled(i, rows[i][k].sku) \/ \E x \in DOMAIN todo : todo[x] = rows[i][k].sku
        BY <1>1 DEF AllSold, ImportSold, Creating
      <3>2. \A s : Settled(i, s) => SoldIn(prod', s) \/ s \in uncreated'[i]
        BY <1>4 DEF Settled
      <3>. HIDE DEF todo
      <3>. QED  BY <1>4, <3>1, <3>2
    <2>3. \A s \in Skus : skuToID'[i][s] # Nil => Settled(i, s)'
      <3>. TAKE s \in Skus
      <3>1. PICK ids : skuToID'[i] = Numbered(skuToID[i], todo, ids)
        BY <1>1 DEF TypeInv, LocalTypes
      <3>2. todo \in Seq(Skus)
        BY DEF TypeInv, LocalTypes
      <3>3. skuToID'[i][s] = skuToID[i][s] \/ \E x \in DOMAIN todo : todo[x] = s
        <4>. HIDE DEF todo
        <4>. QED  BY <3>1, <3>2, NumberedIs
      <3>. QED  BY <1>4, <3>3 DEF AllSold, ImportSold, Settled
    <2>. QED  BY <2>1, <2>2, <2>3 DEF ImportSold, Creating, Settled
  <1>6. ASSUME NEW j \in Imports, j # i PROVE ImportSold(j)'
    <2>1. pc'[j] = pc[j] /\ rows'[j] = rows[j] /\ skuToID'[j] = skuToID[j]
          /\ toCreate'[j] = toCreate[j] /\ res'[j] = res[j] /\ uncreated'[j] = uncreated[j]
      BY <1>1, <1>2, <1>6 DEF TypeInv, LocalTypes, FlowInv, FlowTypes
    <2>. QED  BY <1>3, <2>1, SoldFrame DEF AllSold
  <1>. QED  BY <1>5, <1>6 DEF AllSold

LEMMA SoldMoves ==
    ASSUME FlowInv, TypeInv, AllSold, NEW i \in Imports, InsertSequence(i) \/ AllInserted(i)
    PROVE  AllSold'
  <1>1. /\ pc[i] = "insert" /\ UNCHANGED <<prod, rows, res, skuToID, toCreate, uncreated>>
        /\ \/ toCreate[i] = <<>> /\ pc' = [pc EXCEPT ![i] = "flush"]
           \/ \E l \in {"rows", "unsequenced"} : pc' = [pc EXCEPT ![i] = l]
    BY DEF InsertSequence, AllInserted, StartFlush, created
  <1>2. \A s : SoldIn(prod, s) => SoldIn(prod', s)
    BY <1>1 DEF SoldIn
  <1>3. ImportSold(i)'
    <2>1. res[i] # "ok"
      BY <1>1 DEF FlowInv, UnderWay
    <2>2. \A s : Settled(i, s) => Settled(i, s)'
      BY <1>1, <1>2 DEF Settled
    <2>3. pc'[i] \in {"rows", "unsequenced", "flush"} /\ (pc'[i] = "flush" => toCreate[i] = <<>>)
      BY <1>1 DEF FlowInv, FlowTypes
    <2>. QED  BY <1>1, <2>1, <2>2, <2>3 DEF AllSold, ImportSold, Creating
  <1>4. ASSUME NEW j \in Imports, j # i PROVE ImportSold(j)'
    <2>1. pc'[j] = pc[j] /\ rows'[j] = rows[j] /\ skuToID'[j] = skuToID[j]
          /\ toCreate'[j] = toCreate[j] /\ res'[j] = res[j] /\ uncreated'[j] = uncreated[j]
      BY <1>1, <1>4 DEF FlowInv, FlowTypes
    <2>. QED  BY <1>2, <2>1, SoldFrame DEF AllSold
  <1>. QED  BY <1>3, <1>4 DEF AllSold

LEMMA SoldInsertRows ==
    ASSUME FlowInv, TypeInv, GhostTypes, AllSold, NEW i \in Imports, InsertRows(i)
    PROVE  AllSold'
  <1>1. /\ pc[i] \in {"rows", "unsequenced"} /\ pc' = [pc EXCEPT ![i] = "lastid"]
        /\ UNCHANGED <<rows, res, skuToID, toCreate>>
    BY DEF InsertRows
  <1>2. /\ \A s : SoldIn(prod, s) => SoldIn(prod', s)
        /\ \A s : Settled(i, s) => Settled(i, s)'
        /\ \A x \in DOMAIN Batch(i) : SoldIn(prod', Batch(i)[x]) \/ Batch(i)[x] \in uncreated'[i]
    <2>1. /\ prod \in Seq(Skus \cup {Nil}) /\ Batch(i) \in Seq(Skus \cup {Nil})
          /\ uncreated[i] \subseteq uncreated'[i]
          /\ prod' = prod \o Batch(i) \/
             (UNCHANGED prod /\ \A x \in DOMAIN Batch(i) : Batch(i)[x] \in uncreated'[i])
      BY InsertRowsIs
    <2>2. CASE prod' = prod \o Batch(i)
      <3>1. /\ \A s : SoldIn(prod, s) => SoldIn(prod', s)
            /\ \A x \in DOMAIN Batch(i) : SoldIn(prod', Batch(i)[x])
        BY <2>1, <2>2, Appended
      <3>. QED  BY <2>1, <3>1 DEF Settled
    <2>3. CASE UNCHANGED prod /\ \A x \in DOMAIN Batch(i) : Batch(i)[x] \in uncreated'[i]
      BY <2>1, <2>3 DEF Settled, SoldIn
    <2>. QED  BY <2>1, <2>2, <2>3
  <1>3. ImportSold(i)'
    <2>1. pc'[i] = "lastid" /\ res'[i] # "ok" /\ rows'[i] = rows[i] /\ toCreate'[i] = toCreate[i]
          /\ skuToID'[i] = skuToID[i]
      BY <1>1 DEF FlowInv, UnderWay, FlowTypes
    <2>2. Batch(i)' = Batch(i)
      BY <1>1 DEF Batch, BatchEnd
    <2>3. \A x \in DOMAIN Batch(i)' : Settled(i, Batch(i)[x])'
      BY <1>2, <2>2 DEF Settled
    <2>4. \A k \in DOMAIN rows[i] : rows[i][k].sku # Blank =>
             \/ Settled(i, rows[i][k].sku)'
             \/ \E x \in DOMAIN toCreate[i] : toCreate[i][x] = rows[i][k].sku
      <3>1. pc[i] \in Creating
        BY <1>1 DEF Creating
      <3>2. \A k \in DOMAIN rows[i] : Settled(i, rows[i][k].sku) => Settled(i, rows[i][k].sku)'
        BY <1>2, <2>1 DEF Settled
      <3>. QED  BY <3>1, <3>2 DEF AllSold, ImportSold
    <2>5. \A s \in Skus : skuToID'[i][s] # Nil => Settled(i, s)'
      BY <1>2, <2>1 DEF AllSold, ImportSold
    <2>. QED  BY <2>1, <2>2, <2>3, <2>4, <2>5 DEF ImportSold, Creating, Settled
  <1>4. ASSUME NEW j \in Imports, j # i PROVE ImportSold(j)'
    <2>1. pc'[j] = pc[j] /\ rows'[j] = rows[j] /\ skuToID'[j] = skuToID[j]
          /\ toCreate'[j] = toCreate[j] /\ res'[j] = res[j] /\ uncreated'[j] = uncreated[j]
      BY <1>1, <1>4, InsertRowsIs DEF FlowInv, FlowTypes
    <2>. QED  BY <1>2, <2>1, SoldFrame DEF AllSold
  <1>. QED  BY <1>3, <1>4 DEF AllSold

LEMMA SoldReadLastInsertID ==
    ASSUME FlowInv, TypeInv, AllSold, NEW i \in Imports, ReadLastInsertID(i)
    PROVE  AllSold'
  <1>. DEFINE b == Len(Batch(i))
              s0 == toCreate[i]
  <1>1. /\ pc[i] = "lastid"
        /\ toCreate' = [toCreate EXCEPT ![i] = SubSeq(@, b + 1, Len(@))]
        /\ pc' = [pc EXCEPT ![i] = "insert"]
        /\ \E ids : skuToID' = [skuToID EXCEPT ![i] = Numbered(@, Batch(i), ids)]
        /\ UNCHANGED <<prod, rows, res, uncreated>>
    BY DEF ReadLastInsertID
  <1>2. /\ \A s : SoldIn(prod, s) <=> SoldIn(prod', s)
        /\ \A s : Settled(i, s) => Settled(i, s)'
    BY <1>1 DEF SoldIn, Settled
  <1>3. /\ s0 \in Seq(Skus) /\ Len(s0) \in Nat /\ b \in 0..Len(s0) /\ Batch(i) \in Seq(Skus)
        /\ DOMAIN Batch(i) = 1..b /\ \A k \in 1..b : Batch(i)[k] = s0[k]
    BY BatchIs DEF TypeInv
  <1>4. toCreate'[i] = SubSeq(s0, b + 1, Len(s0))
    BY <1>1 DEF TypeInv, LocalTypes
  <1>5. \A x \in DOMAIN s0 : x \in 1..b \/ \E y \in DOMAIN toCreate'[i] : toCreate'[i][y] = s0[x]
    <2>. SUFFICES ASSUME NEW x \in DOMAIN s0, x \notin 1..b
                  PROVE  \E y \in DOMAIN toCreate'[i] : toCreate'[i][y] = s0[x]
      OBVIOUS
    <2>. HIDE DEF b, s0
    <2>1. x \in 1..Len(s0) /\ x > b
      BY <1>3
    <2>2. DOMAIN SubSeq(s0, b + 1, Len(s0)) = 1..(Len(s0) - b)
      BY <1>3
    <2>3. x - b \in 1..(Len(s0) - b) /\ SubSeq(s0, b + 1, Len(s0))[x - b] = s0[x]
      BY <1>3, <2>1
    <2>. QED  BY <1>4, <2>2, <2>3
  <1>6. ImportSold(i)'
    <2>1. pc'[i] = "insert" /\ rows'[i] = rows[i] /\ res'[i] # "ok"
      BY <1>1 DEF FlowInv, FlowTypes, UnderWay
    <2>2. \A s \in Skus : skuToID'[i][s] # Nil => Settled(i, s)
      <3>. TAKE s \in Skus
      <3>1. PICK ids : skuToID'[i] = Numbered(skuToID[i], Batch(i), ids)
        BY <1>1 DEF TypeInv, LocalTypes
      <3>2. skuToID'[i][s] = skuToID[i][s] \/ \E x \in DOMAIN Batch(i) : Batch(i)[x] = s
        BY <1>3, <3>1, NumberedIs
      <3>. QED  BY <1>1, <3>2 DEF AllSold, ImportSold
    <2>3. \A k \in DOMAIN rows[i] : rows[i][k].sku # Blank =>
             \/ Settled(i, rows[i][k].sku)
             \/ \E x \in DOMAIN toCreate'[i] : toCreate'[i][x] = rows[i][k].sku
      <3>. SUFFICES ASSUME NEW k \in DOMAIN rows[i], rows[i][k].sku # Blank,
                           ~Settled(i, rows[i][k].sku)
                    PROVE  \E x \in DOMAIN toCreate'[i] : toCreate'[i][x] = rows[i][k].sku
        OBVIOUS
      <3>1. PICK x \in DOMAIN s0 : s0[x] = rows[i][k].sku
        BY <1>1 DEF AllSold, ImportSold, Creating
      <3>2. x \notin 1..b
        BY <1>1, <1>3, <3>1 DEF AllSold, ImportSold
      <3>. QED  BY <1>5, <3>1, <3>2
    <2>. QED  BY <1>2, <2>1, <2>2, <2>3 DEF ImportSold, Creating
  <1>7. ASSUME NEW j \in Imports, j # i PROVE ImportSold(j)'
    <2>1. pc'[j] = pc[j] /\ rows'[j] = rows[j] /\ skuToID'[j] = skuToID[j]
          /\ toCreate'[j] = toCreate[j] /\ res'[j] = res[j] /\ uncreated'[j] = uncreated[j]
      BY <1>1, <1>7 DEF TypeInv, LocalTypes, FlowInv, FlowTypes
    <2>. QED  BY <1>2, <2>1, SoldFrame DEF AllSold
  <1>. QED  BY <1>6, <1>7 DEF AllSold

LEMMA SoldJoin ==
    ASSUME FlowInv, TypeInv, AllSold, NEW i \in Imports, Join(i) PROVE AllSold'
  <1>1. /\ pc[i] = "flush" /\ pc' = [pc EXCEPT ![i] = "idle"]
        /\ \E r : res' = [res EXCEPT ![i] = r]
        /\ UNCHANGED <<prod, rows, skuToID, toCreate, uncreated>>
    BY DEF Join, created
  <1>2. /\ \A s : SoldIn(prod, s) <=> SoldIn(prod', s)
        /\ \A s : Settled(i, s) => Settled(i, s)'
    BY <1>1 DEF SoldIn, Settled
  <1>3. ImportSold(i)'
    <2>1. pc'[i] = "idle"
      BY <1>1 DEF FlowInv, FlowTypes
    <2>. QED  BY <1>1, <1>2, <2>1 DEF AllSold, ImportSold, Creating
  <1>4. ASSUME NEW j \in Imports, j # i PROVE ImportSold(j)'
    <2>1. pc'[j] = pc[j] /\ res'[j] = res[j]
      BY <1>1, <1>4 DEF FlowInv, FlowTypes
    <2>. QED  BY <1>1, <1>2, <2>1, SoldFrame DEF AllSold
  <1>. QED  BY <1>3, <1>4 DEF AllSold

LEMMA SoldNext ==
    FlowInv /\ TypeInv /\ GhostTypes /\ AllSold /\ [Next]_vars => AllSold'
  <1>. SUFFICES ASSUME FlowInv, TypeInv, GhostTypes, AllSold, [Next]_vars
                PROVE  AllSold'
    OBVIOUS
  <1>1. ASSUME NEW i \in Imports, Main(i) PROVE AllSold'
    BY <1>1, SoldLookup, SoldInsertEntities, SoldMoves, SoldInsertRows, SoldReadLastInsertID, SoldJoin
    DEF Main
  <1>2. ASSUME UNCHANGED <<prod, pc, rows, skuToID, toCreate, res, uncreated>> PROVE AllSold'
    <2>1. \A s : SoldIn(prod, s) => SoldIn(prod', s)
      BY <1>2 DEF SoldIn
    <2>. QED  BY <1>2, <2>1, SoldFrame DEF AllSold
  <1>3. ASSUME NEW i \in Imports, NEW c \in Columns, Write(i, c) PROVE AllSold'
    <2>1. UNCHANGED <<prod, pc, rows, skuToID, toCreate, res, uncreated>>
      BY <1>3 DEF Write, WriteTable, WriteGallery, WriteFails, created
    <2>. QED  BY <1>2, <2>1
  <1>4. ASSUME NEW i \in Imports, NEW m \in Modules, Send(i, m) PROVE AllSold'
    BY <1>2, <1>4 DEF Send, created
  <1>5. CASE UNCHANGED vars
    BY <1>2, <1>5 DEF vars, local, created
  <1>. QED  BY <1>1, <1>3, <1>4, <1>5, SoldStart DEF Next, GoOn

(* "New products are created automatically": each SKU of a file that was   *)
(* imported well is a product's, or the insert of its batch failed,        *)
(* whatever the files, the schema, the failures, the connections and the   *)
(* imports under way at the same time.                                     *)
THEOREM TheNewProductsExist == Spec => []NewProductsExist
  <1>1. AllSold => NewProductsExist
    BY DEF AllSold, ImportSold, NewProductsExist, SoldIn, Settled
  <1>. QED  BY <1>1, SoldInit, SoldNext, Flow, Typed, Ghosts, PTL DEF Spec

-----------------------------------------------------------------------------
(* Every id in a map is that of a product with the SKU, unless the insert  *)
(* of its batch failed or its first id was asked for on another connection; *)
(* and the ids that a batch just inserted is about to get are right.       *)
Right(p, id, s) == id \in DOMAIN p /\ p[id] = s

MapRight ==
    \A i \in Imports :
        /\ \A s \in Skus : skuToID[i][s] # Nil =>
              Right(prod, skuToID[i][s], s) \/ s \in uncreated[i] \cup misread[i]
        /\ pc[i] = "lastid" => \A k \in DOMAIN Batch(i) :
              Right(prod, lastID[i] + k - 1, Batch(i)[k]) \/ Batch(i)[k] \in uncreated[i]

-----------------------------------------------------------------------------
LEMMA RightInit == Init => MapRight
  BY SMT DEF Init, MapRight, NoIds

(* A step that takes no product away leaves what it does not touch right.  *)
LEMMA RightFrame ==
    ASSUME MapRight, NEW j \in Imports, \A n, s : Right(prod, n, s) => Right(prod', n, s),
           uncreated[j] \subseteq uncreated'[j], misread[j] \subseteq misread'[j]
    PROVE  /\ \A s \in Skus : skuToID[j][s] # Nil =>
                 Right(prod', skuToID[j][s], s) \/ s \in uncreated'[j] \cup misread'[j]
           /\ pc'[j] = "lastid" /\ pc[j] = "lastid" /\ toCreate'[j] = toCreate[j] /\ lastID'[j] = lastID[j]
                 => \A k \in DOMAIN Batch(j)' :
                       Right(prod', lastID'[j] + k - 1, Batch(j)'[k]) \/ Batch(j)'[k] \in uncreated'[j]
  <1>1. toCreate'[j] = toCreate[j] => Batch(j)' = Batch(j)
    BY DEF Batch, BatchEnd
  <1>. QED  BY <1>1 DEF MapRight

(* Appending products takes none away, and gives the new ones their ids.   *)
LEMMA RightAppend ==
    ASSUME NEW X, NEW p \in Seq(X), NEW new \in Seq(X), NEW q, q = p \o new
    PROVE  /\ \A x \in DOMAIN new : Right(q, Len(p) + x, new[x])
           /\ \A n, s : Right(p, n, s) => Right(q, n, s)
  <1>1. /\ \A x \in DOMAIN new : q[Len(p) + x] = new[x]
        /\ DOMAIN q = 1..(Len(p) + Len(new)) /\ Len(p) \in Nat /\ Len(new) \in Nat
        /\ \A n \in DOMAIN p : n \in DOMAIN q /\ q[n] = p[n]
    BY Appended
  <1>2. \A x \in DOMAIN new : Len(p) + x \in DOMAIN q
    BY <1>1
  <1>. QED  BY <1>1, <1>2 DEF Right

(* A step of an import that leaves the products and its own ids alone.     *)
LEMMA RightSame ==
    ASSUME FlowInv, TypeInv, GhostTypes, MapRight, NEW i \in Imports,
           UNCHANGED <<prod, lastID, uncreated, misread>>,
           \A j \in Imports : pc'[j] = "lastid" => pc[j] = "lastid" /\ toCreate'[j] = toCreate[j],
           \A j \in Imports : \A s \in Skus :
              skuToID'[j][s] # skuToID[j][s] /\ skuToID'[j][s] # Nil => Right(prod, skuToID'[j][s], s)
    PROVE  MapRight'
  <1>. SUFFICES ASSUME NEW j \in Imports
                PROVE  /\ \A s \in Skus : skuToID'[j][s] # Nil =>
                             Right(prod, skuToID'[j][s], s) \/ s \in uncreated[j] \cup misread[j]
                       /\ pc'[j] = "lastid" => \A k \in DOMAIN Batch(j)' :
                             Right(prod, lastID[j] + k - 1, Batch(j)'[k]) \/ Batch(j)'[k] \in uncreated[j]
    BY DEF MapRight
  <1>1. toCreate'[j] = toCreate[j] => Batch(j)' = Batch(j)
    BY DEF Batch, BatchEnd
  <1>2. \A s \in Skus : skuToID'[j][s] # Nil =>
           Right(prod, skuToID'[j][s], s) \/ s \in uncreated[j] \cup misread[j]
    <2>. TAKE s \in Skus
    <2>1. CASE skuToID'[j][s] = skuToID[j][s]
      BY <2>1 DEF MapRight
    <2>2. CASE skuToID'[j][s] # skuToID[j][s]
      BY <2>2
    <2>. QED  BY <2>1, <2>2
  <1>. QED  BY <1>1, <1>2 DEF MapRight

LEMMA RightLookup ==
    ASSUME FlowInv, TypeInv, GhostTypes, MapRight, NEW i \in Imports, Lookup(i)
    PROVE  MapRight'
  <1>1. /\ UNCHANGED <<prod, lastID, uncreated, misread>>
        /\ pc' = pc \/ pc' = [pc EXCEPT ![i] = "insert"]
        /\ toCreate' = toCreate \/ \E t : toCreate' = [toCreate EXCEPT ![i] = t]
        /\ pc[i] = "lookup"
        /\ \/ UNCHANGED skuToID
           \/ \E batch : \E m \in Found(batch, skuToID[i]) : skuToID' = [skuToID EXCEPT ![i] = m]
    BY DEF Lookup
  <1>2. \A j \in Imports : pc'[j] = "lastid" => pc[j] = "lastid" /\ toCreate'[j] = toCreate[j]
    BY <1>1 DEF FlowInv, FlowTypes, TypeInv, LocalTypes
  <1>3. CASE UNCHANGED skuToID
    BY <1>1, <1>2, <1>3, RightSame
  <1>4. ASSUME NEW batch, NEW m \in Found(batch, skuToID[i]), skuToID' = [skuToID EXCEPT ![i] = m]
        PROVE  MapRight'
    <2>1. \A s \in Skus : m[s] = skuToID[i][s] \/ Right(prod, m[s], s)
      BY DEF Found, Right
    <2>2. skuToID'[i] = m /\ \A j \in Imports : j # i => skuToID'[j] = skuToID[j]
      BY <1>4 DEF TypeInv, LocalTypes
    <2>3. \A j \in Imports : \A s \in Skus : skuToID'[j][s] # skuToID[j][s] =>
              Right(prod, skuToID'[j][s], s)
      BY <2>1, <2>2
    <2>. QED  BY <1>1, <1>2, <2>3, RightSame
  <1>. QED  BY <1>1, <1>3, <1>4

LEMMA RightInsertEntities ==
    ASSUME FlowInv, TypeInv, GhostTypes, MapRight, NEW i \in Imports, InsertEntities(i)
    PROVE  MapRight'
  <1>. DEFINE todo == toCreate[i]
  <1>1. /\ pc' = [pc EXCEPT ![i] = "flush"] /\ UNCHANGED <<lastID, misread>>
        /\ toCreate' = [toCreate EXCEPT ![i] = <<>>]
    BY DEF InsertEntities, StartFlush
  <1>2. PICK new \in Seq(Skus \cup {Nil}) :
              /\ prod \in Seq(Skus \cup {Nil}) /\ prod' = prod \o new
              /\ uncreated[i] \subseteq uncreated'[i]
              /\ \A j \in Imports : j # i => uncreated'[j] = uncreated[j]
              /\ \/ /\ new = toCreate[i]
                    /\ skuToID' = [skuToID EXCEPT ![i] = Numbered(@, toCreate[i],
                                         [k \in DOMAIN toCreate[i] |-> Len(prod) + k])]
                 \/ /\ \A x \in DOMAIN toCreate[i] : toCreate[i][x] \in uncreated'[i]
                    /\ \E ids : skuToID' = [skuToID EXCEPT ![i] = Numbered(@, toCreate[i], ids)]
    BY InsertEntitiesIs
  <1>3. /\ \A x \in DOMAIN new : Right(prod', Len(prod) + x, new[x])
        /\ \A n, s : Right(prod, n, s) => Right(prod', n, s)
    BY <1>2, RightAppend
  <1>4. todo \in Seq(Skus)
    BY DEF TypeInv, LocalTypes
  <1>5. \A s \in Skus : skuToID'[i][s] # Nil =>
           Right(prod', skuToID'[i][s], s) \/ s \in uncreated'[i] \cup misread'[i]
    <2>. TAKE s \in Skus
    <2>1. CASE skuToID'[i][s] = skuToID[i][s]
      BY <1>1, <1>2, <1>3, <2>1 DEF MapRight
    <2>2. CASE /\ new = todo
               /\ skuToID' = [skuToID EXCEPT ![i] = Numbered(@, todo,
                                    [k \in DOMAIN todo |-> Len(prod) + k])]
      <3>. DEFINE ids == [k \in DOMAIN todo |-> Len(prod) + k]
      <3>1. skuToID'[i] = Numbered(skuToID[i], todo, ids)
        BY <2>2 DEF TypeInv, LocalTypes
      <3>2. \A k \in DOMAIN todo : ids[k] = Len(prod) + k
        OBVIOUS
      <3>. HIDE DEF ids, todo
      <3>3. skuToID'[i][s] = skuToID[i][s] \/ \E k \in DOMAIN todo : todo[k] = s /\ skuToID'[i][s] = ids[k]
        BY <1>4, <3>1, NumberedIs
      <3>. QED  BY <1>3, <2>1, <2>2, <3>2, <3>3
    <2>3. CASE /\ \A x \in DOMAIN todo : todo[x] \in uncreated'[i]
               /\ \E ids : skuToID' = [skuToID EXCEPT ![i] = Numbered(@, todo, ids)]
      <3>1. PICK ids : skuToID'[i] = Numbered(skuToID[i], todo, ids)
        BY <2>3 DEF TypeInv, LocalTypes
      <3>. HIDE DEF todo
      <3>2. skuToID'[i][s] = skuToID[i][s] \/ \E k \in DOMAIN todo : todo[k] = s
        BY <1>4, <3>1, NumberedIs
      <3>. QED  BY <2>1, <2>3, <3>2
    <2>. QED  BY <1>2, <2>2, <2>3
  <1>6. \A j \in Imports : pc'[j] = "lastid" =>
           j # i /\ pc[j] = "lastid" /\ toCreate'[j] = toCreate[j] /\ lastID'[j] = lastID[j]
    BY <1>1 DEF FlowInv, FlowTypes, TypeInv, LocalTypes
  <1>7. \A j \in Imports : j # i => skuToID'[j] = skuToID[j]
    BY <1>2 DEF TypeInv, LocalTypes
  <1>8. ASSUME NEW j \in Imports
        PROVE  /\ \A s \in Skus : skuToID'[j][s] # Nil =>
                     Right(prod', skuToID'[j][s], s) \/ s \in uncreated'[j] \cup misread'[j]
               /\ pc'[j] = "lastid" => \A k \in DOMAIN Batch(j)' :
                     Right(prod', lastID'[j] + k - 1, Batch(j)'[k]) \/ Batch(j)'[k] \in uncreated'[j]
    <2>1. CASE j = i
      BY <1>5, <1>6, <2>1
    <2>2. CASE j # i
      <3>1. uncreated[j] \subseteq uncreated'[j] /\ misread[j] \subseteq misread'[j]
        BY <1>1, <1>2, <2>2
      <3>. QED  BY <1>3, <1>6, <1>7, <2>2, <3>1, RightFrame
    <2>. QED  BY <2>1, <2>2
  <1>. QED  BY <1>8 DEF MapRight

LEMMA RightInsertRows ==
    ASSUME FlowInv, TypeInv, GhostTypes, MapRight, NEW i \in Imports, InsertRows(i)
    PROVE  MapRight'
  <1>1. /\ pc' = [pc EXCEPT ![i] = "lastid"] /\ pc[i] \in {"rows", "unsequenced"}
        /\ UNCHANGED <<skuToID, toCreate, misread>>
    BY DEF InsertRows
  <1>2. /\ prod \in Seq(Skus \cup {Nil}) /\ Batch(i) \in Seq(Skus \cup {Nil})
        /\ uncreated[i] \subseteq uncreated'[i]
        /\ \A j \in Imports : j # i => uncreated'[j] = uncreated[j]
        /\ \/ prod' = prod \o Batch(i) /\ lastID' = [lastID EXCEPT ![i] = Len(prod) + 1]
           \/ /\ UNCHANGED prod /\ \E n : lastID' = [lastID EXCEPT ![i] = n]
              /\ \A x \in DOMAIN Batch(i) : Batch(i)[x] \in uncreated'[i]
    BY InsertRowsIs
  <1>3. Batch(i)' = Batch(i)
    BY <1>1 DEF Batch, BatchEnd
  <1>4. /\ \A n, s : Right(prod, n, s) => Right(prod', n, s)
        /\ \A k \in DOMAIN Batch(i) :
              Right(prod', lastID'[i] + k - 1, Batch(i)[k]) \/ Batch(i)[k] \in uncreated'[i]
    <2>1. CASE prod' = prod \o Batch(i) /\ lastID' = [lastID EXCEPT ![i] = Len(prod) + 1]
      <3>1. /\ \A x \in DOMAIN Batch(i) : Right(prod', Len(prod) + x, Batch(i)[x])
            /\ \A n, s : Right(prod, n, s) => Right(prod', n, s)
        BY <1>2, <2>1, RightAppend
      <3>2. lastID'[i] = Len(prod) + 1
        BY <2>1 DEF TypeInv, LocalTypes
      <3>3. Len(prod) \in Nat /\ DOMAIN Batch(i) \in SUBSET Nat
        BY <1>2
      <3>4. \A k \in DOMAIN Batch(i) : Len(prod) + 1 + k - 1 = Len(prod) + k
        BY <3>3
      <3>. QED  BY <3>1, <3>2, <3>4
    <2>2. CASE UNCHANGED prod /\ \A x \in DOMAIN Batch(i) : Batch(i)[x] \in uncreated'[i]
      BY <2>2 DEF Right
    <2>. QED  BY <1>2, <2>1, <2>2
  <1>5. \A j \in Imports : /\ uncreated[j] \subseteq uncreated'[j] /\ misread[j] \subseteq misread'[j]
                           /\ j # i => pc'[j] = pc[j] /\ lastID'[j] = lastID[j]
    BY <1>1, <1>2 DEF FlowInv, FlowTypes, TypeInv, LocalTypes
  <1>6. ASSUME NEW j \in Imports
        PROVE  /\ \A s \in Skus : skuToID'[j][s] # Nil =>
                     Right(prod', skuToID'[j][s], s) \/ s \in uncreated'[j] \cup misread'[j]
               /\ pc'[j] = "lastid" => \A k \in DOMAIN Batch(j)' :
                     Right(prod', lastID'[j] + k - 1, Batch(j)'[k]) \/ Batch(j)'[k] \in uncreated'[j]
    <2>1. \A s \in Skus : skuToID'[j][s] # Nil =>
             Right(prod', skuToID'[j][s], s) \/ s \in uncreated'[j] \cup misread'[j]
      BY <1>1, <1>4, <1>5, RightFrame
    <2>2. CASE j = i
      BY <1>3, <1>4, <2>1, <2>2
    <2>3. CASE j # i
      BY <1>1, <1>4, <1>5, <2>1, <2>3, RightFrame
    <2>. QED  BY <2>2, <2>3
  <1>. QED  BY <1>6 DEF MapRight

LEMMA RightReadLastInsertID ==
    ASSUME FlowInv, TypeInv, GhostTypes, MapRight, NEW i \in Imports, ReadLastInsertID(i)
    PROVE  MapRight'
  <1>1. /\ pc[i] = "lastid" /\ pc' = [pc EXCEPT ![i] = "insert"]
        /\ UNCHANGED <<prod, lastID, uncreated>>
        /\ \E t : toCreate' = [toCreate EXCEPT ![i] = t]
    BY DEF ReadLastInsertID
  <1>2. /\ \A j \in Imports : misread[j] \subseteq misread'[j]
        /\ \E ids : /\ skuToID' = [skuToID EXCEPT ![i] = Numbered(@, Batch(i), ids)]
                    /\ \/ \A k \in DOMAIN Batch(i) : ids[k] = lastID[i] + k - 1
                       \/ \A k \in DOMAIN Batch(i) : Batch(i)[k] \in misread'[i]
    <2>1. CASE /\ skuToID' = [skuToID EXCEPT ![i] = Numbered(@, Batch(i),
                                    [k \in DOMAIN Batch(i) |-> lastID[i] + k - 1])]
               /\ UNCHANGED misread
      <3>. DEFINE ids == [k \in DOMAIN Batch(i) |-> lastID[i] + k - 1]
      <3>1. \A k \in DOMAIN Batch(i) : ids[k] = lastID[i] + k - 1
        OBVIOUS
      <3>. HIDE DEF ids
      <3>. QED  BY <2>1, <3>1 DEF ids
    <2>2. CASE /\ \E ids : skuToID' = [skuToID EXCEPT ![i] = Numbered(@, Batch(i), ids)]
               /\ misread' = [misread EXCEPT ![i] = @ \cup Range(Batch(i))]
      <3>1. /\ \A j \in Imports : misread[j] \subseteq misread'[j]
            /\ misread'[i] = misread[i] \cup Range(Batch(i))
        BY <2>2 DEF GhostTypes
      <3>2. \A k \in DOMAIN Batch(i) : Batch(i)[k] \in misread'[i]
        BY <3>1 DEF Range
      <3>. QED  BY <2>2, <3>1, <3>2
    <2>. QED  BY <2>1, <2>2 DEF ReadLastInsertID
  <1>3. \A s \in Skus : skuToID'[i][s] # Nil =>
           Right(prod, skuToID'[i][s], s) \/ s \in uncreated[i] \cup misread'[i]
    <2>. TAKE s \in Skus
    <2>1. PICK ids : /\ skuToID'[i] = Numbered(skuToID[i], Batch(i), ids)
                     /\ \/ \A k \in DOMAIN Batch(i) : ids[k] = lastID[i] + k - 1
                        \/ \A k \in DOMAIN Batch(i) : Batch(i)[k] \in misread'[i]
      BY <1>2 DEF TypeInv, LocalTypes
    <2>2. \/ skuToID'[i][s] = skuToID[i][s]
          \/ \E k \in DOMAIN Batch(i) : Batch(i)[k] = s /\ skuToID'[i][s] = ids[k]
      BY <2>1, BatchIs, NumberedIs DEF TypeInv
    <2>. QED  BY <1>1, <1>2, <2>1, <2>2 DEF MapRight
  <1>4. \A j \in Imports : j # i => skuToID'[j] = skuToID[j] /\ toCreate'[j] = toCreate[j]
    BY <1>1, <1>2 DEF TypeInv, LocalTypes
  <1>5. \A j \in Imports : pc'[j] = "lastid" => j # i /\ pc[j] = "lastid"
    BY <1>1 DEF FlowInv, FlowTypes
  <1>6. \A n, s : Right(prod, n, s) <=> Right(prod', n, s)
    BY <1>1 DEF Right
  <1>7. ASSUME NEW j \in Imports
        PROVE  /\ \A s \in Skus : skuToID'[j][s] # Nil =>
                     Right(prod', skuToID'[j][s], s) \/ s \in uncreated'[j] \cup misread'[j]
               /\ pc'[j] = "lastid" => \A k \in DOMAIN Batch(j)' :
                     Right(prod', lastID'[j] + k - 1, Batch(j)'[k]) \/ Batch(j)'[k] \in uncreated'[j]
    <2>1. CASE j = i
      BY <1>1, <1>3, <1>5, <2>1
    <2>2. CASE j # i
      BY <1>1, <1>2, <1>4, <1>5, <1>6, <2>2, RightFrame
    <2>. QED  BY <2>1, <2>2
  <1>. QED  BY <1>7 DEF MapRight

LEMMA RightStart ==
    ASSUME FlowInv, TypeInv, GhostTypes, MapRight, NEW i \in Imports, Start(i) PROVE MapRight'
  <1>1. /\ UNCHANGED prod
        /\ pc' = [pc EXCEPT ![i] = "lookup"] \/ (pc' = pc /\ pc[i] = "idle")
        /\ skuToID' = [skuToID EXCEPT ![i] = NoIds]
        /\ toCreate' = [toCreate EXCEPT ![i] = <<>>] /\ lastID' = [lastID EXCEPT ![i] = 0]
        /\ uncreated' = [uncreated EXCEPT ![i] = {}] /\ misread' = [misread EXCEPT ![i] = {}]
    BY DEF Start
  <1>2. /\ \A s \in Skus : skuToID'[i][s] = Nil
        /\ \A j \in Imports : j # i => /\ skuToID'[j] = skuToID[j] /\ toCreate'[j] = toCreate[j]
                                       /\ lastID'[j] = lastID[j] /\ pc'[j] = pc[j]
                                       /\ uncreated'[j] = uncreated[j] /\ misread'[j] = misread[j]
        /\ pc'[i] # "lastid"
    BY <1>1 DEF TypeInv, LocalTypes, FlowInv, FlowTypes, GhostTypes, NoIds
  <1>3. \A n, s : Right(prod, n, s) <=> Right(prod', n, s)
    BY <1>1 DEF Right
  <1>4. ASSUME NEW j \in Imports
        PROVE  /\ \A s \in Skus : skuToID'[j][s] # Nil =>
                     Right(prod', skuToID'[j][s], s) \/ s \in uncreated'[j] \cup misread'[j]
               /\ pc'[j] = "lastid" => \A k \in DOMAIN Batch(j)' :
                     Right(prod', lastID'[j] + k - 1, Batch(j)'[k]) \/ Batch(j)'[k] \in uncreated'[j]
    <2>1. CASE j = i
      BY <1>2, <2>1
    <2>2. CASE j # i
      BY <1>2, <1>3, <2>2, RightFrame
    <2>. QED  BY <2>1, <2>2
  <1>. QED  BY <1>4 DEF MapRight

LEMMA RightNext ==
    FlowInv /\ TypeInv /\ GhostTypes /\ MapRight /\ [Next]_vars => MapRight'
  <1>. SUFFICES ASSUME FlowInv, TypeInv, GhostTypes, MapRight, [Next]_vars PROVE MapRight'
    OBVIOUS
  <1>1. ASSUME NEW i \in Imports, UNCHANGED <<prod, lastID, uncreated, misread, skuToID, toCreate>>,
               pc' = pc \/ \E l \in PCs : l # "lastid" /\ pc' = [pc EXCEPT ![i] = l]
        PROVE  MapRight'
    <2>1. \A j \in Imports : pc'[j] = "lastid" => pc[j] = "lastid"
      BY <1>1 DEF FlowInv, FlowTypes
    <2>. QED  BY <1>1, <2>1, RightSame
  <1>2. ASSUME NEW i \in Imports, InsertSequence(i) \/ AllInserted(i) \/ Join(i) PROVE MapRight'
    BY <1>1, <1>2 DEF InsertSequence, AllInserted, StartFlush, Join, created, PCs, Before
  <1>3. ASSUME NEW i \in Imports, Main(i) PROVE MapRight'
    BY <1>2, <1>3, RightLookup, RightInsertEntities, RightInsertRows, RightReadLastInsertID DEF Main
  <1>4. ASSUME NEW i \in Imports, NEW c \in Columns, Write(i, c) PROVE MapRight'
    BY <1>1, <1>4 DEF Write, WriteTable, WriteGallery, WriteFails, created
  <1>5. ASSUME NEW i \in Imports, NEW m \in Modules, Send(i, m) PROVE MapRight'
    BY <1>1, <1>5 DEF Send, created
  <1>6. CASE UNCHANGED vars
    BY <1>6 DEF vars, local, created, MapRight, Batch, BatchEnd
  <1>. QED  BY <1>3, <1>4, <1>5, <1>6, RightStart DEF Next, GoOn

(* "Updates skuToID in place": with either schema, what an import flushes  *)
(* goes to the products of the file's SKUs, whatever fails and however     *)
(* many imports there are, unless the insert of an SKU failed or its id    *)
(* was asked for on another connection.                                    *)
THEOREM TheMapIsRight == Spec => []SkuToIDRight
  <1>1. MapRight => SkuToIDRight
    <2>1. \A s \in Skus : s # Nil
      BY ConstantsAssumption
    <2>. QED  BY <2>1 DEF MapRight, SkuToIDRight, Right, HasProduct
  <1>. QED  BY <1>1, RightInit, RightNext, Flow, Typed, Ghosts, PTL DEF Spec

-----------------------------------------------------------------------------
(* An SKU apart: at most one product has it, at most one import that has   *)
(* still to create its products names it, in one row and not padded, knows  *)
(* of its product when it has looked it up, and creates it at most once,    *)
(* while no product has it.                                                *)
OnceIn(p, s) == \A m, n \in DOMAIN p : p[m] = s /\ p[n] = s => m = n

NamedBy(i, s) == \E k \in DOMAIN rows[i] : rows[i][k].sku = s

Alone(s) ==
    \A i, j \in Imports :
        pc[i] \in Before /\ pc[j] \in Before /\ NamedBy(i, s) /\ NamedBy(j, s) => i = j

OneRow(i, s) ==
    pc[i] \in Before =>
        \A j, k \in DOMAIN rows[i] :
            rows[i][j].sku = s /\ rows[i][k].sku = s => j = k /\ ~rows[i][j].padded

Known(i, s) ==
    pc[i] = "lookup" =>
        \A x \in DOMAIN Named(rows[i]) :
            x <= looked[i] /\ Named(rows[i])[x].sku = s /\ SoldIn(prod, s) => skuToID[i][s] # Nil

Fresh(i, s) ==
    pc[i] \in Before =>
        \A x \in DOMAIN toCreate[i] : toCreate[i][x] = s =>
            /\ NamedBy(i, s)
            /\ \A y \in DOMAIN toCreate[i] : toCreate[i][y] = s => x = y
            /\ pc[i] # "lastid" \/ x > Len(Batch(i)) => ~SoldIn(prod, s)

ImportApart(i, s) == OneRow(i, s) /\ Known(i, s) /\ Fresh(i, s)
Apart(s) == OnceIn(prod, s) /\ Alone(s) /\ \A i \in Imports : ImportApart(i, s)
AllApart == \A s \in Skus : s \notin doubtful => Apart(s)

-----------------------------------------------------------------------------
(* Appending products: an SKU stays once, and unsold when it is none's.    *)
LEMMA AppendOnce ==
    ASSUME NEW X, NEW p \in Seq(X), NEW new \in Seq(X), NEW q, q = p \o new,
           NEW s, OnceIn(p, s), OnceIn(new, s), SoldIn(new, s) => ~SoldIn(p, s)
    PROVE  OnceIn(q, s) /\ (SoldIn(q, s) => SoldIn(p, s) \/ SoldIn(new, s))
  <1>1. /\ \A x \in DOMAIN new : q[Len(p) + x] = new[x]
        /\ DOMAIN q = 1..(Len(p) + Len(new)) /\ Len(p) \in Nat /\ Len(new) \in Nat
        /\ \A n \in DOMAIN p : q[n] = p[n]
    BY Appended
  <1>2. DOMAIN p = 1..Len(p) /\ DOMAIN new = 1..Len(new)
    OBVIOUS
  <1>3. \A n \in DOMAIN q : n \in DOMAIN p \/ \E x \in DOMAIN new : n = Len(p) + x
    <2>. TAKE n \in DOMAIN q
    <2>1. CASE n <= Len(p)
      BY <1>1, <1>2, <2>1
    <2>2. CASE n > Len(p)
      <3>1. n - Len(p) \in DOMAIN new /\ n = Len(p) + (n - Len(p))
        BY <1>1, <1>2, <2>2
      <3>. QED  BY <3>1
    <2>. QED  BY <1>1, <2>1, <2>2
  <1>4. \A n \in DOMAIN p : \A x \in DOMAIN new : ~(q[n] = s /\ q[Len(p) + x] = s)
    BY <1>1 DEF SoldIn
  <1>5. \A x, y \in DOMAIN new : q[Len(p) + x] = s /\ q[Len(p) + y] = s => Len(p) + x = Len(p) + y
    BY <1>1 DEF OnceIn
  <1>6. \A m, n \in DOMAIN p : q[m] = s /\ q[n] = s => m = n
    BY <1>1 DEF OnceIn
  <1>7. OnceIn(q, s)
    BY <1>3, <1>4, <1>5, <1>6 DEF OnceIn
  <1>8. SoldIn(q, s) => SoldIn(p, s) \/ SoldIn(new, s)
    BY <1>1, <1>3 DEF SoldIn
  <1>. QED  BY <1>7, <1>8

(* An import that a step leaves alone, while no product gets the SKU, or   *)
(* one that has no use for it.                                             *)
LEMMA ApartFrame ==
    ASSUME TypeInv, NEW j \in Imports, NEW s \in Skus, ImportApart(j, s),
           pc'[j] = pc[j], rows'[j] = rows[j], looked'[j] = looked[j], skuToID'[j] = skuToID[j],
           toCreate'[j] = toCreate[j],
           SoldIn(prod', s) => SoldIn(prod, s) \/ pc[j] \notin Before \/ ~NamedBy(j, s)
    PROVE  ImportApart(j, s)'
  <1>1. Batch(j)' = Batch(j) /\ NamedBy(j, s)' = NamedBy(j, s)
    BY DEF Batch, BatchEnd, NamedBy
  <1>2. \A x \in DOMAIN Named(rows[j]) : Named(rows[j])[x].sku = s => NamedBy(j, s)
    <2>1. rows[j] \in Seq(Rows)
      BY DEF TypeInv, LocalTypes
    <2>. QED  BY <2>1, NamedIs DEF NamedBy
  <1>3. OneRow(j, s)'
    BY DEF ImportApart, OneRow
  <1>4. Known(j, s)'
    BY <1>2 DEF ImportApart, Known, Before
  <1>5. Fresh(j, s)'
    BY <1>1 DEF ImportApart, Fresh
  <1>. QED  BY <1>3, <1>4, <1>5 DEF ImportApart

(* One that has created its products has no more to say.                   *)
LEMMA ApartAfter ==
    ASSUME NEW j, NEW s, pc'[j] \notin Before PROVE ImportApart(j, s)'
  BY DEF ImportApart, OneRow, Known, Fresh, Before

LEMMA AloneFrame ==
    ASSUME NEW s, Alone(s), UNCHANGED rows, \A j \in Imports : pc'[j] \in Before => pc[j] \in Before
    PROVE  Alone(s)'
  BY DEF Alone, NamedBy

(* A step of import i by which no product gets the SKU and i keeps apart.  *)
LEMMA ApartStep ==
    ASSUME FlowInv, TypeInv, NEW s \in Skus, Apart(s), NEW i \in Imports,
           UNCHANGED rows, OnceIn(prod', s), pc[i] \in Before \/ pc'[i] \notin Before,
           \A j \in Imports : j # i => /\ pc'[j] = pc[j] /\ looked'[j] = looked[j]
                                       /\ skuToID'[j] = skuToID[j] /\ toCreate'[j] = toCreate[j],
           SoldIn(prod', s) => SoldIn(prod, s) \/ (pc[i] \in Before /\ NamedBy(i, s)),
           ImportApart(i, s)'
    PROVE  Apart(s)'
  <1>1. Alone(s)'
    <2>1. \A j \in Imports : pc'[j] \in Before => pc[j] \in Before
      OBVIOUS
    <2>. QED  BY <2>1, AloneFrame DEF Apart
  <1>2. ASSUME NEW j \in Imports, j # i PROVE ImportApart(j, s)'
    <2>1. SoldIn(prod', s) => SoldIn(prod, s) \/ pc[j] \notin Before \/ ~NamedBy(j, s)
      BY <1>2 DEF Apart, Alone
    <2>. QED  BY <1>2, <2>1, ApartFrame DEF Apart
  <1>. QED  BY <1>1, <1>2 DEF Apart

-----------------------------------------------------------------------------
LEMMA ApartInit == Init => AllApart
  <1>. SUFFICES ASSUME Init, NEW s \in Skus, s \notin doubtful PROVE Apart(s)
    BY DEF AllApart
  <1>1. OnceIn(prod, s)
    BY DEF Init, Twice, OnceIn
  <1>2. \A i \in Imports : pc[i] = "idle"
    BY DEF Init
  <1>. QED  BY <1>1, <1>2 DEF Apart, Alone, ImportApart, OneRow, Known, Fresh, Before

LEMMA ApartStart ==
    ASSUME FlowInv, TypeInv, GhostTypes, AllApart, NEW i \in Imports, Start(i) PROVE AllApart'
  <1>1. /\ pc[i] = "idle" /\ UNCHANGED prod
        /\ looked' = [looked EXCEPT ![i] = 0]
        /\ skuToID' = [skuToID EXCEPT ![i] = NoIds]
        /\ toCreate' = [toCreate EXCEPT ![i] = <<>>]
        /\ \/ /\ pc' = pc /\ doubtful' = doubtful /\ rows' = [rows EXCEPT ![i] = <<>>]
           \/ \E f \in Files : /\ pc' = [pc EXCEPT ![i] = "lookup"]
                               /\ rows' = [rows EXCEPT ![i] = f]
                               /\ doubtful' = doubtful \cup Unclear(f) \cup Shared(i, f)
    BY DEF Start
  <1>2. \A j \in Imports : j # i =>
           /\ pc'[j] = pc[j] /\ rows'[j] = rows[j] /\ looked'[j] = looked[j]
           /\ skuToID'[j] = skuToID[j] /\ toCreate'[j] = toCreate[j]
    BY <1>1 DEF TypeInv, LocalTypes, FlowInv, FlowTypes
  <1>3. looked'[i] = 0 /\ toCreate'[i] = <<>>
    BY <1>1 DEF TypeInv, LocalTypes
  <1>. SUFFICES ASSUME NEW s \in Skus, s \notin doubtful' PROVE Apart(s)'
    BY DEF AllApart
  <1>4. Apart(s)
    BY <1>1 DEF AllApart
  <1>5. OnceIn(prod', s)
    BY <1>1, <1>4 DEF Apart, OnceIn
  <1>6. ASSUME NEW j \in Imports, j # i PROVE ImportApart(j, s)'
    <2>1. SoldIn(prod', s) => SoldIn(prod, s)
      BY <1>1 DEF SoldIn
    <2>. QED  BY <1>2, <1>4, <1>6, <2>1, ApartFrame DEF Apart
  <1>7. CASE pc' = pc
    <2>1. pc'[i] \notin Before
      BY <1>1, <1>7 DEF Before
    <2>2. Alone(s)'
      BY <1>2, <1>4, <2>1 DEF Apart, Alone, NamedBy
    <2>. QED  BY <1>5, <1>6, <2>1, <2>2, ApartAfter DEF Apart
  <1>8. ASSUME NEW f \in Files, pc' = [pc EXCEPT ![i] = "lookup"], rows' = [rows EXCEPT ![i] = f],
               s \notin Unclear(f), s \notin Shared(i, f)
        PROVE  Apart(s)'
    <2>1. pc'[i] = "lookup" /\ rows'[i] = f /\ f \in Seq(Rows)
      BY <1>8, Defaults DEF TypeInv, LocalTypes, FlowInv, FlowTypes
    <2>2. \A g \in Seq(Rows) : \A k \in DOMAIN g : g[k].sku = s => s \in SkusOf(g)
      BY ConstantsAssumption DEF SkusOf
    <2>3. Alone(s)'
      <3>1. ASSUME NEW j \in Imports, j # i, pc'[j] \in Before, NamedBy(j, s)', NamedBy(i, s)'
            PROVE  FALSE
        <4>1. s \in SkusOf(f)
          BY <2>1, <2>2, <3>1 DEF NamedBy
        <4>2. rows[j] \in Seq(Rows) /\ NamedBy(j, s) /\ pc[j] \in Before
          BY <1>2, <3>1 DEF NamedBy, TypeInv, LocalTypes
        <4>3. s \in SkusOf(rows[j])
          BY <2>2, <4>2 DEF NamedBy
        <4>. QED  BY <1>8, <3>1, <4>1, <4>2, <4>3 DEF Shared
      <3>2. ASSUME NEW j \in Imports, NEW k \in Imports, j # i, k # i,
                   pc'[j] \in Before /\ pc'[k] \in Before /\ NamedBy(j, s)' /\ NamedBy(k, s)'
            PROVE  j = k
        BY <1>2, <1>4, <3>2 DEF Apart, Alone, NamedBy
      <3>. QED  BY <3>1, <3>2 DEF Alone
    <2>4. ImportApart(i, s)'
      <3>1. OneRow(i, s)'
        <4>. SUFFICES ASSUME NEW j \in DOMAIN f, NEW k \in DOMAIN f, f[j].sku = s, f[k].sku = s
                      PROVE  j = k /\ ~f[j].padded
          BY <2>1 DEF OneRow
        <4>1. s \in SkusOf(f)
          BY <2>1, <2>2
        <4>. QED  BY <1>8, <4>1 DEF Unclear
      <3>2. Known(i, s)'
        <4>1. Named(f) \in Seq(Rows)
          BY <2>1, NamedIs
        <4>2. \A x \in DOMAIN Named(f) : ~(x <= 0)
          BY <4>1
        <4>. QED  BY <1>3, <2>1, <4>2 DEF Known
      <3>3. Fresh(i, s)'
        BY <1>3 DEF Fresh
      <3>. QED  BY <3>1, <3>2, <3>3 DEF ImportApart
    <2>. QED  BY <1>5, <1>6, <2>3, <2>4 DEF Apart
  <1>. QED  BY <1>1, <1>7, <1>8

(* A batch of look-ups finds every SKU of it that some product has, unless *)
(* its query fails.                                                        *)
LEMMA ApartLookupBatch ==
    ASSUME FlowInv, TypeInv, GhostTypes, NEW i \in Imports, Lookup(i),
           NEW s \in Skus, s \notin doubtful', Apart(s), looked[i] < Len(Named(rows[i]))
    PROVE  Known(i, s)'
  <1>. DEFINE names == Named(rows[i])
              l == looked[i]
              end == BatchEnd(l, Len(names))
              batch == SubSeq(names, l + 1, end)
  <1>1. /\ looked' = [looked EXCEPT ![i] = end]
        /\ \/ \E m \in Found(batch, skuToID[i]) : skuToID' = [skuToID EXCEPT ![i] = m]
           \/ UNCHANGED skuToID /\ doubtful' = doubtful \cup SkusOf(batch)
        /\ UNCHANGED <<pc, prod, rows>> /\ pc[i] = "lookup"
    <2>1. l \in Nat /\ Len(names) \in Nat
      BY NamedIs DEF TypeInv, LocalTypes
    <2>2. ~(l >= Len(names))
      BY <2>1
    <2>. QED  BY <2>2 DEF Lookup
  <1>2. rows[i] \in Seq(Rows) /\ l \in Nat
    BY DEF TypeInv, LocalTypes
  <1>3. /\ names \in Seq(Rows) /\ Len(names) \in Nat /\ DOMAIN names = 1..Len(names)
        /\ \A x \in DOMAIN names : names[x].sku = s => ~names[x].padded
    <2>1. names \in Seq(Rows)
      BY <1>2, NamedIs
    <2>2. ASSUME NEW x \in DOMAIN names, names[x].sku = s PROVE ~names[x].padded
      <3>1. PICK k \in DOMAIN rows[i] : names[x] = rows[i][k]
        BY <1>2, NamedIs
      <3>. QED  BY <1>1, <2>2, <3>1 DEF Apart, ImportApart, OneRow, Before
    <2>. QED  BY <2>1, <2>2
  <1>4. end \in l..Len(names)
    <2>. DEFINE n == Len(names)
    <2>1. n \in Nat /\ l <= n
      BY <1>2, <1>3
    <2>. HIDE DEF n
    <2>2. BatchEnd(l, n) \in l..n
      <3>. HIDE DEF l
      <3>. QED  BY <1>2, <2>1, BatchEndIs
    <2>. QED  BY <2>2 DEF n
  <1>5. looked'[i] = end
    BY <1>1 DEF TypeInv, LocalTypes
  <1>6. \A n \in DOMAIN prod : n # Nil
    <2>1. prod \in Seq(Skus \cup {Nil}) /\ Len(prod) <= MaxProducts /\ Len(prod) \in Nat
      BY DEF TypeInv, StoreTypes
    <2>2. \A n \in DOMAIN prod : n \in Ids
      BY <2>1, ConstantsAssumption DEF Ids
    <2>. QED  BY <2>1, <2>2, ConstantsAssumption
  <1>7. /\ SoldIn(prod, s) /\ skuToID[i][s] # Nil => skuToID'[i][s] # Nil
        /\ SoldIn(prod, s) /\ (\E k \in DOMAIN batch : batch[k].sku = s /\ ~batch[k].padded)
              => skuToID'[i][s] # Nil
    <2>1. ASSUME NEW m \in Found(batch, skuToID[i]), skuToID' = [skuToID EXCEPT ![i] = m]
          PROVE  <1>7!:
      <3>. DEFINE has == {n \in DOMAIN prod : prod[n] = s}
      <3>1. SoldIn(prod, s) => has # {}
        BY DEF SoldIn
      <3>2. \A n \in has : n # Nil
        BY <1>6
      <3>3. IF (\E k \in DOMAIN batch : batch[k].sku = s /\ ~batch[k].padded) /\ has # {}
            THEN m[s] \in has ELSE m[s] = skuToID[i][s]
        BY DEF Found
      <3>4. skuToID'[i] = m
        BY <2>1 DEF TypeInv, LocalTypes
      <3>. HIDE DEF has, batch
      <3>. QED  BY <3>1, <3>2, <3>3, <3>4
    <2>2. CASE UNCHANGED skuToID /\ doubtful' = doubtful \cup SkusOf(batch)
      <3>1. \A k \in DOMAIN batch : batch[k].sku # s
        <4>. HIDE DEF batch
        <4>1. s # Blank /\ s \notin SkusOf(batch)
          BY <2>2, ConstantsAssumption
        <4>. QED  BY <4>1 DEF SkusOf
      <3>. QED  BY <2>2, <3>1
    <2>. QED  BY <1>1, <2>1, <2>2
  <1>. HIDE DEF names, l, end
  <1>8. DOMAIN batch = 1..(end - l) /\ \A k \in 1..(end - l) : batch[k] = names[l + k]
    BY <1>2, <1>3, <1>4
  <1>. HIDE DEF batch
  <1>9. ASSUME NEW x \in DOMAIN names, x <= end, names[x].sku = s, SoldIn(prod, s)
        PROVE  skuToID'[i][s] # Nil
    <2>1. CASE x <= l
      BY <1>1, <1>7, <1>9, <2>1 DEF Apart, ImportApart, Known, names, l
    <2>2. CASE x > l
      <3>1. x - l \in 1..(end - l) /\ l + (x - l) = x
        BY <1>2, <1>3, <1>4, <1>9, <2>2
      <3>2. batch[x - l] = names[x]
        BY <1>8, <3>1
      <3>. QED  BY <1>3, <1>7, <1>8, <1>9, <3>1, <3>2
    <2>. QED  BY <1>2, <1>3, <2>1, <2>2
  <1>. QED  BY <1>1, <1>5, <1>9 DEF Known, names

(* When all are looked up, what is to be created no product has.           *)
LEMMA ApartLookupEnd ==
    ASSUME FlowInv, TypeInv, NEW i \in Imports, pc[i] = "lookup", NEW s \in Skus, Apart(s),
           looked[i] >= Len(Named(rows[i]))
    PROVE  \A x \in DOMAIN ToCreate(i) : ToCreate(i)[x] = s =>
              /\ NamedBy(i, s) /\ ~SoldIn(prod, s)
              /\ \A y \in DOMAIN ToCreate(i) : ToCreate(i)[y] = s => x = y
  <1>. DEFINE names == Named(rows[i])
              t == ToCreate(i)
              pick(x) == Nth(New(i), x)
  <1>1. /\ \A x \in DOMAIN t : pick(x) \in New(i) /\ t[x] = rows[i][pick(x)].sku
        /\ \A x, y \in DOMAIN t : x < y => pick(x) < pick(y)
        /\ DOMAIN t \in SUBSET Nat
        /\ \A k \in New(i) : /\ k \in DOMAIN rows[i] /\ rows[i][k].sku \in Skus
                             /\ skuToID[i][rows[i][k].sku] = Nil
    BY ToCreateIs DEF TypeInv
  <1>2. rows[i] \in Seq(Rows) /\ looked[i] \in Nat
    BY DEF TypeInv, LocalTypes
  <1>3. /\ names \in Seq(Rows)
        /\ \A k \in DOMAIN rows[i] : rows[i][k].sku # Blank => \E x \in DOMAIN names : names[x] = rows[i][k]
    BY <1>2, NamedIs
  <1>4. \A x \in DOMAIN names : x <= looked[i]
    BY <1>2, <1>3
  <1>5. \A k \in New(i) : rows[i][k].sku # Blank /\ k \in Nat
    BY <1>1, <1>2, ConstantsAssumption
  <1>6. ASSUME NEW k \in New(i), rows[i][k].sku = s PROVE ~SoldIn(prod, s) /\ NamedBy(i, s)
    <2>1. PICK x \in DOMAIN names : names[x] = rows[i][k]
      BY <1>1, <1>3, <1>5
    <2>. QED  BY <1>1, <1>4, <1>6, <2>1 DEF Apart, ImportApart, Known, NamedBy
  <1>. HIDE DEF t, pick
  <1>7. ASSUME NEW x \in DOMAIN t, NEW y \in DOMAIN t, t[x] = s, t[y] = s PROVE x = y
    <2>1. pick(x) = pick(y)
      BY <1>1, <1>7 DEF Apart, ImportApart, OneRow, Before
    <2>2. pick(x) \in Nat /\ x \in Nat /\ y \in Nat
      BY <1>1, <1>5
    <2>3. ~(x < y) /\ ~(y < x)
      BY <1>1, <2>1, <2>2
    <2>. QED  BY <2>2, <2>3
  <1>8. \A x \in DOMAIN t : t[x] = s => ~SoldIn(prod, s) /\ NamedBy(i, s)
    BY <1>1, <1>6
  <1>. QED  BY <1>7, <1>8 DEF t

LEMMA ApartLookup ==
    ASSUME FlowInv, TypeInv, GhostTypes, AllApart, NEW i \in Imports, Lookup(i) PROVE AllApart'
  <1>1. looked[i] \in Nat /\ Len(Named(rows[i])) \in Nat
    BY NamedIs DEF TypeInv, LocalTypes
  <1>2. pc[i] = "lookup" /\ UNCHANGED <<prod, rows>>
    BY DEF Lookup
  <1>3. /\ \/ /\ looked[i] < Len(Named(rows[i]))
              /\ UNCHANGED <<pc, toCreate>>
           \/ /\ looked[i] >= Len(Named(rows[i]))
              /\ pc' = [pc EXCEPT ![i] = "insert"]
              /\ toCreate' = [toCreate EXCEPT ![i] = ToCreate(i)]
              /\ UNCHANGED <<looked, skuToID>>
        /\ looked' = looked \/ \E n : looked' = [looked EXCEPT ![i] = n]
        /\ skuToID' = skuToID \/ \E m : skuToID' = [skuToID EXCEPT ![i] = m]
        /\ doubtful' = doubtful \/ \E S : doubtful' = doubtful \cup S
    BY DEF Lookup
  <1>. SUFFICES ASSUME NEW s \in Skus, s \notin doubtful' PROVE Apart(s)'
    BY DEF AllApart
  <1>4. Apart(s)
    BY <1>3 DEF AllApart
  <1>5. \A j \in Imports : j # i => /\ pc'[j] = pc[j] /\ looked'[j] = looked[j]
                                    /\ skuToID'[j] = skuToID[j] /\ toCreate'[j] = toCreate[j]
    BY <1>3 DEF TypeInv, LocalTypes, FlowInv, FlowTypes
  <1>6. OnceIn(prod', s) /\ (SoldIn(prod', s) <=> SoldIn(prod, s)) /\ pc[i] \in Before
    BY <1>2, <1>4 DEF Apart, OnceIn, SoldIn, Before
  <1>7. ImportApart(i, s)'
    <2>1. CASE looked[i] < Len(Named(rows[i]))
      <3>1. Known(i, s)'
        BY <1>4, <2>1, ApartLookupBatch
      <3>2. UNCHANGED <<pc, toCreate>>
        BY <1>1, <1>3, <2>1
      <3>3. OneRow(i, s)' /\ Fresh(i, s)'
        BY <1>2, <1>4, <1>6, <3>2 DEF Apart, ImportApart, OneRow, Fresh, NamedBy
      <3>. QED  BY <3>1, <3>3 DEF ImportApart
    <2>2. CASE looked[i] >= Len(Named(rows[i]))
      <3>1. pc'[i] = "insert" /\ toCreate'[i] = ToCreate(i)
        BY <1>1, <1>3, <2>2 DEF TypeInv, LocalTypes, FlowInv, FlowTypes
      <3>2. \A x \in DOMAIN ToCreate(i) : ToCreate(i)[x] = s =>
               /\ NamedBy(i, s) /\ ~SoldIn(prod, s)
               /\ \A y \in DOMAIN ToCreate(i) : ToCreate(i)[y] = s => x = y
        BY <1>2, <1>4, <2>2, ApartLookupEnd
      <3>3. Fresh(i, s)'
        BY <1>2, <1>6, <3>1, <3>2 DEF Fresh, NamedBy
      <3>4. OneRow(i, s)' /\ Known(i, s)'
        BY <1>2, <1>4, <3>1 DEF Apart, ImportApart, OneRow, Known, Before
      <3>. QED  BY <3>3, <3>4 DEF ImportApart
    <2>. QED  BY <1>1, <2>1, <2>2
  <1>. QED  BY <1>2, <1>4, <1>5, <1>6, <1>7, ApartStep

LEMMA ApartInsertEntities ==
    ASSUME FlowInv, TypeInv, GhostTypes, AllApart, NEW i \in Imports, InsertEntities(i)
    PROVE  AllApart'
  <1>1. /\ pc[i] = "insert" /\ pc' = [pc EXCEPT ![i] = "flush"]
        /\ toCreate' = [toCreate EXCEPT ![i] = <<>>]
        /\ UNCHANGED <<rows, looked, doubtful>>
    BY DEF InsertEntities, StartFlush
  <1>2. PICK new \in Seq(Skus \cup {Nil}) :
              /\ prod \in Seq(Skus \cup {Nil}) /\ prod' = prod \o new
              /\ new = toCreate[i] \/ \A x \in DOMAIN new : new[x] = Nil
              /\ \E m : skuToID' = [skuToID EXCEPT ![i] = m]
    BY InsertEntitiesIs
  <1>. SUFFICES ASSUME NEW s \in Skus, s \notin doubtful PROVE Apart(s)'
    BY <1>1 DEF AllApart
  <1>3. Apart(s)
    BY DEF AllApart
  <1>4. OnceIn(new, s) /\ (SoldIn(new, s) => NamedBy(i, s) /\ ~SoldIn(prod, s))
    <2>1. CASE new = toCreate[i]
      BY <1>1, <1>3, <2>1 DEF Apart, ImportApart, Fresh, OnceIn, SoldIn, Before
    <2>2. CASE \A x \in DOMAIN new : new[x] = Nil
      BY <2>2, ConstantsAssumption DEF OnceIn, SoldIn
    <2>. QED  BY <1>2, <2>1, <2>2
  <1>5. OnceIn(prod', s) /\ (SoldIn(prod', s) => SoldIn(prod, s) \/ SoldIn(new, s))
    BY <1>2, <1>3, <1>4, AppendOnce DEF Apart
  <1>6. pc'[i] = "flush" /\ pc[i] \in Before
    BY <1>1 DEF FlowInv, FlowTypes, Before
  <1>7. ImportApart(i, s)' /\ pc'[i] \notin Before
    BY <1>6, ApartAfter DEF Before
  <1>8. \A j \in Imports : j # i => /\ pc'[j] = pc[j] /\ looked'[j] = looked[j]
                                    /\ skuToID'[j] = skuToID[j] /\ toCreate'[j] = toCreate[j]
    BY <1>1, <1>2 DEF TypeInv, LocalTypes, FlowInv, FlowTypes
  <1>. QED  BY <1>1, <1>3, <1>4, <1>5, <1>6, <1>7, <1>8, ApartStep

LEMMA ApartInsertRows ==
    ASSUME FlowInv, TypeInv, GhostTypes, AllApart, NEW i \in Imports, InsertRows(i)
    PROVE  AllApart'
  <1>. DEFINE new == Batch(i)
              todo == toCreate[i]
  <1>1. /\ pc[i] \in {"rows", "unsequenced"} /\ pc' = [pc EXCEPT ![i] = "lastid"]
        /\ UNCHANGED <<rows, looked, skuToID, toCreate, doubtful>>
    BY DEF InsertRows
  <1>2. /\ prod \in Seq(Skus \cup {Nil}) /\ new \in Seq(Skus \cup {Nil})
        /\ UNCHANGED prod \/ prod' = prod \o new
    BY InsertRowsIs
  <1>3. /\ Len(new) \in 0..Len(todo) /\ Len(todo) \in Nat /\ DOMAIN todo = 1..Len(todo)
        /\ DOMAIN new = 1..Len(new) /\ \A k \in DOMAIN new : new[k] = todo[k]
    <2>1. toCreate[i] \in Seq(Skus)
      BY BatchIs DEF TypeInv
    <2>. QED  BY <2>1, BatchIs DEF TypeInv
  <1>4. Batch(i)' = new /\ toCreate'[i] = todo
    BY <1>1 DEF Batch, BatchEnd
  <1>. HIDE DEF new, todo
  <1>. SUFFICES ASSUME NEW s \in Skus, s \notin doubtful PROVE Apart(s)'
    BY <1>1 DEF AllApart
  <1>5. Apart(s)
    BY DEF AllApart
  <1>6. \A x \in DOMAIN todo : todo[x] = s =>
           NamedBy(i, s) /\ ~SoldIn(prod, s) /\ \A y \in DOMAIN todo : todo[y] = s => x = y
    BY <1>1, <1>5 DEF Apart, ImportApart, Fresh, Before, todo
  <1>7. /\ \A k \in DOMAIN new : k \in DOMAIN todo /\ k <= Len(new)
        /\ \A x \in DOMAIN todo : \A k \in DOMAIN new : x > Len(new) => x # k
    BY <1>3
  <1>8. OnceIn(new, s) /\ (SoldIn(new, s) => NamedBy(i, s) /\ ~SoldIn(prod, s))
    BY <1>3, <1>6, <1>7 DEF OnceIn, SoldIn
  <1>9. OnceIn(prod', s) /\ (SoldIn(prod', s) => SoldIn(prod, s) \/ SoldIn(new, s))
    <2>1. CASE UNCHANGED prod
      BY <1>5, <2>1 DEF Apart, OnceIn, SoldIn
    <2>2. CASE prod' = prod \o new
      BY <1>2, <1>5, <1>8, <2>2, AppendOnce DEF Apart
    <2>. QED  BY <1>2, <2>1, <2>2
  <1>10. pc'[i] = "lastid" /\ pc[i] \in Before
    BY <1>1 DEF FlowInv, FlowTypes, Before
  <1>11. ImportApart(i, s)'
    <2>1. OneRow(i, s)' /\ Known(i, s)'
      BY <1>1, <1>5, <1>10 DEF Apart, ImportApart, OneRow, Known, Before
    <2>2. \A x \in DOMAIN todo : todo[x] = s /\ x > Len(new) => ~SoldIn(prod', s)
      BY <1>3, <1>6, <1>7, <1>9 DEF SoldIn
    <2>3. Fresh(i, s)'
      BY <1>1, <1>4, <1>6, <1>10, <2>2 DEF Fresh, NamedBy
    <2>. QED  BY <2>1, <2>3 DEF ImportApart
  <1>12. \A j \in Imports : j # i => /\ pc'[j] = pc[j] /\ looked'[j] = looked[j]
                                     /\ skuToID'[j] = skuToID[j] /\ toCreate'[j] = toCreate[j]
    BY <1>1 DEF FlowInv, FlowTypes
  <1>. QED  BY <1>1, <1>5, <1>8, <1>9, <1>10, <1>11, <1>12, ApartStep

LEMMA ApartReadLastInsertID ==
    ASSUME FlowInv, TypeInv, AllApart, NEW i \in Imports, ReadLastInsertID(i)
    PROVE  AllApart'
  <1>. DEFINE b == Len(Batch(i))
              todo == toCreate[i]
              rest == SubSeq(todo, b + 1, Len(todo))
  <1>1. /\ pc[i] = "lastid" /\ UNCHANGED <<prod, rows, looked, doubtful>>
        /\ toCreate' = [toCreate EXCEPT ![i] = rest]
        /\ pc' = [pc EXCEPT ![i] = "insert"]
        /\ \E m : skuToID' = [skuToID EXCEPT ![i] = m]
    BY DEF ReadLastInsertID
  <1>2. todo \in Seq(Skus) /\ Len(todo) \in Nat /\ b \in 0..Len(todo) /\ DOMAIN todo = 1..Len(todo)
    BY BatchIs DEF TypeInv
  <1>3. pc'[i] = "insert" /\ toCreate'[i] = rest /\ pc[i] \in Before
    BY <1>1 DEF TypeInv, LocalTypes, FlowInv, FlowTypes, Before
  <1>. SUFFICES ASSUME NEW s \in Skus, s \notin doubtful PROVE Apart(s)'
    BY <1>1 DEF AllApart
  <1>4. Apart(s)
    BY DEF AllApart
  <1>5. \A x \in DOMAIN todo : todo[x] = s =>
           /\ NamedBy(i, s) /\ (x > b => ~SoldIn(prod, s))
           /\ \A y \in DOMAIN todo : todo[y] = s => x = y
    BY <1>1, <1>4 DEF Apart, ImportApart, Fresh, Before
  <1>6. \A x \in DOMAIN rest : rest[x] = s =>
           /\ NamedBy(i, s) /\ ~SoldIn(prod, s)
           /\ \A y \in DOMAIN rest : rest[y] = s => x = y
    <2>. HIDE DEF b, todo
    <2>1. DOMAIN rest = 1..(Len(todo) - b) /\ \A x \in 1..(Len(todo) - b) : rest[x] = todo[b + x]
      BY <1>2
    <2>2. \A x \in DOMAIN rest : b + x \in DOMAIN todo /\ b + x > b
      BY <1>2, <2>1
    <2>3. \A x, y \in DOMAIN rest : b + x = b + y => x = y
      BY <1>2, <2>1
    <2>. HIDE DEF rest
    <2>. QED  BY <1>5, <2>1, <2>2, <2>3
  <1>. HIDE DEF b, rest, todo
  <1>7. ImportApart(i, s)'
    <2>1. OneRow(i, s)' /\ Known(i, s)'
      BY <1>1, <1>3, <1>4 DEF Apart, ImportApart, OneRow, Known, Before
    <2>2. SoldIn(prod', s) <=> SoldIn(prod, s)
      BY <1>1 DEF SoldIn
    <2>3. Fresh(i, s)'
      BY <1>1, <1>3, <1>6, <2>2 DEF Fresh, NamedBy
    <2>. QED  BY <2>1, <2>3 DEF ImportApart
  <1>8. \A j \in Imports : j # i => /\ pc'[j] = pc[j] /\ looked'[j] = looked[j]
                                    /\ skuToID'[j] = skuToID[j] /\ toCreate'[j] = toCreate[j]
    BY <1>1 DEF TypeInv, LocalTypes, FlowInv, FlowTypes
  <1>9. OnceIn(prod', s) /\ (SoldIn(prod', s) => SoldIn(prod, s))
    BY <1>1, <1>4 DEF Apart, OnceIn, SoldIn
  <1>. QED  BY <1>1, <1>3, <1>4, <1>7, <1>8, <1>9, ApartStep

(* The steps that touch neither products nor what is to be created.        *)
LEMMA ApartMoves ==
    ASSUME FlowInv, TypeInv, AllApart, NEW i \in Imports,
           UNCHANGED <<prod, rows, looked, skuToID, toCreate, doubtful>>,
           \/ pc' = pc
           \/ pc' = [pc EXCEPT ![i] = "idle"] \/ pc' = [pc EXCEPT ![i] = "flush"]
           \/ pc[i] = "insert" /\ \E l \in {"rows", "unsequenced"} : pc' = [pc EXCEPT ![i] = l]
    PROVE  AllApart'
  <1>. SUFFICES ASSUME NEW s \in Skus, s \notin doubtful PROVE Apart(s)'
    BY DEF AllApart
  <1>1. Apart(s)
    BY DEF AllApart
  <1>2. OnceIn(prod', s) /\ (SoldIn(prod', s) <=> SoldIn(prod, s))
    BY <1>1 DEF Apart, OnceIn, SoldIn
  <1>3. \A j \in Imports : j # i => pc'[j] = pc[j]
    BY DEF FlowInv, FlowTypes
  <1>4. ImportApart(i, s)' /\ (pc[i] \in Before \/ pc'[i] \notin Before)
    <2>1. CASE pc' = pc
      BY <1>1, <1>2, <2>1, ApartFrame DEF Apart
    <2>2. CASE pc' = [pc EXCEPT ![i] = "idle"] \/ pc' = [pc EXCEPT ![i] = "flush"]
      <3>1. pc'[i] \notin Before
        BY <2>2 DEF FlowInv, FlowTypes, Before
      <3>. QED  BY <3>1, ApartAfter
    <2>3. CASE pc[i] = "insert" /\ \E l \in {"rows", "unsequenced"} : pc' = [pc EXCEPT ![i] = l]
      <3>1. pc'[i] \in {"rows", "unsequenced"} /\ pc[i] = "insert"
        BY <2>3 DEF FlowInv, FlowTypes
      <3>. QED  BY <1>1, <1>2, <3>1 DEF Apart, ImportApart, OneRow, Known, Fresh, NamedBy, Before
    <2>. QED  BY <2>1, <2>2, <2>3
  <1>. QED  BY <1>1, <1>2, <1>3, <1>4, ApartStep

LEMMA ApartNext == FlowInv /\ TypeInv /\ GhostTypes /\ AllApart /\ [Next]_vars => AllApart'
  <1>. SUFFICES ASSUME FlowInv, TypeInv, GhostTypes, AllApart, [Next]_vars PROVE AllApart'
    OBVIOUS
  <1>1. ASSUME NEW i \in Imports, InsertSequence(i) \/ AllInserted(i) \/ Join(i) PROVE AllApart'
    BY <1>1, ApartMoves DEF InsertSequence, AllInserted, StartFlush, Join, created
  <1>2. ASSUME NEW i \in Imports, Main(i) PROVE AllApart'
    BY <1>1, <1>2, ApartLookup, ApartInsertEntities, ApartInsertRows, ApartReadLastInsertID DEF Main
  <1>3. ASSUME NEW i \in Imports, NEW c \in Columns, Write(i, c) PROVE AllApart'
    <2>1. UNCHANGED <<prod, pc, rows, looked, skuToID, toCreate, doubtful>>
      BY <1>3 DEF Write, WriteTable, WriteGallery, WriteFails, created
    <2>. QED  BY <2>1, ApartMoves
  <1>4. ASSUME NEW i \in Imports, NEW m \in Modules, Send(i, m) PROVE AllApart'
    BY <1>4, ApartMoves DEF Send, created
  <1>5. ASSUME UNCHANGED vars PROVE AllApart'
    <2>1. UNCHANGED <<prod, pc, rows, looked, skuToID, toCreate, doubtful>>
      BY <1>5 DEF vars, local, created
    <2>2. ASSUME NEW s \in Skus, Apart(s) PROVE Apart(s)'
      <3>1. OnceIn(prod', s) /\ (SoldIn(prod', s) => SoldIn(prod, s))
        BY <2>1, <2>2 DEF Apart, OnceIn, SoldIn
      <3>2. Alone(s)'
        BY <2>1, <2>2, AloneFrame DEF Apart
      <3>3. \A j \in Imports : ImportApart(j, s)'
        BY <2>1, <2>2, <3>1, ApartFrame DEF Apart
      <3>. QED  BY <3>1, <3>2, <3>3 DEF Apart
    <2>. QED  BY <2>1, <2>2 DEF AllApart
  <1>. QED  BY <1>2, <1>3, <1>4, <1>5, ApartStart DEF Next, GoOn

(* "Existing products are updated": for every file, failure, schema and    *)
(* overlap of imports, an SKU is two products' only for a reason that       *)
(* doubtful records: it was before, a file names it twice or padded, its    *)
(* lookup failed, or two imports both had it still to create.              *)
THEOREM NoProductTwice == Spec => []NoDuplicateProducts
  <1>1. AllApart /\ TypeInv => NoDuplicateProducts
    <2>. SUFFICES ASSUME AllApart, TypeInv, NEW m \in DOMAIN prod, NEW n \in DOMAIN prod,
                         HasProduct(m), prod[m] = prod[n], prod[m] \notin doubtful
                  PROVE  m = n
      BY DEF NoDuplicateProducts
    <2>1. prod[m] \in Skus
      <3>1. prod[m] \in Skus \cup {Nil}
        BY ElementOf DEF TypeInv, StoreTypes
      <3>. QED  BY <3>1 DEF HasProduct
    <2>. QED  BY <2>1 DEF AllApart, Apart, OnceIn
  <1>. QED  BY <1>1, ApartInit, ApartNext, Flow, Typed, Ghosts, PTL DEF Spec
=============================================================================

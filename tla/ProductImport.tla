------------------------------ MODULE ProductImport ------------------------------
(***************************************************************************)
(* products:import.  An import looks up the SKUs of a CSV file, creates the *)
(* products that are missing, and flushes what the rows say to the typed   *)
(* attribute tables, the stock, gallery and price tables, all at once: four *)
(* goroutines, the first of which starts one per attribute table, each     *)
(* writing in batches.  Queries may fail.                                  *)
(*                                                                         *)
(* A row has one cell per column below, and a column one table: the typed  *)
(* tables' attributes, and the columns of one stock or price row, are not  *)
(* told apart.  A cell is a value, blank, or bad: a value that does not    *)
(* parse, which skips the cell, or the row's stock or price, with a warning. *)
(* A padded SKU is one with spaces in front, which MySQL tells from the SKU. *)
(***************************************************************************)
EXTENDS Positions, SequencesExt

CONSTANTS Imports,      \* import processes
          Skus,         \* trimmed SKUs
          EavTables,    \* the typed attribute tables
          Values,       \* cell values
          Files,        \* the CSV files imported, as sequences of rows
          Catalogues,   \* the products there may be before, as sequences of SKUs
          BatchSize,    \* --batch-size
          RawSQL,       \* --raw-sql
          Schemas,      \* the schemas there may be: TRUE for tables keyed by row_id
          MaxRuns,      \* bound on the imports of a process
          MaxFailures,  \* bound on the queries that fail or take a new connection
          MaxProducts,  \* bound on the product ids
          Blank, Bad, Nil

Tables == EavTables \cup {"stock", "price"}
Columns == Tables \cup {"gallery"}
Rows == [sku : Skus \cup {Blank}, padded : BOOLEAN,
         cell : [Columns -> Values \cup {Blank, Bad}]]
Ids == 0..MaxProducts   \* no product has id 0
Numbers == Ids \cup {Nil}

ASSUME ConstantsAssumption ==
    /\ Files \subseteq Seq(Rows) /\ Catalogues \subseteq Seq(Skus)
    /\ \A c \in Catalogues : Len(c) <= MaxProducts
    /\ IsFiniteSet(Skus) /\ EavTables \cap {"stock", "price", "gallery"} = {}
    /\ BatchSize \in Nat \ {0}
    /\ RawSQL \in BOOLEAN /\ Schemas \subseteq BOOLEAN
    /\ MaxRuns \in Nat /\ MaxFailures \in Nat /\ MaxProducts \in Nat
    /\ Blank \notin Skus \cup Values \cup {Bad} /\ Bad \notin Values
    /\ Nil \notin Values \cup Ids \cup Skus

VARIABLES
    enterprise,  \* productEntity.IsEnterprise, detected at start-up
    prod,     \* catalog_product_entity: id -> SKU, or Nil for an id rolled back
    tab,      \* the attribute, stock and price tables: table -> id -> value
    gallery,  \* the media gallery: image -> its rows
    pc,       \* an import is "idle", at "lookup", "insert", "rows" or "unsequenced",
              \* "lastid" or "flush"
    rows,     \* its rows
    looked,   \* how many SKUs it has looked up
    skuToID,  \* its map from SKU to id
    toCreate, \* the SKUs it has still to insert
    lastID,   \* what LAST_INSERT_ID() is on the connection it inserted them
    worker,   \* column -> its goroutine: "none", "run", "done" or "err"
    pos,      \* column -> rows written
    errs,     \* module -> what its goroutine sent to errs
    res,      \* the result of the last import: "none", "ok" or "err"
    rewritten, \* ghost: the cells of tables that other imports wrote since it did
    uncreated, \* ghost: the SKUs that an import has failed to insert
    misread,   \* ghost: the SKUs whose ids it has read on another connection
    doubtful,  \* ghost: the SKUs an import may not have known to be products'
    runs, failures

local == <<pc, rows, looked, skuToID, toCreate, lastID, worker, pos, errs, res, runs>>
created == <<uncreated, misread, doubtful>>
vars == <<enterprise, prod, tab, gallery, local, rewritten, created, failures>>

(* The goroutines ImportProducts starts, and the columns each of them writes. *)
Modules == {"eav", "stock", "gallery", "price"}
Written(m) == IF m = "eav" THEN EavTables ELSE {m}

(* Capacities of the channels that collect the errors.  Mutant: unbuffered. *)
ErrsCapUnbuffered == 0
ErrsCap == 4
EavErrsCap == Cardinality(EavTables)

(* The SKUs of a file, and those that come twice in it or that are padded.  *)
SkusOf(f) == {f[k].sku : k \in DOMAIN f} \ {Blank}
Unclear(f) ==
    {s \in SkusOf(f) : \E j, k \in DOMAIN f :
        f[j].sku = s /\ f[k].sku = s /\ (j # k \/ f[j].padded)}
Twice(p) == {s \in Skus : \E m, n \in DOMAIN p : m # n /\ p[m] = s /\ p[n] = s}

(* The imports that have not yet created what they are going to create, and *)
(* the SKUs of a file that are also in theirs.                             *)
Before == {"lookup", "insert", "rows", "unsequenced", "lastid"}
Shared(i, f) ==
    {s \in SkusOf(f) : \E j \in Imports \ {i} : pc[j] \in Before /\ s \in SkusOf(rows[j])}

EachColumn(x) == [c \in Columns |-> x]
NoIds == [s \in Skus |-> Nil]

Init ==
    /\ enterprise \in Schemas
    /\ prod \in Catalogues
    /\ tab = [t \in Tables |-> [n \in Ids |-> Nil]]
    /\ gallery = [v \in Values |-> 0]
    /\ pc = [i \in Imports |-> "idle"]
    /\ rows = [i \in Imports |-> <<>>]
    /\ looked = [i \in Imports |-> 0]
    /\ skuToID = [i \in Imports |-> NoIds]
    /\ toCreate = [i \in Imports |-> <<>>]
    /\ lastID = [i \in Imports |-> 0]
    /\ worker = [i \in Imports |-> EachColumn("none")]
    /\ pos = [i \in Imports |-> EachColumn(0)]
    /\ errs = [i \in Imports |-> [m \in Modules |-> "none"]]
    /\ res = [i \in Imports |-> "none"]
    /\ rewritten = [i \in Imports |-> {}]
    /\ uncreated = [i \in Imports |-> {}]
    /\ misread = [i \in Imports |-> {}]
    /\ doubtful = Twice(prod)
    /\ runs = [i \in Imports |-> 0]
    /\ failures = 0

-----------------------------------------------------------------------------
(* ImportProducts reads the file and the attributes, or fails at once.     *)
Start(i) ==
    /\ pc[i] = "idle" /\ runs[i] < MaxRuns
    /\ runs' = [runs EXCEPT ![i] = @ + 1]
    /\ looked' = [looked EXCEPT ![i] = 0]
    /\ skuToID' = [skuToID EXCEPT ![i] = NoIds]
    /\ toCreate' = [toCreate EXCEPT ![i] = <<>>]
    /\ lastID' = [lastID EXCEPT ![i] = 0]
    /\ worker' = [worker EXCEPT ![i] = EachColumn("none")]
    /\ pos' = [pos EXCEPT ![i] = EachColumn(0)]
    /\ errs' = [errs EXCEPT ![i] = [m \in Modules |-> "none"]]
    /\ rewritten' = [rewritten EXCEPT ![i] = {}]
    /\ uncreated' = [uncreated EXCEPT ![i] = {}]
    /\ misread' = [misread EXCEPT ![i] = {}]
    /\ \/ /\ \E f \in Files :
              /\ rows' = [rows EXCEPT ![i] = f]
              /\ doubtful' = doubtful \cup Unclear(f) \cup Shared(i, f)
          /\ pc' = [pc EXCEPT ![i] = "lookup"]
          /\ res' = [res EXCEPT ![i] = "none"]
          /\ UNCHANGED failures
       \/ /\ failures < MaxFailures
          /\ failures' = failures + 1
          /\ rows' = [rows EXCEPT ![i] = <<>>]
          /\ res' = [res EXCEPT ![i] = "err"]
          /\ UNCHANGED <<pc, doubtful>>
    /\ UNCHANGED <<enterprise, prod, tab, gallery>>

(* The end of the batch that begins after k of n rows.                     *)
BatchEnd(k, n) == IF k + BatchSize > n THEN n ELSE k + BatchSize

(* The rows that are looked up: SKUs as they are in the file, not trimmed. *)
Named(f) == Kept(f, {k \in DOMAIN f : f[k].sku # Blank})

(* What a batch of lookupSKUs may add to the map: for each SKU that some   *)
(* product has, the id of one that has it.  Mutant: a batch replaces what   *)
(* the batches before found.                                               *)
FoundReplaces(batch, ids) ==
    {m \in [Skus -> Numbers] :
       \A s \in Skus :
          LET has == {n \in DOMAIN prod : prod[n] = s}
          IN IF (\E k \in DOMAIN batch : batch[k].sku = s /\ ~batch[k].padded) /\ has # {}
             THEN m[s] \in has ELSE m[s] = Nil}
Found(batch, ids) ==
    {m \in [Skus -> Numbers] :
       \A s \in Skus :
          LET has == {n \in DOMAIN prod : prod[n] = s}
          IN IF (\E k \in DOMAIN batch : batch[k].sku = s /\ ~batch[k].padded) /\ has # {}
             THEN m[s] \in has ELSE m[s] = ids[s]}

(* The rows with an SKU the map lacks.                                     *)
New(i) == {k \in DOMAIN rows[i] : LET s == rows[i][k].sku IN s # Blank /\ skuToID[i][s] = Nil}

(* insertNewEntities' toCreate: all of them.  Mutant: all but the last.    *)
ToCreateButLast(i) == [k \in 1..(Cardinality(New(i)) - 1) |-> rows[i][Nth(New(i), k)].sku]
ToCreate(i) == [k \in 1..Cardinality(New(i)) |-> rows[i][Nth(New(i), k)].sku]

(* lookupSKUs, one batch; the error of its query is dropped.  After the     *)
(* last batch, the SKUs to create are those the map lacks.                 *)
Lookup(i) ==
    /\ pc[i] = "lookup"
    /\ LET names == Named(rows[i])
           end == BatchEnd(looked[i], Len(names))
           batch == SubSeq(names, looked[i] + 1, end)
       IN \/ /\ looked[i] < Len(names)
             /\ looked' = [looked EXCEPT ![i] = end]
             /\ \/ /\ \E m \in Found(batch, skuToID[i]) : skuToID' = [skuToID EXCEPT ![i] = m]
                   /\ UNCHANGED <<doubtful, failures>>
                \/ /\ failures < MaxFailures
                   /\ failures' = failures + 1
                   /\ doubtful' = doubtful \cup SkusOf(batch)
                   /\ UNCHANGED skuToID
             /\ UNCHANGED <<pc, toCreate>>
          \/ /\ looked[i] >= Len(names)
             /\ pc' = [pc EXCEPT ![i] = "insert"]
             /\ toCreate' = [toCreate EXCEPT ![i] = ToCreate(i)]
             /\ UNCHANGED <<looked, skuToID, doubtful, failures>>
    /\ UNCHANGED <<prod, tab, gallery, rows, lastID, worker, pos, errs, res, uncreated, misread, runs>>

(* skuToID with the SKUs of the batch's rows at the rows' ids.  Of equal    *)
(* SKUs the last counts.  Mutant: the ids are given in the reverse order.  *)
NumberedReversed(map, batch, ids) ==
    [s \in Skus |->
       LET at == {k \in DOMAIN batch : batch[k] = s}
       IN IF at = {} THEN map[s] ELSE ids[Len(batch) + 1 - Greatest(at)]]
Numbered(map, batch, ids) ==
    [s \in Skus |->
       LET at == {k \in DOMAIN batch : batch[k] = s}
       IN IF at = {} THEN map[s] ELSE ids[Greatest(at)]]

(* All modules' goroutines are started, on what the rows and the map give. *)
StartFlush(i) ==
    /\ pc' = [pc EXCEPT ![i] = "flush"]
    /\ worker' = [worker EXCEPT ![i] = EachColumn("run")]

(* insertNewEntities with entity ids: one Create, in batches of one        *)
(* transaction.  Its error is dropped: the rows of the batches before have  *)
(* ids that were rolled back, the others have none.                        *)
InsertEntities(i) ==
    LET new == toCreate[i]
    IN /\ pc[i] = "insert" /\ ~enterprise
       /\ Len(prod) + Len(new) <= MaxProducts
       /\ \/ /\ prod' = prod \o new
             /\ skuToID' = [skuToID EXCEPT ![i] = Numbered(@, new,
                                    [k \in DOMAIN new |-> Len(prod) + k])]
             /\ UNCHANGED <<uncreated, failures>>
          \/ /\ failures < MaxFailures
             /\ failures' = failures + 1
             /\ uncreated' = [uncreated EXCEPT ![i] = @ \cup Range(new)]
             /\ \E n \in {k \in 0..(Len(new) - 1) : k % BatchSize = 0} :
                  /\ prod' = prod \o [k \in 1..n |-> Nil]
                  /\ skuToID' = [skuToID EXCEPT ![i] = Numbered(@, new,
                                    [k \in DOMAIN new |-> IF k <= n THEN Len(prod) + k ELSE 0])]
       /\ toCreate' = [toCreate EXCEPT ![i] = <<>>]
       /\ StartFlush(i)
       /\ UNCHANGED <<tab, gallery, rows, looked, lastID, pos, errs, res, misread, doubtful, runs>>

(* insertProductsRowIDSchema, batch by batch, without a look at an error:   *)
(* a batch gets entity ids from sequence_product, the first of which        *)
(* LAST_INSERT_ID() tells, unless the insert or the query fails, or the     *)
(* query takes a new connection of the pool ...                            *)
Batch(i) == SubSeq(toCreate[i], 1, BatchEnd(0, Len(toCreate[i])))

InsertSequence(i) ==
    /\ pc[i] = "insert" /\ enterprise /\ toCreate[i] # <<>>
    /\ \/ /\ pc' = [pc EXCEPT ![i] = "rows"]
          /\ UNCHANGED failures
       \/ /\ failures < MaxFailures
          /\ failures' = failures + 1
          /\ pc' = [pc EXCEPT ![i] = "unsequenced"]
    /\ UNCHANGED <<prod, tab, gallery, rows, looked, skuToID, toCreate, lastID, worker, pos, errs, res,
                   created, runs>>

(* ... is inserted, which wrong entity ids may make fail too (whose they    *)
(* are is not told apart); after an error the connection's last id is that  *)
(* of the sequence, or of some earlier insert ...                          *)
InsertRows(i) ==
    /\ pc[i] \in {"rows", "unsequenced"}
    /\ Len(prod) + Len(Batch(i)) <= MaxProducts
    /\ pc' = [pc EXCEPT ![i] = "lastid"]
    /\ \/ /\ prod' = prod \o Batch(i)
          /\ lastID' = [lastID EXCEPT ![i] = Len(prod) + 1]
          /\ UNCHANGED <<uncreated, failures>>
       \/ /\ \/ failures < MaxFailures /\ failures' = failures + 1
             \/ pc[i] = "unsequenced" /\ UNCHANGED failures
          /\ \E n \in 0..(MaxProducts - Len(Batch(i))) : lastID' = [lastID EXCEPT ![i] = n]
          /\ uncreated' = [uncreated EXCEPT ![i] = @ \cup Range(Batch(i))]
          /\ UNCHANGED prod
    /\ UNCHANGED <<tab, gallery, rows, looked, skuToID, toCreate, worker, pos, errs, res,
                   misread, doubtful, runs>>

(* ... and is given the row ids from LAST_INSERT_ID() on, asked for on the  *)
(* connection that inserted it, or on a new one, which has none.           *)
ReadLastInsertID(i) ==
    /\ pc[i] = "lastid"
    /\ \/ /\ skuToID' = [skuToID EXCEPT ![i] = Numbered(@, Batch(i),
                                       [k \in DOMAIN Batch(i) |-> lastID[i] + k - 1])]
          /\ UNCHANGED <<misread, failures>>
       \/ /\ failures < MaxFailures
          /\ failures' = failures + 1
          /\ skuToID' = [skuToID EXCEPT ![i] = Numbered(@, Batch(i), [k \in DOMAIN Batch(i) |-> k - 1])]
          /\ misread' = [misread EXCEPT ![i] = @ \cup Range(Batch(i))]
    /\ toCreate' = [toCreate EXCEPT ![i] = SubSeq(@, Len(Batch(i)) + 1, Len(@))]
    /\ pc' = [pc EXCEPT ![i] = "insert"]
    /\ UNCHANGED <<prod, tab, gallery, rows, looked, lastID, worker, pos, errs, res,
                   uncreated, doubtful, runs>>

AllInserted(i) ==
    /\ pc[i] = "insert" /\ enterprise /\ toCreate[i] = <<>>
    /\ StartFlush(i)
    /\ UNCHANGED <<prod, tab, gallery, rows, looked, skuToID, toCreate, lastID, pos, errs, res,
                   created, runs, failures>>

-----------------------------------------------------------------------------
(* The rows that give column c of a product in the map a value.  Mutant:   *)
(* values that do not parse are kept.                                      *)
GoodUnparsed(i, c) ==
    {k \in DOMAIN rows[i] : /\ rows[i][k].sku # Blank
                            /\ skuToID[i][rows[i][k].sku] # Nil
                            /\ rows[i][k].cell[c] # Blank}
Good(i, c) ==
    {k \in DOMAIN rows[i] : /\ rows[i][k].sku # Blank
                            /\ skuToID[i][rows[i][k].sku] # Nil
                            /\ rows[i][k].cell[c] \notin {Blank, Bad}}

(* What collectEAV, collectStock and collectPrice make of them.            *)
Collected(i, c) ==
    [k \in 1..Cardinality(Good(i, c)) |->
       LET r == rows[i][Nth(Good(i, c), k)] IN [id |-> skuToID[i][r.sku], value |-> r.cell[c]]]

(* The images collectGallery keeps: each once per SKU.                     *)
Images(i) ==
    {x \in Skus \X Values : \E k \in DOMAIN rows[i] :
        rows[i][k].sku = x[1] /\ skuToID[i][x[1]] # Nil /\ rows[i][k].cell["gallery"] = x[2]}

(* INSERT ... ON DUPLICATE KEY UPDATE, row after row.  Mutant: ON CONFLICT DO *)
(* NOTHING.                                                                *)
UpsertKeepsFirst(f, batch) ==
    FoldLeft(LAMBDA g, r : [g EXCEPT ![r.id] = IF @ = Nil THEN r.value ELSE @], f, batch)
Upsert(f, batch) == FoldLeft(LAMBDA g, r : [g EXCEPT ![r.id] = r.value], f, batch)

(* Raw SQL commits batch by batch; GORM's CreateInBatches puts all batches *)
(* of a table into one transaction.                                        *)
WriteEnd(i, c) ==
    LET n == Cardinality(Good(i, c))
    IN IF c \in EavTables /\ (RawSQL \/ enterprise) THEN BatchEnd(pos[i][c], n) ELSE n

(* rawBatchUpsert and CreateInBatches: the next write of a table.          *)
WriteTable(i, c) ==
    LET d == Collected(i, c)
        end == WriteEnd(i, c)
        cells == {<<c, d[k].id>> : k \in (pos[i][c] + 1)..end}
    IN /\ c \in Tables /\ worker[i][c] = "run"
       /\ tab' = [tab EXCEPT ![c] = Upsert(@, SubSeq(d, pos[i][c] + 1, end))]
       /\ pos' = [pos EXCEPT ![i][c] = end]
       /\ worker' = [worker EXCEPT ![i][c] = IF end < Cardinality(Good(i, c)) THEN "run" ELSE "done"]
       /\ rewritten' = [j \in Imports |-> IF j = i THEN rewritten[j] \ cells
                                          ELSE rewritten[j] \cup cells]
       /\ UNCHANGED <<prod, gallery, pc, rows, looked, skuToID, toCreate, lastID, errs, res, runs,
                      failures>>

(* flushGallery only ever inserts.                                         *)
WriteGallery(i) ==
    /\ worker[i]["gallery"] = "run"
    /\ gallery' = [v \in Values |-> gallery[v] + Cardinality({s \in Skus : <<s, v>> \in Images(i)})]
    /\ worker' = [worker EXCEPT ![i]["gallery"] = "done"]
    /\ UNCHANGED <<prod, tab, pc, rows, looked, skuToID, toCreate, lastID, pos, errs, res,
                   rewritten, runs, failures>>

HasProduct(n) == n \in DOMAIN prod /\ prod[n] # Nil

(* A write fails, as any may, and one for no product does when the tables  *)
(* have foreign keys.  Its goroutine ends; an attribute table's sends the  *)
(* error to flushEAV's channel.                                            *)
WriteFails(i, c) ==
    LET d == Collected(i, c)
    IN /\ worker[i][c] = "run"
       /\ Good(i, c) # {}
       /\ \/ /\ failures < MaxFailures
             /\ failures' = failures + 1
          \/ /\ \E k \in (pos[i][c] + 1)..WriteEnd(i, c) : ~HasProduct(d[k].id)
             /\ c # "gallery"
             /\ UNCHANGED failures
       /\ c \in EavTables => Cardinality({t \in EavTables : worker[i][t] = "err"}) < EavErrsCap
       /\ worker' = [worker EXCEPT ![i][c] = "err"]
       /\ UNCHANGED <<prod, tab, gallery, pc, rows, looked, skuToID, toCreate, lastID, pos, errs, res,
                      rewritten, runs>>

(* What a module's flush returns.  Mutant: flushEAV forgets its errors.    *)
FlushResultForgetsEav(i, m) == IF m # "eav" /\ worker[i][m] = "err" THEN "err" ELSE "nil"
FlushResult(i, m) == IF \E c \in Written(m) : worker[i][c] = "err" THEN "err" ELSE "nil"

(* A module's goroutine has waited for its own ones and sends its result.  *)
Send(i, m) ==
    /\ pc[i] = "flush" /\ errs[i][m] = "none"
    /\ \A c \in Written(m) : worker[i][c] \in {"done", "err"}
    /\ Cardinality({x \in Modules : errs[i][x] # "none"}) < ErrsCap
    /\ errs' = [errs EXCEPT ![i][m] = FlushResult(i, m)]
    /\ UNCHANGED <<enterprise, prod, tab, gallery, pc, rows, looked, skuToID, toCreate, lastID, worker, pos,
                   res, rewritten, created, runs, failures>>

(* Mutant: the first error ends the import.                                *)
JoinEarly(i) ==
    /\ pc[i] = "flush"
    /\ LET failed == \E m \in Modules : errs[i][m] = "err"
       IN /\ failed \/ \A m \in Modules : errs[i][m] # "none"
          /\ res' = [res EXCEPT ![i] = IF failed THEN "err" ELSE "ok"]
    /\ pc' = [pc EXCEPT ![i] = "idle"]
    /\ UNCHANGED <<prod, tab, gallery, rows, looked, skuToID, toCreate, lastID, worker, pos, errs, created,
                   runs, failures>>

(* wg.Wait, then the errors are read: any makes the import fail.           *)
Join(i) ==
    /\ pc[i] = "flush"
    /\ \A m \in Modules : errs[i][m] # "none"
    /\ res' = [res EXCEPT ![i] = IF \E m \in Modules : errs[i][m] = "err" THEN "err" ELSE "ok"]
    /\ pc' = [pc EXCEPT ![i] = "idle"]
    /\ UNCHANGED <<prod, tab, gallery, rows, looked, skuToID, toCreate, lastID, worker, pos, errs, created,
                   runs, failures>>

Main(i) ==
    /\ \/ Lookup(i) \/ InsertEntities(i)
       \/ InsertSequence(i) \/ InsertRows(i) \/ ReadLastInsertID(i) \/ AllInserted(i)
       \/ Join(i)
    /\ UNCHANGED <<enterprise, rewritten>>
Write(i, c) ==
    /\ WriteTable(i, c) \/ (c = "gallery" /\ WriteGallery(i)) \/ WriteFails(i, c)
    /\ UNCHANGED <<enterprise, created>>

GoOn(i) == (\E m \in Modules : Send(i, m)) \/ (\E c \in Columns : Write(i, c)) \/ Main(i)
Next == \E i \in Imports : Start(i) \/ GoOn(i)

Spec == Init /\ [][Next]_vars

(* An import one of whose goroutines can go on goes on, with any of them.   *)
Fairness == \A i \in Imports : WF_vars(GoOn(i))
FairSpec == Spec /\ Fairness

-----------------------------------------------------------------------------
(* Types; nobody writes past the end of what was collected.                *)
TypeOK ==
    /\ enterprise \in Schemas
    /\ prod \in Seq(Skus \cup {Nil}) /\ Len(prod) <= MaxProducts
    /\ tab \in [Tables -> [Ids -> Values \cup {Nil}]]
    /\ gallery \in [Values -> Nat]
    /\ pc \in [Imports -> Before \cup {"idle", "flush"}]
    /\ rows \in [Imports -> Seq(Rows)]
    /\ looked \in [Imports -> Nat]
    /\ skuToID \in [Imports -> [Skus -> Numbers]]
    /\ toCreate \in [Imports -> Seq(Skus)]
    /\ lastID \in [Imports -> Ids]
    /\ worker \in [Imports -> [Columns -> {"none", "run", "done", "err"}]]
    /\ pos \in [Imports -> [Columns -> Nat]]
    /\ errs \in [Imports -> [Modules -> {"none", "nil", "err"}]]
    /\ res \in [Imports -> {"none", "ok", "err"}]
    /\ rewritten \in [Imports -> SUBSET (Tables \X Ids)]
    /\ uncreated \in [Imports -> SUBSET Skus] /\ misread \in [Imports -> SUBSET Skus]
    /\ doubtful \subseteq Skus
    /\ runs \in [Imports -> 0..MaxRuns]
    /\ failures \in 0..MaxFailures
    /\ \A i \in Imports : \A t \in Tables : pos[i][t] <= Len(Collected(i, t))

(* When an import ends well, each table holds for each SKU the last value  *)
(* the file gives it, in whatever order and batches the tables were written, *)
(* until another import writes that SKU's cell.                            *)
LastValueWins ==
    \A i \in Imports : res[i] = "ok" =>
        \A t \in Tables : \A k \in DOMAIN Collected(i, t) :
            LET d == Collected(i, t)
            IN (\A j \in DOMAIN d : d[j].id = d[k].id => j <= k)
                  => tab[t][d[k].id] = d[k].value \/ <<t, d[k].id>> \in rewritten[i]

(* An import whose flush of any table failed does not end well, though the *)
(* errors come from goroutines of goroutines through two channels.         *)
ErrorsReported ==
    \A i \in Imports : res[i] = "ok" => \A c \in Columns : worker[i][c] = "done"

(* ImportProducts does not return before every goroutine it started, in    *)
(* whatever way the others end: nothing writes to the tables after it.     *)
NoWriteAfterReturn ==
    \A i \in Imports : \A c \in Columns : worker[i][c] = "run" => pc[i] = "flush"

(* Every import returns: no goroutine waits for ever to send its error, and *)
(* nobody waits for ever for one.                                          *)
ImportReturns == \A i \in Imports : pc[i] # "idle" ~> pc[i] = "idle"

(* "New products are created automatically; existing products are updated": *)
(* whatever fails and whichever imports overlap, two products have one SKU  *)
(* only if they had it before, a file names it twice or padded, the lookup  *)
(* of its batch failed, or two imports named it before either had created  *)
(* its products.                                                           *)
NoDuplicateProducts ==
    \A m, n \in DOMAIN prod :
        HasProduct(m) /\ prod[m] = prod[n] /\ prod[m] \notin doubtful => m = n

(* "New products are created automatically": after an import that ends     *)
(* well, each SKU of the file is a product's, unless the insert of its      *)
(* batch failed, which nothing tells.                                      *)
NewProductsExist ==
    \A i \in Imports : res[i] = "ok" =>
        \A k \in DOMAIN rows[i] : rows[i][k].sku \notin uncreated[i] \cup {Blank} =>
            \E n \in DOMAIN prod : prod[n] = rows[i][k].sku

(* "creates entity rows for new SKUs and updates skuToID in place": when an *)
(* import flushes, every id in its map is that of a product with the SKU,   *)
(* in either schema and through all batches, unless the insert of its batch *)
(* failed, or its first id was asked for on another connection.            *)
SkuToIDRight ==
    \A i \in Imports : pc[i] = "flush" => \A s \in Skus :
        skuToID[i][s] # Nil =>
            \/ HasProduct(skuToID[i][s]) /\ prod[skuToID[i][s]] = s
            \/ s \in uncreated[i] \cup misread[i]

(* "existing products are updated": imported again, the images of the file *)
(* are no more in number.                                                  *)
GalleryUpserted == \A v \in Values : gallery[v] <= Cardinality(Skus)
=============================================================================

------------------------------ MODULE StockImport ------------------------------
(***************************************************************************)
(* POST /stock/import: the SKUs of the items are looked up in chunks, and  *)
(* one transaction upserts a row for every item whose SKU was found, while *)
(* other imports run and Magento creates and deletes products.  A deleted  *)
(* product takes its stock row along, and no row can be for a product that *)
(* is not there.                                                           *)
(*                                                                         *)
(* Of the columns the model keeps one of each kind: qty is 0 by default,   *)
(* manage_stock is 1, and min_sale_qty has a default of 1 in the table,    *)
(* which gorm puts in the place of a zero.                                 *)
(***************************************************************************)
EXTENDS Positions

CONSTANTS Importers, StockSkus,
          StockBodies,    \* the requests there may be: sequences of items
          ChunkSize,      \* batch_size
          MaxProductId,   \* bound on the products created
          MaxStockFaults, \* bound on the queries that fail
          Unset           \* a field an item does not give, no SKU, no product, no row

Columns == {"qty", "manage_stock", "min_sale_qty"}
StockItems == [sku : StockSkus \cup {Unset}, given : [Columns -> Nat \cup {Unset}]]

(* A batch_size that is not positive is replaced by 500.                   *)
ASSUME StockAssumption ==
    /\ StockBodies \subseteq Seq(StockItems) /\ Unset \notin StockBodies
    /\ ChunkSize \in Nat \ {0}
    /\ MaxProductId \in Nat \ {0} /\ MaxStockFaults \in Nat

VARIABLES
    productId, \* SKU -> id of its product
    lastId,    \* the ids given so far
    stockRows, \* id -> its row
    post,      \* importer -> the items of its request, or Unset
    chunk,     \* the chunk it looks up next
    skuToID,   \* SKU -> id, as looked up
    reply,     \* its status and what it counted, or Unset
    stockFaults,
    missed,    \* ghost: importers one of whose lookups failed
    rewritten, \* ghost: ids that other imports wrote since this one did
    absent     \* ghost: SKUs that had no product at some moment of the request

stockVars == <<productId, lastId, stockRows, post, chunk, skuToID, reply, stockFaults, missed, rewritten, absent>>

Ids == 1..MaxProductId

StockInit ==
    /\ productId \in [StockSkus -> {1, Unset}]
    /\ \A s, t \in StockSkus : productId[s] = 1 /\ productId[t] = 1 => s = t
    /\ lastId = 1
    /\ stockRows = [i \in Ids |-> Unset]
    /\ post = [p \in Importers |-> Unset]
    /\ chunk = [p \in Importers |-> 0]
    /\ skuToID = [p \in Importers |-> [s \in StockSkus |-> Unset]]
    /\ reply = [p \in Importers |-> Unset]
    /\ stockFaults = 0
    /\ missed = {}
    /\ rewritten = [p \in Importers |-> {}]
    /\ absent = [p \in Importers |-> {}]

Gone(f) == {s \in StockSkus : f[s] = Unset}

(* The positions of the items with an SKU, and those items.                *)
IdentifiedAt(items) == {n \in DOMAIN items : items[n].sku # Unset}
Identified(p) == Kept(post[p], IdentifiedAt(post[p]))

-----------------------------------------------------------------------------
(* A request without items is answered at once.                            *)
StartImport(p) ==
    /\ post[p] = Unset
    /\ \E items \in StockBodies :
        /\ post' = [post EXCEPT ![p] = items]
        /\ reply' = [reply EXCEPT ![p] = IF items = <<>> THEN [code |-> 400] ELSE Unset]
    /\ absent' = [absent EXCEPT ![p] = Gone(productId)]
    /\ UNCHANGED <<productId, lastId, stockRows, chunk, skuToID, stockFaults, missed, rewritten>>

(* Mutant: the end of a chunk is taken for its last index.                 *)
ChunkSkusShort(skus, n) ==
    LET end == IF (n + 1) * ChunkSize > Len(skus) THEN Len(skus) ELSE (n + 1) * ChunkSize
    IN  {skus[i].sku : i \in (n * ChunkSize + 1)..(end - 1)}
ChunkSkus(skus, n) ==
    LET end == IF (n + 1) * ChunkSize > Len(skus) THEN Len(skus) ELSE (n + 1) * ChunkSize
    IN  {skus[i].sku : i \in (n * ChunkSize + 1)..end}

LookingUp(p) == post[p] # Unset /\ chunk[p] * ChunkSize < Len(Identified(p))

(* The SKUs that are found go into the map; the error of the query is not  *)
(* looked at.                                                              *)
LookUp(p) ==
    /\ LookingUp(p)
    /\ LET skus == ChunkSkus(Identified(p), chunk[p])
       IN  \/ /\ skuToID' = [skuToID EXCEPT ![p] =
                     [s \in StockSkus |-> IF s \in skus /\ productId[s] # Unset THEN productId[s] ELSE @[s]]]
              /\ UNCHANGED <<stockFaults, missed>>
           \/ /\ stockFaults < MaxStockFaults /\ stockFaults' = stockFaults + 1
              /\ missed' = missed \cup {p}
              /\ UNCHANGED skuToID
    /\ chunk' = [chunk EXCEPT ![p] = @ + 1]
    /\ UNCHANGED <<productId, lastId, stockRows, post, reply, rewritten, absent>>

(* A row: the given columns over the defaults, then gorm's default.        *)
Default(c) == IF c = "manage_stock" THEN 1 ELSE 0
ValueOf(item, c) == IF item.given[c] = Unset THEN Default(c) ELSE item.given[c]
Stored(c, n) == IF c = "min_sale_qty" /\ n = 0 THEN 1 ELSE n
Row(item) == [c \in Columns |-> Stored(c, ValueOf(item, c))]

IdOf(p, n) == skuToID[p][post[p][n].sku]
FoundAt(p) == {n \in IdentifiedAt(post[p]) : IdOf(p, n) # Unset}

(* Mutant: of an SKU's items, the first.                                   *)
UpsertedFirst(p, i) ==
    LET mine == {n \in FoundAt(p) : IdOf(p, n) = i}
    IN  IF mine = {} THEN stockRows[i] ELSE Row(post[p][CHOOSE n \in mine : \A m \in mine : n <= m])
Upserted(p, i) ==
    LET mine == {n \in FoundAt(p) : IdOf(p, n) = i}
    IN  IF mine = {} THEN stockRows[i] ELSE Row(post[p][Greatest(mine)])

WrittenIds(p) == {IdOf(p, n) : n \in FoundAt(p)}
ProductIds == {productId[s] : s \in StockSkus} \ {Unset}

Upsert(p) ==
    /\ post[p] # Unset /\ ~LookingUp(p) /\ reply[p] = Unset
    /\ \/ /\ WrittenIds(p) \subseteq ProductIds
          /\ stockRows' = [i \in Ids |-> Upserted(p, i)]
          /\ reply' = [reply EXCEPT ![p] =
                 [code |-> 200, imported |-> Cardinality(FoundAt(p)),
                                       skipped |-> Len(post[p]) - Cardinality(FoundAt(p))]]
          /\ rewritten' = [q \in Importers |-> IF q = p THEN {} ELSE rewritten[q] \cup WrittenIds(p)]
          /\ UNCHANGED stockFaults
       \/ /\ ~(WrittenIds(p) \subseteq ProductIds)
          /\ reply' = [reply EXCEPT ![p] = [code |-> 500]]
          /\ UNCHANGED <<stockRows, rewritten, stockFaults>>
       \/ /\ WrittenIds(p) # {} /\ stockFaults < MaxStockFaults /\ stockFaults' = stockFaults + 1
          /\ reply' = [reply EXCEPT ![p] = [code |-> 500]]
          /\ UNCHANGED <<stockRows, rewritten>>
    /\ UNCHANGED <<productId, lastId, post, chunk, skuToID, missed, absent>>

-----------------------------------------------------------------------------
CreateProduct(s) ==
    /\ productId[s] = Unset /\ lastId < MaxProductId
    /\ lastId' = lastId + 1
    /\ productId' = [productId EXCEPT ![s] = lastId + 1]
    /\ UNCHANGED <<stockRows, post, chunk, skuToID, reply, stockFaults, missed, rewritten, absent>>

DeleteProduct(s) ==
    /\ productId[s] # Unset
    /\ stockRows' = [stockRows EXCEPT ![productId[s]] = Unset]
    /\ productId' = [productId EXCEPT ![s] = Unset]
    /\ absent' = [p \in Importers |-> absent[p] \cup {s}]
    /\ UNCHANGED <<lastId, post, chunk, skuToID, reply, stockFaults, missed, rewritten>>

StockNext ==
    \/ \E p \in Importers : StartImport(p) \/ LookUp(p) \/ Upsert(p)
    \/ \E s \in StockSkus : CreateProduct(s) \/ DeleteProduct(s)

-----------------------------------------------------------------------------
Imported(p) == reply[p] # Unset /\ reply[p].code = 200

(* Once an import is answered, the row of every product it found is that of *)
(* the last item for it in all its columns, those given as 0 and those not *)
(* given, which have their defaults, included: nothing of the items before *)
(* it, or of the row there was, is left.  It stays so until another import *)
(* writes the row or the product is deleted.  A min_sale_qty of 0, given or *)
(* by default, is the one the table may have as 1.                         *)
LastItemWins ==
    \A p \in Importers : Imported(p) =>
        \A n \in 1..Len(post[p]) :
            LET item == post[p][n]
                id == skuToID[p][item.sku]
            IN  (/\ item.sku # Unset /\ id \in ProductIds \ rewritten[p]
                 /\ \A m \in (n + 1)..Len(post[p]) : post[p][m].sku # item.sku)
                    => \A c \in Columns :
                           \/ stockRows[id][c] = ValueOf(item, c)
                           \/ c = "min_sale_qty" /\ ValueOf(item, c) = 0 /\ stockRows[id][c] = 1

(* An item with an SKU is skipped only if the SKU had no product at some   *)
(* moment of the request, or a lookup failed, which nothing tells.         *)
SkipsTheUnknown ==
    \A p \in Importers : Imported(p) =>
        \A n \in 1..Len(post[p]) :
            LET s == post[p][n].sku
            IN  s # Unset /\ skuToID[p][s] = Unset => s \in absent[p] \/ p \in missed
================================================================================

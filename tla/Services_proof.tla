----------------------------- MODULE Services_proof -----------------------------
(***************************************************************************)
(* Proofs about the order grid, the indexer and the stock import of        *)
(* Services, for any number of clients, orders, columns, indexers,         *)
(* products and importers, and any requests and batch sizes.               *)
(***************************************************************************)
EXTENDS Services, Positions_proof, TLAPS

-----------------------------------------------------------------------------
(* The order grid.  A client about to save has read an order that is there, *)
(* and the columns it has not given and that have not changed since are in  *)
(* what it saves as they are in the table.                                 *)

Saving(c) ==
    /\ source[c] \in OrderIds /\ target[c] \in OrderIds
    /\ body[c] \in Bodies /\ order[c] \in Orders
    /\ \A f \in Fields \ (changed[c] \cup GivenBy(c)) :
           orders[source[c]] # Nil /\ order[c][f] = orders[source[c]][f]

GridIInv ==
    /\ GridTypeOK
    /\ \A c \in Clients : at[c] = "save" => Saving(c)
    /\ UpdatesKept

LEMMA BoundType ==
    ASSUME NEW o \in Orders, NEW b \in Bodies
    PROVE  Bound(o, b) \in Orders
BY DEF Orders, Bodies, Bound

LEMMA GridStarts == GridInit => GridIInv
<1> SUFFICES ASSUME GridInit PROVE GridIInv
    OBVIOUS
<1>1. [f \in Fields |-> Blank] \in Orders
    BY GridAssumption DEF Orders
<1>2. orders \in Grids
    BY <1>1 DEF GridInit, Grids
<1>3. GridTypeOK
    BY <1>2, GridAssumption DEF GridInit, GridTypeOK
<1> QED BY <1>3 DEF GridInit, GridIInv, UpdatesKept

LEMMA GridRests == GridIInv /\ UNCHANGED gridVars => GridIInv'
<1> SUFFICES ASSUME GridIInv, UNCHANGED gridVars
             PROVE  GridIInv'
    OBVIOUS
<1>1. GridTypeOK'
    BY DEF GridIInv, GridTypeOK, gridVars, history
<1>2. UpdatesKept'
    BY DEF GridIInv, UpdatesKept, gridVars, history
<1>3. \A c \in Clients : at'[c] = "save" => Saving(c)'
    BY DEF GridIInv, Saving, GivenBy, gridVars, history
<1> QED BY <1>1, <1>2, <1>3 DEF GridIInv

(* What is not among the columns changed for a PUT is as it was.           *)
LEMMA UnchangedFor ==
    ASSUME NEW d \in Clients, NEW i \in OrderIds, NEW o \in Orders \cup {Nil},
           orders \in Grids, orders' = [orders EXCEPT ![i] = o], at[d] = "save", Saving(d),
           UNCHANGED <<source[d], target[d], body[d], order[d]>>,
           changed'[d] = ChangedFor(d, i, o)
    PROVE  Saving(d)'
<1>1. source'[d] = source[d] /\ order'[d] = order[d] /\ GivenBy(d)' = GivenBy(d)
    BY DEF GivenBy
<1>2. ASSUME NEW f \in Fields \ (changed'[d] \cup GivenBy(d))
      PROVE  orders'[source[d]] # Nil /\ order[d][f] = orders'[source[d]][f]
    <2>1. orders[source[d]] # Nil /\ order[d][f] = orders[source[d]][f]
        BY <1>2 DEF Saving, ChangedFor
    <2>2. CASE source[d] = i
        <3>1. orders'[i] = o
            BY DEF Grids
        <3>2. orders[i] = o \/ f \notin Differing(orders[i], o)
            BY <1>2, <2>2 DEF ChangedFor
        <3> QED BY <2>1, <2>2, <3>1, <3>2 DEF Differing
    <2>3. CASE source[d] # i
        BY <2>1, <2>3 DEF Grids, Saving
    <2> QED BY <2>2, <2>3
<1> QED BY <1>1, <1>2 DEF Saving

LEMMA ChangedType ==
    ASSUME GridTypeOK, NEW i, NEW o
    PROVE  \A d \in Clients : ChangedFor(d, i, o) \in SUBSET Fields
BY DEF GridTypeOK, ChangedFor, Differing

(* Whoever writes an order tells the PUTs that have read it.               *)
LEMMA WriteKeeps ==
    ASSUME GridIInv, NEW c \in Clients, NEW i \in OrderIds, NEW o \in Orders \cup {Nil},
           Write(c, i, o), orderWrites' \in 0..MaxOrderWrites,
           UNCHANGED <<redis, listed, at, list, source, target, body, order>>
    PROVE  GridIInv'
<1>1. orders' \in Grids /\ latest' \in Grids
    BY DEF GridIInv, GridTypeOK, Write, Grids
<1>2. changed' \in [Clients -> SUBSET Fields]
    BY ChangedType DEF GridIInv, Write
<1>3. GridTypeOK'
    BY <1>1, <1>2 DEF GridIInv, GridTypeOK, Write
<1>4. ASSUME NEW d \in Clients, at'[d] = "save"
      PROVE  Saving(d)'
    <2>1. at[d] = "save" /\ Saving(d) /\ orders \in Grids
        BY <1>4 DEF GridIInv, GridTypeOK
    <2>2. changed'[d] = ChangedFor(d, i, o) /\ orders' = [orders EXCEPT ![i] = o]
        BY DEF Write
    <2> QED BY <2>1, <2>2, UnchangedFor
<1>5. UpdatesKept'
    <2>1. orders'[i] = o /\ latest'[i] = o
        BY DEF GridIInv, GridTypeOK, Write, Grids
    <2>2. ASSUME NEW j \in OrderIds, j # i
          PROVE  /\ orders'[j] = orders[j] /\ latest'[j] = latest[j]
                 /\ \A f \in Fields : <<j, f>> \in lost => <<j, f>> \in lost'
        BY <2>2 DEF GridIInv, GridTypeOK, Write, Grids
    <2> QED BY <2>1, <2>2 DEF GridIInv, UpdatesKept
<1> QED BY <1>3, <1>4, <1>5 DEF GridIInv

LEMMA ReadKeeps ==
    ASSUME GridIInv, NEW c \in Clients, ReadOrder(c)
    PROVE  GridIInv'
<1>1. PICK i \in OrderIds, j \in OrderIds, b \in Bodies :
          /\ orders[i] # Nil
          /\ source' = [source EXCEPT ![c] = i]
          /\ target' = [target EXCEPT ![c] = j]
          /\ body' = [body EXCEPT ![c] = b]
          /\ order' = [order EXCEPT ![c] = Bound(orders[i], b)]
    BY DEF ReadOrder
<1>2. orders[i] \in Orders /\ Bound(orders[i], b) \in Orders
    BY <1>1, BoundType DEF GridIInv, GridTypeOK, Grids
<1>3. GridTypeOK'
    <2>1. orderWrites' \in 0..MaxOrderWrites
        BY GridAssumption DEF GridIInv, GridTypeOK, ReadOrder
    <2>2. at' \in [Clients -> {"idle", "store", "save"}]
        BY DEF GridIInv, GridTypeOK, ReadOrder
    <2> QED BY <1>1, <1>2, <2>1, <2>2 DEF GridIInv, GridTypeOK, ReadOrder, history
<1>4. /\ source'[c] = i /\ target'[c] = j /\ body'[c] = b /\ order'[c] = Bound(orders[i], b)
      /\ \A d \in Clients \ {c} : /\ source'[d] = source[d] /\ target'[d] = target[d]
                                  /\ body'[d] = body[d] /\ order'[d] = order[d]
    BY <1>1 DEF GridIInv, GridTypeOK
<1>5. UNCHANGED <<orders, changed, latest, lost>>
    BY DEF ReadOrder, history
<1>6. ASSUME NEW d \in Clients, at'[d] = "save"
      PROVE  Saving(d)'
    <2>1. CASE d = c
        <3>1. GivenBy(c)' = {f \in Fields : b[f] # Nil} \cup {"updated_at"}
            BY <1>4 DEF GivenBy
        <3>2. \A f \in Fields \ GivenBy(c)' : Bound(orders[i], b)[f] = orders[i][f]
            BY <3>1 DEF Bound
        <3> QED BY <1>1, <1>2, <1>4, <1>5, <2>1, <3>2 DEF Saving
    <2>2. CASE d # c
        <3>1. at[d] = "save" /\ Saving(d)
            BY <1>6, <2>2 DEF GridIInv, GridTypeOK, ReadOrder
        <3>2. GivenBy(d)' = GivenBy(d)
            BY <1>4, <2>2 DEF GivenBy
        <3> QED BY <1>4, <1>5, <2>2, <3>1, <3>2 DEF Saving
    <2> QED BY <2>1, <2>2
<1>7. UpdatesKept'
    BY <1>5 DEF GridIInv, UpdatesKept
<1> QED BY <1>3, <1>6, <1>7 DEF GridIInv

(* A PUT that is saved.                                                    *)
LEMMA SavedKeeps ==
    ASSUME GridIInv, NEW c \in Clients, at[c] = "save", Saved(c),
           orders' = [orders EXCEPT ![target[c]] = order[c]]
    PROVE  /\ orders' \in Grids /\ latest' \in Grids /\ lost' \subseteq OrderIds \X Fields
           /\ changed' \in [Clients -> SUBSET Fields]
           /\ UpdatesKept'
<1> DEFINE j == target[c]
           last == [f \in Fields |-> IF f \in GivenBy(c) \/ latest[j] = Nil THEN order[c][f]
                                                                           ELSE latest[j][f]]
<1>1. /\ j \in OrderIds /\ order[c] \in Orders /\ Saving(c)
      /\ latest' = [latest EXCEPT ![j] = last]
      /\ lost' = (lost \ ({j} \X GivenBy(c))) \cup ({j} \X PutBack(c))
      /\ changed' = [d \in Clients |-> IF d = c THEN {} ELSE ChangedFor(d, j, order[c])]
    BY DEF GridIInv, Saving, Saved
<1>2. last \in Orders
    <2>1. latest[j] = Nil \/ latest[j] \in Orders
        BY <1>1 DEF GridIInv, GridTypeOK, Grids
    <2>2. \A f \in Fields : last[f] \in Texts \cup {Now}
        BY <1>1, <2>1 DEF Orders
    <2> QED BY <2>2 DEF Orders
<1>3. \A f \in Fields : last[f] = IF f \in GivenBy(c) \/ latest[j] = Nil THEN order[c][f]
                                                                       ELSE latest[j][f]
    OBVIOUS
<1> HIDE DEF last, j
<1>4. orders' = [orders EXCEPT ![j] = order[c]] /\ PutBack(c) \subseteq Fields
    BY DEF j, PutBack, GridIInv, GridTypeOK
<1>5. orders' \in Grids /\ latest' \in Grids
    BY <1>1, <1>2, <1>4 DEF GridIInv, GridTypeOK, Grids
<1>6. lost' \subseteq OrderIds \X Fields
    BY <1>1, <1>4 DEF GridIInv, GridTypeOK
<1>7. changed' \in [Clients -> SUBSET Fields]
    BY <1>1, ChangedType DEF GridIInv
<1>8. orders'[j] = order[c] /\ latest'[j] = last /\ order[c] # Nil /\ last # Nil
    BY <1>1, <1>2, <1>4, GridAssumption DEF GridIInv, GridTypeOK, Grids
<1>9. ASSUME NEW f \in Fields
      PROVE  order[c][f] = last[f] \/ <<j, f>> \in lost'
    <2>1. CASE f \in GivenBy(c) \/ latest[j] = Nil
        BY <1>3, <2>1
    <2>2. CASE f \notin GivenBy(c) /\ latest[j] # Nil
        <3>1. last[f] = latest[j][f]
            BY <1>3, <2>2
        <3>2. CASE f \in PutBack(c)
            BY <1>1, <3>2
        <3>3. CASE f \notin PutBack(c)
            <4>1. j = source[c] /\ f \notin changed[c]
                BY <2>2, <3>3 DEF PutBack, j
            <4>2. orders[j] # Nil /\ order[c][f] = orders[j][f]
                BY <1>1, <2>2, <4>1 DEF Saving
            <4>3. orders[j][f] = latest[j][f] \/ <<j, f>> \in lost
                BY <1>1, <4>2 DEF GridIInv, UpdatesKept
            <4>4. <<j, f>> \in lost => <<j, f>> \in lost'
                BY <1>1, <2>2
            <4> QED BY <3>1, <4>2, <4>3, <4>4
        <3> QED BY <3>2, <3>3
    <2> QED BY <2>1, <2>2
<1>10. ASSUME NEW i \in OrderIds, i # j
       PROVE  /\ orders'[i] = orders[i] /\ latest'[i] = latest[i]
              /\ \A f \in Fields : <<i, f>> \in lost => <<i, f>> \in lost'
    BY <1>1, <1>4, <1>10 DEF GridIInv, GridTypeOK, Grids
<1>11. UpdatesKept'
    BY <1>8, <1>9, <1>10 DEF GridIInv, UpdatesKept
<1> QED BY <1>5, <1>6, <1>7, <1>11

LEMMA SaveKeeps ==
    ASSUME GridIInv, NEW c \in Clients, SaveOrder(c)
    PROVE  GridIInv'
<1>1. /\ at[c] = "save" /\ at' = [at EXCEPT ![c] = "idle"]
      /\ source' = [source EXCEPT ![c] = Nil] /\ target' = [target EXCEPT ![c] = Nil]
      /\ body' = [body EXCEPT ![c] = Nil] /\ order' = [order EXCEPT ![c] = Nil]
      /\ UNCHANGED <<redis, listed, list, orderWrites>>
    BY DEF SaveOrder
<1>2. CASE orders' = [orders EXCEPT ![target[c]] = order[c]] /\ Saved(c)
    <2>1. /\ orders' \in Grids /\ latest' \in Grids /\ lost' \subseteq OrderIds \X Fields
          /\ changed' \in [Clients -> SUBSET Fields]
          /\ UpdatesKept'
        BY <1>1, <1>2, SavedKeeps
    <2>2. GridTypeOK'
        BY <1>1, <2>1 DEF GridIInv, GridTypeOK
    <2>3. ASSUME NEW d \in Clients, at'[d] = "save"
          PROVE  Saving(d)'
        <3>1. d # c /\ at[d] = "save" /\ Saving(d) /\ orders \in Grids
            BY <1>1, <2>3 DEF GridIInv, GridTypeOK
        <3>2. UNCHANGED <<source[d], target[d], body[d], order[d]>>
            BY <1>1, <3>1 DEF GridIInv, GridTypeOK
        <3>3. target[c] \in OrderIds /\ order[c] \in Orders \cup {Nil}
            BY <1>1 DEF GridIInv, Saving
        <3>4. changed'[d] = ChangedFor(d, target[c], order[c])
            BY <1>2, <3>1 DEF Saved
        <3> QED BY <1>2, <3>1, <3>2, <3>3, <3>4, UnchangedFor
    <2> QED BY <2>1, <2>2, <2>3 DEF GridIInv
<1>3. CASE changed' = [changed EXCEPT ![c] = {}] /\ UNCHANGED <<orders, latest, lost>>
    <2>1. GridTypeOK'
        BY <1>1, <1>3 DEF GridIInv, GridTypeOK
    <2>2. ASSUME NEW d \in Clients, at'[d] = "save"
          PROVE  Saving(d)'
        <3>1. d # c /\ at[d] = "save" /\ Saving(d)
            BY <1>1, <2>2 DEF GridIInv, GridTypeOK
        <3>2. UNCHANGED <<source[d], target[d], body[d], order[d], changed[d]>>
            BY <1>1, <1>3, <3>1 DEF GridIInv, GridTypeOK
        <3> QED BY <1>3, <3>1, <3>2 DEF Saving, GivenBy
    <2>3. UpdatesKept'
        BY <1>3 DEF GridIInv, UpdatesKept
    <2> QED BY <2>1, <2>2, <2>3 DEF GridIInv
<1> QED BY <1>2, <1>3 DEF SaveOrder

(* The list is not the table.                                              *)
LEMMA ListKeeps ==
    ASSUME GridIInv, UNCHANGED <<redis, orders, source, target, body, order, history, orderWrites>>,
           listed' \in Grids \cup {Nil}, list' \in [Clients -> Grids \cup {Nil}],
           at' \in [Clients -> {"idle", "store", "save"}],
           \A c \in Clients : at'[c] = "save" => at[c] = "save"
    PROVE  GridIInv'
<1>1. GridTypeOK'
    BY DEF GridIInv, GridTypeOK, history
<1>2. UpdatesKept'
    BY DEF GridIInv, UpdatesKept, history
<1>3. \A c \in Clients : at'[c] = "save" => Saving(c)'
    BY DEF GridIInv, Saving, GivenBy, history
<1> QED BY <1>1, <1>2, <1>3 DEF GridIInv

LEMMA GridKept == GridIInv /\ GridNext => GridIInv'
<1> SUFFICES ASSUME GridIInv, GridNext
             PROVE  GridIInv'
    OBVIOUS
<1>1. CASE ExpireList
    <2>1. /\ listed' \in Grids \cup {Nil} /\ list' \in [Clients -> Grids \cup {Nil}]
          /\ at' \in [Clients -> {"idle", "store", "save"}]
          /\ \A c \in Clients : at'[c] = "save" => at[c] = "save"
        BY <1>1 DEF ExpireList, GridIInv, GridTypeOK
    <2> QED BY <1>1, <2>1, ListKeeps DEF ExpireList
<1>2. ASSUME NEW c \in Clients, ListOrders(c)
      PROVE  GridIInv'
    <2>1. /\ listed' \in Grids \cup {Nil} /\ list' \in [Clients -> Grids \cup {Nil}]
          /\ at' \in [Clients -> {"idle", "store", "save"}]
          /\ \A d \in Clients : at'[d] = "save" => at[d] = "save"
        BY <1>2 DEF ListOrders, GridIInv, GridTypeOK
    <2> QED BY <1>2, <2>1, ListKeeps DEF ListOrders
<1>3. ASSUME NEW c \in Clients, StoreList(c)
      PROVE  GridIInv'
    <2>1. /\ listed' \in Grids \cup {Nil} /\ list' \in [Clients -> Grids \cup {Nil}]
          /\ at' \in [Clients -> {"idle", "store", "save"}]
          /\ \A d \in Clients : at'[d] = "save" => at[d] = "save"
        BY <1>3 DEF StoreList, GridIInv, GridTypeOK
    <2> QED BY <1>3, <2>1, ListKeeps DEF StoreList
<1>4. ASSUME NEW c \in Clients, CreateOrder(c)
      PROVE  GridIInv'
    <2>1. PICK i \in OrderIds, b \in [Fields -> Texts] : Write(c, i, [b EXCEPT !["created_at"] = Now])
        BY <1>4 DEF CreateOrder
    <2>2. [b EXCEPT !["created_at"] = Now] \in Orders \cup {Nil}
        BY DEF Orders
    <2>3. orderWrites' \in 0..MaxOrderWrites
        BY <1>4, GridAssumption DEF GridIInv, GridTypeOK, CreateOrder
    <2> DEFINE o == [b EXCEPT !["created_at"] = Now]
    <2> HIDE DEF o
    <2>4. Write(c, i, o) /\ o \in Orders \cup {Nil}
        BY <2>1, <2>2 DEF o
    <2> QED BY <1>4, <2>3, <2>4, WriteKeeps DEF CreateOrder
<1>5. ASSUME NEW c \in Clients, DeleteOrder(c)
      PROVE  GridIInv'
    <2>1. orderWrites' \in 0..MaxOrderWrites
        BY <1>5, GridAssumption DEF GridIInv, GridTypeOK, DeleteOrder
    <2> QED BY <1>5, <2>1, WriteKeeps DEF DeleteOrder
<1>6. ASSUME NEW c \in Clients, ReadOrder(c)
      PROVE  GridIInv'
    BY <1>6, ReadKeeps
<1>7. ASSUME NEW c \in Clients, SaveOrder(c)
      PROVE  GridIInv'
    BY <1>7, SaveKeeps
<1> QED BY <1>1, <1>2, <1>3, <1>4, <1>5, <1>6, <1>7 DEF GridNext

-----------------------------------------------------------------------------
(* The indexer.  Whatever is no longer left is in the table, unless a batch *)
(* failed; a product that is left and was not known has a row only if     *)
(* another indexer has written it since.                                   *)

IndexTypes ==
    /\ stage \in [Indexers -> {"idle", "read", "batches", "done", "panicked"}]
    /\ index \in [Products -> Nat] /\ catalogue \in [Products -> Nat] /\ version \in Nat
    /\ fetched \in [Indexers -> [Products -> Nat]]
    /\ known \in [Indexers -> SUBSET Products] /\ left \in [Indexers -> SUBSET Products]
    /\ behind \in [Indexers -> SUBSET Products]
    /\ failed \in [Indexers -> BOOLEAN]

(* x is in the table as p fetched it, or as another has written it since.  *)
Indexed(p, x) == index[x] = fetched[p][x] \/ (x \in behind[p] /\ index[x] # None)

Batching(p) ==
    /\ left[p] \subseteq Present(fetched[p])
    /\ ~failed[p] => \A x \in Present(fetched[p]) \ left[p] : Indexed(p, x)
    /\ \A x \in left[p] \ known[p] : index[x] # None => x \in behind[p]

Excused(p) == failed[p] => p \in faulted \/ behind[p] # {}

IndexIInv ==
    /\ IndexTypes
    /\ \A p \in Indexers :
        /\ stage[p] = "batches" => Batching(p)
        /\ stage[p] = "done" /\ ~failed[p] => \A x \in Present(fetched[p]) : Indexed(p, x)
        /\ stage[p] = "read" => ~failed[p]
        /\ Excused(p)

LEMMA IndexStarts == IndexInit => IndexIInv
BY DEF IndexInit, IndexIInv, IndexTypes, Excused, None

LEMMA IndexRests == IndexIInv /\ UNCHANGED indexVars => IndexIInv'
BY DEF IndexIInv, IndexTypes, Batching, Indexed, Excused, Present, indexVars, progress

(* A batch that is written is indexed, and another indexer's rows are seen *)
(* to be newer than it has read.                                           *)
LEMMA WrittenKeeps ==
    ASSUME IndexIInv, NEW p \in Indexers, NEW B \in SUBSET left[p], stage[p] = "batches",
           Written(p, B), left' = [left EXCEPT ![p] = @ \ B], UNCHANGED <<progress, stage>>
    PROVE  IndexIInv'
<1>1. IndexTypes'
    BY DEF IndexIInv, IndexTypes, Written, progress
<1>2. \A x \in B : x \in Products /\ index'[x] = fetched[p][x] /\ fetched[p][x] # None
    BY DEF IndexIInv, IndexTypes, Batching, Present, Written
<1>3. \A x \in Products \ B : index'[x] = index[x]
    BY DEF Written
<1>4. UNCHANGED <<fetched, known, failed, faulted, stage>>
    BY DEF Written, progress
<1>5. behind'[p] = behind[p] /\ left'[p] = left[p] \ B
    BY DEF Written, IndexIInv, IndexTypes
<1>6. \A q \in Indexers \ {p} : behind'[q] = behind[q] \cup B /\ left'[q] = left[q]
    BY DEF Written, IndexIInv, IndexTypes
<1>7. ASSUME NEW q \in Indexers
      PROVE  /\ stage'[q] = "batches" => Batching(q)'
             /\ stage'[q] = "done" /\ ~failed'[q] => \A x \in Present(fetched'[q]) : Indexed(q, x)'
             /\ stage'[q] = "read" => ~failed'[q]
             /\ Excused(q)'
    <2>1. CASE q = p
        <3>1. Batching(p)'
            BY <1>2, <1>3, <1>4, <1>5 DEF IndexIInv, IndexTypes, Batching, Present, Indexed
        <3>2. Excused(p)'
            BY <1>4, <1>5 DEF IndexIInv, Excused
        <3> QED BY <1>4, <2>1, <3>1, <3>2
    <2>2. CASE q # p
        <3>1. \A x \in Products : Indexed(q, x) => Indexed(q, x)'
            BY <1>2, <1>3, <1>4, <1>6, <2>2 DEF Indexed
        <3>2. stage[q] = "batches" => Batching(q)'
            BY <1>2, <1>3, <1>4, <1>6, <2>2, <3>1 DEF IndexIInv, IndexTypes, Batching, Present
        <3>3. stage[q] = "done" /\ ~failed[q] => \A x \in Present(fetched[q]) : Indexed(q, x)'
            BY <3>1 DEF IndexIInv, Present
        <3>4. Excused(q)'
            BY <1>4, <1>6, <2>2 DEF IndexIInv, Excused
        <3> QED BY <1>4, <3>2, <3>3, <3>4 DEF IndexIInv
    <2> QED BY <2>1, <2>2
<1> QED BY <1>1, <1>7 DEF IndexIInv

(* A batch is refused with a reason.                                       *)
LEMMA RefusedKeeps ==
    ASSUME IndexIInv, NEW p \in Indexers, NEW B \in SUBSET left[p], stage[p] = "batches",
           Refused(p), left' = [left EXCEPT ![p] = @ \ B], UNCHANGED <<progress, stage>>,
           p \in faulted' \/ behind[p] # {}, faulted \subseteq faulted'
    PROVE  IndexIInv'
<1>1. IndexTypes'
    BY DEF IndexIInv, IndexTypes, Refused, progress
<1>2. UNCHANGED <<fetched, known, behind, index, stage>>
    BY DEF Refused, progress
<1>3. failed'[p] = TRUE /\ left'[p] = left[p] \ B
    BY DEF Refused, IndexIInv, IndexTypes
<1>4. \A q \in Indexers \ {p} : failed'[q] = failed[q] /\ left'[q] = left[q]
    BY DEF Refused, IndexIInv, IndexTypes
<1>5. ASSUME NEW q \in Indexers
      PROVE  /\ stage'[q] = "batches" => Batching(q)'
             /\ stage'[q] = "done" /\ ~failed'[q] => \A x \in Present(fetched'[q]) : Indexed(q, x)'
             /\ stage'[q] = "read" => ~failed'[q]
             /\ Excused(q)'
    <2>1. CASE q = p
        <3>1. Batching(p)'
            BY <1>2, <1>3 DEF IndexIInv, Batching, Present
        <3>2. Excused(p)'
            BY <1>2, <1>3 DEF Excused
        <3> QED BY <1>2, <2>1, <3>1, <3>2
    <2>2. CASE q # p
        BY <1>2, <1>4, <2>2 DEF IndexIInv, Batching, Indexed, Present, Excused
    <2> QED BY <2>1, <2>2
<1> QED BY <1>1, <1>5 DEF IndexIInv

LEMMA InsertKeeps ==
    ASSUME IndexIInv, NEW p \in Indexers, NEW B \in SUBSET New(p), stage[p] = "batches",
           Insert(p, B), UNCHANGED <<progress, stage>>
    PROVE  IndexIInv'
<1>1. B \subseteq left[p] /\ left' = [left EXCEPT ![p] = @ \ B]
    BY DEF New, Insert
<1>2. CASE Written(p, B)
    BY <1>1, <1>2, WrittenKeeps
<1>3. CASE B \cap Present(index) # {} /\ Refused(p) /\ UNCHANGED <<faults, faulted>>
    <2>1. behind[p] # {}
        BY <1>3 DEF IndexIInv, Batching, New, Present
    <2> QED BY <1>1, <1>3, <2>1, RefusedKeeps
<1>4. CASE Faulted(p)
    BY <1>1, <1>4, RefusedKeeps DEF Faulted
<1> QED BY <1>2, <1>3, <1>4 DEF Insert

LEMMA UpdateKeeps ==
    ASSUME IndexIInv, NEW p \in Indexers, NEW B \in SUBSET Old(p), stage[p] = "batches",
           Update(p, B), UNCHANGED <<progress, stage>>
    PROVE  IndexIInv'
<1>1. B \subseteq left[p] /\ left' = [left EXCEPT ![p] = @ \ B]
    BY DEF Old, Update
<1>2. CASE Written(p, B)
    BY <1>1, <1>2, WrittenKeeps
<1>3. CASE Faulted(p)
    BY <1>1, <1>3, RefusedKeeps DEF Faulted
<1> QED BY <1>2, <1>3 DEF Update

(* The steps of one indexer that write nothing.                            *)
LEMMA AloneKeeps ==
    ASSUME IndexIInv, NEW p \in Indexers, FetchFlat(p) \/ ReadRows(p) \/ Report(p) \/ Restart(p)
    PROVE  IndexIInv'
<1>1. CASE FetchFlat(p)
    <2>1. IndexTypes'
        BY <1>1 DEF FetchFlat, IndexIInv, IndexTypes
    <2>2. failed'[p] = FALSE /\ stage'[p] = "read"
        BY <1>1 DEF FetchFlat, IndexIInv, IndexTypes
    <2>3. \A q \in Indexers \ {p} :
             stage'[q] = stage[q] /\ failed'[q] = failed[q] /\ fetched'[q] = fetched[q]
                 /\ (q \in faulted => q \in faulted')
        BY <1>1 DEF FetchFlat, IndexIInv, IndexTypes
    <2>4. UNCHANGED <<index, known, left, behind>>
        BY <1>1 DEF FetchFlat
    <2> QED BY <2>1, <2>2, <2>3, <2>4 DEF IndexIInv, Batching, Indexed, Present, Excused
<1>2. CASE ReadRows(p)
    <2>1. IndexTypes'
        BY <1>2 DEF ReadRows, IndexIInv, IndexTypes, Present
    <2>2. /\ stage'[p] = "batches" /\ known'[p] = Present(index)
          /\ left'[p] = Present(fetched[p]) /\ ~failed[p]
        BY <1>2 DEF ReadRows, IndexIInv, IndexTypes
    <2>3. \A q \in Indexers \ {p} :
             stage'[q] = stage[q] /\ known'[q] = known[q] /\ left'[q] = left[q] /\ behind'[q] = behind[q]
        BY <1>2 DEF ReadRows, IndexIInv, IndexTypes
    <2>4. UNCHANGED <<index, fetched, failed, faulted>>
        BY <1>2 DEF ReadRows
    <2>5. Batching(p)' /\ Excused(p)'
        BY <2>2, <2>4 DEF Batching, Excused, Present
    <2> QED BY <2>1, <2>2, <2>3, <2>4, <2>5 DEF IndexIInv, Batching, Indexed, Present, Excused
<1>3. CASE Report(p)
    <2>1. IndexTypes'
        BY <1>3 DEF Report, IndexIInv, IndexTypes, progress
    <2>2. stage[p] = "batches" /\ left[p] = {} /\ stage'[p] \in {"done", "panicked"}
        BY <1>3 DEF Report, IndexIInv, IndexTypes
    <2>3. \A q \in Indexers \ {p} : stage'[q] = stage[q]
        BY <1>3 DEF Report, IndexIInv, IndexTypes
    <2>4. UNCHANGED <<index, fetched, failed, faulted, known, left, behind>>
        BY <1>3 DEF Report, progress
    <2> QED BY <2>1, <2>2, <2>3, <2>4 DEF IndexIInv, Batching, Indexed, Present, Excused
<1>4. CASE Restart(p)
    <2>1. IndexTypes'
        BY <1>4 DEF Restart, IndexIInv, IndexTypes, progress
    <2>2. stage'[p] = "idle" /\ \A q \in Indexers \ {p} : stage'[q] = stage[q]
        BY <1>4 DEF Restart, IndexIInv, IndexTypes
    <2>3. UNCHANGED <<index, fetched, failed, faulted, known, left, behind>>
        BY <1>4 DEF Restart, progress
    <2> QED BY <2>1, <2>2, <2>3 DEF IndexIInv, Batching, Indexed, Present, Excused
<1> QED BY <1>1, <1>2, <1>3, <1>4

LEMMA IndexKept == IndexIInv /\ IndexNext => IndexIInv'
<1> SUFFICES ASSUME IndexIInv, IndexNext
             PROVE  IndexIInv'
    OBVIOUS
<1>1. CASE ChangeProduct
    <2>1. catalogue' \in [Products -> Nat] /\ version' \in Nat
        BY <1>1 DEF ChangeProduct, IndexIInv, IndexTypes, None
    <2> QED BY <1>1, <2>1 DEF ChangeProduct, IndexIInv, IndexTypes, Batching, Indexed, Excused, Present
<1>2. ASSUME NEW p \in Indexers, SendBatch(p)
      PROVE  IndexIInv'
    <2>1. CASE \E B \in Full(New(p)) : Insert(p, B)
        BY <1>2, <2>1, InsertKeeps DEF SendBatch, Full
    <2>2. CASE \E B \in Full(Old(p)) : Update(p, B)
        BY <1>2, <2>2, UpdateKeeps DEF SendBatch, Full
    <2> QED BY <1>2, <2>1, <2>2 DEF SendBatch
<1>3. ASSUME NEW p \in Indexers, SendLastUpdates(p)
      PROVE  IndexIInv'
    BY <1>3, UpdateKeeps DEF SendLastUpdates
<1>4. ASSUME NEW p \in Indexers, SendLastInserts(p)
      PROVE  IndexIInv'
    BY <1>4, InsertKeeps DEF SendLastInserts
<1> QED BY <1>1, <1>2, <1>3, <1>4, AloneKeeps DEF IndexNext

LEMMA IndexImplies == IndexIInv => IndexedAll /\ FailsForAReason
BY DEF IndexIInv, IndexedAll, FailsForAReason, Indexed, Excused

-----------------------------------------------------------------------------
(* The stock import.  Ids are given once: no two SKUs have one product, nor *)
(* has an SKU the product another had when it was looked up.               *)

StockIds ==
    /\ \A s, t \in StockSkus : productId[s] # Unset /\ productId[s] = productId[t] => s = t
    /\ \A p \in Importers : \A s, t \in StockSkus :
        skuToID[p][s] # Unset /\ skuToID[p][s] \in {productId[t], skuToID[p][t]} => s = t

(* A lookup that did not fail leaves out none but the SKUs without product. *)
Asked(p) ==
    /\ post[p] = Unset => chunk[p] = 0 /\ reply[p] = Unset
    /\ reply[p] # Unset => ~LookingUp(p)
    /\ post[p] # Unset => Gone(productId) \subseteq absent[p]
    /\ post[p] # Unset =>
        \A k \in 1..Len(Identified(p)) :
            k <= chunk[p] * ChunkSize /\ skuToID[p][Identified(p)[k].sku] = Unset
                => Identified(p)[k].sku \in absent[p] \/ p \in missed

StockIInv ==
    /\ StockTypeOK
    /\ DOMAIN reply = Importers
    /\ StockIds
    /\ \A p \in Importers : Asked(p)

(* The items with an SKU, one for each of their positions.                 *)
LEMMA IdentifiedIs ==
    ASSUME StockTypeOK, NEW p \in Importers, post[p] # Unset
    PROVE  /\ post[p] \in Seq(StockItems)
           /\ \A n \in IdentifiedAt(post[p]) : n \in 1..Len(post[p]) /\ post[p][n].sku \in StockSkus
           /\ Identified(p) \in Seq(StockItems)
           /\ \A k \in 1..Len(Identified(p)) :
                  \E n \in IdentifiedAt(post[p]) : Identified(p)[k] = post[p][n]
           /\ \A n \in IdentifiedAt(post[p]) :
                  \E k \in 1..Len(Identified(p)) : Identified(p)[k] = post[p][n]
<1> DEFINE items == post[p]
           S == IdentifiedAt(items)
<1>1. items \in Seq(StockItems) /\ Len(items) \in Nat /\ DOMAIN items = 1..Len(items)
    BY StockAssumption DEF StockTypeOK
<1>2. S \in SUBSET (1..Len(items)) /\ S \in SUBSET DOMAIN items
    BY <1>1 DEF IdentifiedAt
<1>3. \A n \in S : items[n].sku \in StockSkus
    <2> SUFFICES ASSUME NEW n \in S
                 PROVE  items[n].sku \in StockSkus
        OBVIOUS
    <2>1. items[n] \in StockItems
        BY <1>1, <1>2
    <2> QED BY <2>1 DEF StockItems, IdentifiedAt
<1>4. /\ Identified(p) \in Seq(StockItems) /\ Len(Identified(p)) = Cardinality(S)
      /\ \A k \in 1..Cardinality(S) : Identified(p)[k] = items[Nth(S, k)]
    BY <1>1, <1>2, KeptIs DEF Identified
<1> HIDE DEF S, items
<1>5. /\ \A k \in 1..Cardinality(S) : Nth(S, k) \in S
      /\ \A n \in S : \E k \in 1..Cardinality(S) : Nth(S, k) = n
    BY <1>1, <1>2, NthIs
<1>6. \A k \in 1..Len(Identified(p)) : \E n \in S : Identified(p)[k] = items[n]
    BY <1>4, <1>5
<1>7. \A n \in S : \E k \in 1..Len(Identified(p)) : Identified(p)[k] = items[n]
    BY <1>4, <1>5
<1> QED BY <1>1, <1>2, <1>3, <1>4, <1>6, <1>7 DEF S, items

LEMMA StockStarts == StockInit => StockIInv
<1> SUFFICES ASSUME StockInit PROVE StockIInv
    OBVIOUS
<1>1. StockTypeOK
    BY StockAssumption DEF StockInit, StockTypeOK, Ids
<1>2. StockIds
    BY DEF StockInit, StockIds
<1> QED BY <1>1, <1>2 DEF StockInit, StockIInv, Asked

LEMMA StockRests == StockIInv /\ UNCHANGED stockVars => StockIInv'
<1> SUFFICES ASSUME StockIInv, UNCHANGED stockVars
             PROVE  StockIInv'
    OBVIOUS
<1>1. StockTypeOK'
    BY DEF StockIInv, StockTypeOK, ProductIds, stockVars
<1>2. StockIds'
    BY DEF StockIInv, StockIds, stockVars
<1>3. ASSUME NEW p \in Importers
      PROVE  Asked(p)'
    BY DEF StockIInv, Asked, LookingUp, Identified, Gone, stockVars
<1> QED BY <1>1, <1>2, <1>3 DEF StockIInv, stockVars

-----------------------------------------------------------------------------
LEMMA NoItems == Len(Kept(<<>>, IdentifiedAt(<<>>))) = 0
<1> DEFINE items == <<>>
           S == IdentifiedAt(items)
<1>1. items \in Seq(StockItems) /\ S = {}
    BY DEF IdentifiedAt
<1>2. S \in SUBSET DOMAIN items
    BY <1>1
<1> HIDE DEF S, items
<1>3. Len(Kept(items, S)) = Cardinality(S)
    BY <1>1, <1>2, KeptIs
<1>4. Cardinality(S) = 0
    BY <1>1, FS_EmptySet
<1> QED BY <1>3, <1>4 DEF S, items

LEMMA StartKeeps ==
    ASSUME StockIInv, NEW q \in Importers, StartImport(q)
    PROVE  StockIInv'
<1>1. PICK items \in StockBodies :
          /\ post' = [post EXCEPT ![q] = items]
          /\ reply' = [reply EXCEPT ![q] = IF items = <<>> THEN [code |-> 400] ELSE Unset]
    BY DEF StartImport
<1>2. StockTypeOK'
    BY <1>1 DEF StockIInv, StockTypeOK, StartImport, ProductIds, Gone
<1>3. StockIds'
    BY DEF StockIInv, StockIds, StartImport
<1>4. ASSUME NEW p \in Importers
      PROVE  Asked(p)'
    <2>1. CASE p # q
        <3>1. post'[p] = post[p] /\ absent'[p] = absent[p] /\ reply'[p] = reply[p]
            BY <1>1, <2>1 DEF StockIInv, StockTypeOK, StartImport
        <3> QED BY <3>1 DEF StockIInv, Asked, StartImport, LookingUp, Identified, Gone
    <2>2. CASE p = q
        <3>1. chunk'[p] = 0 /\ post'[p] = items /\ (items # <<>> => reply'[p] = Unset)
            BY <1>1, <2>2 DEF StockIInv, StockTypeOK, Asked, StartImport
        <3>2. absent'[p] = Gone(productId')
            BY <2>2 DEF StockIInv, StockTypeOK, StartImport
        <3>3. \A k \in 1..Len(Identified(p)') : ~(k <= chunk'[p] * ChunkSize)
            BY <3>1, StockAssumption
        <3>4. items = <<>> => ~LookingUp(p)'
            BY <3>1, NoItems, StockAssumption DEF LookingUp, Identified
        <3>5. post'[p] # Unset
            BY <3>1, StockAssumption
        <3> QED BY <3>1, <3>2, <3>3, <3>4, <3>5 DEF Asked
    <2> QED BY <2>1, <2>2
<1>5. DOMAIN reply' = Importers
    BY <1>1 DEF StockIInv
<1> QED BY <1>2, <1>3, <1>4, <1>5 DEF StockIInv

(* A chunk ends where the next begins.                                     *)
LEMMA ChunksMeet ==
    ASSUME NEW n \in Nat, NEW skus, NEW k \in 1..Len(skus), Len(skus) \in Nat,
           k <= (n + 1) * ChunkSize
    PROVE  k <= n * ChunkSize \/ skus[k].sku \in ChunkSkus(skus, n)
<1> DEFINE from == n * ChunkSize
           to == (n + 1) * ChunkSize
<1>1. from \in Nat /\ to \in Nat
    BY StockAssumption
<1> SUFFICES ASSUME ~(k <= from)
             PROVE  skus[k].sku \in ChunkSkus(skus, n)
    OBVIOUS
<1>2. k <= to
    OBVIOUS
<1>3. ChunkSkus(skus, n) = {skus[i].sku : i \in (from + 1)..(IF to > Len(skus) THEN Len(skus) ELSE to)}
    BY DEF ChunkSkus
<1> HIDE DEF from, to
<1>4. k \in (from + 1)..(IF to > Len(skus) THEN Len(skus) ELSE to)
    BY <1>1, <1>2
<1> QED BY <1>3, <1>4

LEMMA LookUpKeeps ==
    ASSUME StockIInv, NEW q \in Importers, LookUp(q)
    PROVE  StockIInv'
<1> DEFINE skus == ChunkSkus(Identified(q), chunk[q])
<1>1. /\ LookingUp(q) /\ chunk' = [chunk EXCEPT ![q] = @ + 1]
      /\ UNCHANGED <<productId, lastId, stockRows, post, reply, rewritten, absent>>
    BY DEF LookUp
<1>2. PICK looked :
          /\ \/ looked = [s \in StockSkus |->
                    IF s \in skus /\ productId[s] # Unset THEN productId[s] ELSE skuToID[q][s]]
             \/ looked = skuToID[q] /\ q \in missed'
          /\ skuToID' = [skuToID EXCEPT ![q] = looked]
          /\ missed \subseteq missed' /\ missed' \subseteq Importers
          /\ stockFaults' \in 0..MaxStockFaults
    <2>1. CASE skuToID' = [skuToID EXCEPT ![q] = [s \in StockSkus |->
                    IF s \in skus /\ productId[s] # Unset THEN productId[s] ELSE @[s]]]
               /\ UNCHANGED <<stockFaults, missed>>
        BY <2>1 DEF StockIInv, StockTypeOK
    <2>2. CASE /\ stockFaults < MaxStockFaults /\ stockFaults' = stockFaults + 1
               /\ missed' = missed \cup {q} /\ UNCHANGED skuToID
        <3>1. skuToID' = [skuToID EXCEPT ![q] = skuToID[q]]
            BY <2>2 DEF StockIInv, StockTypeOK
        <3>2. stockFaults' \in 0..MaxStockFaults
            BY <2>2, StockAssumption DEF StockIInv, StockTypeOK
        <3> QED BY <2>2, <3>1, <3>2 DEF StockIInv, StockTypeOK
    <2> QED BY <2>1, <2>2 DEF LookUp
<1> HIDE DEF skus
<1>3. skuToID'[q] = looked /\ \A p \in Importers \ {q} : skuToID'[p] = skuToID[p]
    BY <1>2 DEF StockIInv, StockTypeOK
<1>4. \A s \in StockSkus : looked[s] = skuToID[q][s] \/ (looked[s] = productId[s] /\ looked[s] # Unset)
    BY <1>2
<1>5. looked \in [StockSkus -> 1..lastId \cup {Unset}]
    BY <1>2 DEF StockIInv, StockTypeOK
<1>6. StockTypeOK'
    <2>1. skuToID' \in [Importers -> [StockSkus -> 1..lastId \cup {Unset}]]
        BY <1>2, <1>5 DEF StockIInv, StockTypeOK
    <2>2. chunk' \in [Importers -> Nat]
        BY <1>1 DEF StockIInv, StockTypeOK
    <2> QED BY <1>1, <1>2, <2>1, <2>2 DEF StockIInv, StockTypeOK, ProductIds
<1>7. StockIds'
    <2>1. ASSUME NEW p \in Importers, NEW s \in StockSkus, NEW t \in StockSkus,
                 skuToID'[p][s] # Unset, skuToID'[p][s] \in {productId[t], skuToID'[p][t]}
          PROVE  s = t
        <3>1. CASE p # q
            BY <1>3, <2>1, <3>1 DEF StockIInv, StockIds
        <3>2. CASE p = q
            <4>1. looked[s] # Unset /\ looked[s] \in {productId[t], looked[t]}
                BY <1>3, <2>1, <3>2
            <4>2. looked[s] \in {productId[t], skuToID[q][t]}
                BY <1>4, <4>1
            <4> QED BY <1>4, <4>1, <4>2 DEF StockIInv, StockIds
        <3> QED BY <3>1, <3>2
    <2> QED BY <1>1, <2>1 DEF StockIInv, StockIds
<1>8. ASSUME NEW p \in Importers
      PROVE  Asked(p)'
    <2>1. Identified(p)' = Identified(p) /\ post'[p] = post[p] /\ reply'[p] = reply[p]
          /\ absent'[p] = absent[p]
        BY <1>1 DEF Identified
    <2>2. CASE p # q
        <3>1. chunk'[p] = chunk[p]
            BY <1>1, <2>2 DEF StockIInv, StockTypeOK
        <3> QED BY <1>1, <1>2, <1>3, <2>1, <2>2, <3>1 DEF StockIInv, Asked, LookingUp, Gone
    <2>3. CASE p = q
        <3>1. chunk'[p] = chunk[p] + 1 /\ chunk[p] \in Nat
            BY <1>1, <2>3 DEF StockIInv, StockTypeOK
        <3>2. post[p] # Unset /\ reply[p] = Unset
            BY <1>1, <2>3 DEF StockIInv, Asked, LookingUp
        <3>3. ASSUME NEW k \in 1..Len(Identified(p)), k <= chunk'[p] * ChunkSize,
                     looked[Identified(p)[k].sku] = Unset
              PROVE  Identified(p)[k].sku \in absent[p] \/ p \in missed'
            <4> DEFINE s == Identified(p)[k].sku
            <4>1. s \in StockSkus /\ Len(Identified(p)) \in Nat
                BY <3>2, IdentifiedIs DEF StockIInv
            <4>2. skuToID[p][s] = Unset
                BY <1>4, <2>3, <3>3, <4>1
            <4>3. CASE k <= chunk[p] * ChunkSize
                BY <1>2, <3>2, <4>2, <4>3 DEF StockIInv, Asked
            <4>4. CASE s \in skus
                <5>1. CASE q \in missed'
                    BY <2>3, <5>1
                <5>2. CASE productId[s] = Unset
                    BY <3>2, <4>1, <5>2 DEF StockIInv, Asked, Gone
                <5>3. CASE productId[s] # Unset
                    BY <1>2, <2>3, <3>3, <4>1, <4>4, <5>1, <5>3
                <5> QED BY <5>2, <5>3
            <4> QED BY <2>3, <3>1, <3>3, <4>1, <4>3, <4>4, ChunksMeet DEF skus
        <3>4. Gone(productId) \subseteq absent[p]
            BY <3>2 DEF StockIInv, Asked
        <3> QED BY <1>1, <1>3, <2>1, <2>3, <3>2, <3>3, <3>4 DEF Asked
    <2> QED BY <2>2, <2>3
<1> QED BY <1>1, <1>6, <1>7, <1>8 DEF StockIInv

LEMMA RowType ==
    ASSUME NEW item \in StockItems
    PROVE  Row(item) \in [Columns -> Nat]
<1>1. \A c \in Columns : item.given[c] \in Nat \cup {Unset}
    BY DEF StockItems
<1>2. \A c \in Columns :
          Stored(c, ValueOf(item, c)) \in Nat
    BY <1>1 DEF Stored, ValueOf, Default
<1> QED BY <1>2 DEF Row

(* What the upsert leaves: a row it does not write, or that of the last     *)
(* item for the product.                                                   *)
LEMMA UpsertedIs ==
    ASSUME StockTypeOK, NEW p \in Importers, post[p] # Unset, NEW i
    PROVE  \/ i \notin WrittenIds(p) /\ Upserted(p, i) = stockRows[i]
           \/ \E n \in FoundAt(p) :
                  /\ IdOf(p, n) = i
                  /\ \A m \in FoundAt(p) : IdOf(p, m) = i => m <= n
                  /\ Upserted(p, i) = Row(post[p][n])
<1> DEFINE mine == {n \in FoundAt(p) : IdOf(p, n) = i}
<1>1. CASE mine = {}
    BY <1>1 DEF Upserted, WrittenIds
<1>2. CASE mine # {}
    <2>1. mine \in SUBSET (1..Len(post[p])) /\ Len(post[p]) \in Nat
        BY IdentifiedIs DEF FoundAt
    <2>2. Upserted(p, i) = Row(post[p][Greatest(mine)])
        BY <1>2 DEF Upserted
    <2> HIDE DEF mine
    <2>3. Greatest(mine) \in mine /\ \A j \in mine : j <= Greatest(mine)
        BY <1>2, <2>1, GreatestIs
    <2> QED BY <2>2, <2>3 DEF mine
<1> QED BY <1>1, <1>2

LEMMA UpsertKeeps ==
    ASSUME StockIInv, NEW q \in Importers, Upsert(q)
    PROVE  StockIInv'
<1>1. /\ post[q] # Unset /\ ~LookingUp(q)
      /\ UNCHANGED <<productId, lastId, post, chunk, skuToID, missed, absent>>
      /\ \E a : reply' = [reply EXCEPT ![q] = a]
    BY DEF Upsert
<1>2. WrittenIds(q) \subseteq ProductIds => WrittenIds(q) \subseteq Ids
    <2>1. ASSUME NEW s \in StockSkus, productId[s] # Unset
          PROVE  productId[s] \in 1..lastId
        BY <2>1 DEF StockIInv, StockTypeOK
    <2>2. lastId \in 1..MaxProductId
        BY DEF StockIInv, StockTypeOK, Ids
    <2>3. \A s \in StockSkus : productId[s] # Unset => productId[s] \in 1..MaxProductId
        BY <2>1, <2>2, StockAssumption
    <2> QED BY <2>3 DEF ProductIds, Ids
<1>3. StockTypeOK'
    <2>1. CASE /\ WrittenIds(q) \subseteq ProductIds
               /\ stockRows' = [i \in Ids |-> Upserted(q, i)]
               /\ rewritten' = [p \in Importers |-> IF p = q THEN {} ELSE rewritten[p] \cup WrittenIds(q)]
               /\ UNCHANGED stockFaults
        <3>1. ASSUME NEW i \in Ids
              PROVE  /\ stockRows'[i] \in [Columns -> Nat] \cup {Unset}
                     /\ stockRows'[i] # Unset => i \in ProductIds
            <4>1. stockRows'[i] = Upserted(q, i)
                BY <2>1
            <4>2. CASE i \notin WrittenIds(q) /\ Upserted(q, i) = stockRows[i]
                BY <4>1, <4>2 DEF StockIInv, StockTypeOK
            <4>3. ASSUME NEW n \in FoundAt(q), IdOf(q, n) = i, Upserted(q, i) = Row(post[q][n])
                  PROVE  /\ stockRows'[i] \in [Columns -> Nat] \cup {Unset}
                         /\ stockRows'[i] # Unset => i \in ProductIds
                <5>1. post[q][n] \in StockItems
                    BY <1>1, IdentifiedIs DEF StockIInv, FoundAt
                <5>2. i \in ProductIds
                    BY <2>1, <4>3 DEF WrittenIds
                <5> QED BY <4>1, <4>3, <5>1, <5>2, RowType
            <4> QED BY <1>1, <4>2, <4>3, UpsertedIs DEF StockIInv
        <3>2. stockRows' \in [Ids -> [Columns -> Nat] \cup {Unset}]
            BY <2>1, <3>1
        <3>3. rewritten' \in [Importers -> SUBSET Ids]
            BY <1>2, <2>1 DEF StockIInv, StockTypeOK
        <3> QED BY <1>1, <2>1, <3>1, <3>2, <3>3 DEF StockIInv, StockTypeOK, ProductIds
    <2>2. CASE UNCHANGED <<stockRows, rewritten, stockFaults>>
        BY <1>1, <2>2 DEF StockIInv, StockTypeOK, ProductIds
    <2>3. CASE /\ stockFaults < MaxStockFaults /\ stockFaults' = stockFaults + 1
               /\ UNCHANGED <<stockRows, rewritten>>
        <3>1. stockFaults' \in 0..MaxStockFaults
            BY <2>3, StockAssumption DEF StockIInv, StockTypeOK
        <3> QED BY <1>1, <2>3, <3>1 DEF StockIInv, StockTypeOK, ProductIds
    <2> QED BY <2>1, <2>2, <2>3 DEF Upsert
<1>4. StockIds'
    BY <1>1 DEF StockIInv, StockIds
<1>5. ASSUME NEW p \in Importers
      PROVE  Asked(p)'
    <2>1. (LookingUp(p)' <=> LookingUp(p)) /\ Identified(p)' = Identified(p)
        BY <1>1 DEF LookingUp, Identified
    <2>2. p # q => reply'[p] = reply[p]
        BY <1>1 DEF StockIInv
    <2> QED BY <1>1, <2>1, <2>2 DEF StockIInv, Asked, Gone
<1> QED BY <1>1, <1>3, <1>4, <1>5 DEF StockIInv

LEMMA CreateKeeps ==
    ASSUME StockIInv, NEW x \in StockSkus, CreateProduct(x)
    PROVE  StockIInv'
<1>1. /\ productId[x] = Unset /\ lastId < MaxProductId /\ lastId' = lastId + 1
      /\ productId' = [productId EXCEPT ![x] = lastId + 1]
      /\ UNCHANGED <<stockRows, post, chunk, skuToID, reply, stockFaults, missed, rewritten, absent>>
    BY DEF CreateProduct
<1>2. /\ lastId \in Nat /\ productId'[x] = lastId + 1
      /\ \A s \in StockSkus \ {x} : productId'[s] = productId[s]
    BY <1>1 DEF StockIInv, StockTypeOK, Ids
<1>3. StockTypeOK'
    <2>1. lastId' \in Ids /\ productId' \in [StockSkus -> 1..lastId' \cup {Unset}]
        BY <1>1, StockAssumption DEF StockIInv, StockTypeOK, Ids
    <2>2. skuToID' \in [Importers -> [StockSkus -> 1..lastId' \cup {Unset}]]
        BY <1>1 DEF StockIInv, StockTypeOK, Ids
    <2>3. ProductIds \subseteq ProductIds'
        BY <1>1, <1>2 DEF ProductIds
    <2> QED BY <1>1, <2>1, <2>2, <2>3 DEF StockIInv, StockTypeOK
<1>4. StockIds'
    <2>1. /\ \A s \in StockSkus : productId[s] # Unset => productId[s] # lastId + 1
          /\ \A p \in Importers : \A s \in StockSkus : skuToID[p][s] # Unset => skuToID[p][s] # lastId + 1
        BY <1>2 DEF StockIInv, StockTypeOK
    <2>2. \A s, t \in StockSkus : productId'[s] # Unset /\ productId'[s] = productId'[t] => s = t
        BY <1>2, <2>1 DEF StockIInv, StockIds
    <2>3. \A p \in Importers : \A s, t \in StockSkus :
              skuToID[p][s] # Unset /\ skuToID[p][s] \in {productId'[t], skuToID[p][t]} => s = t
        BY <1>2, <2>1 DEF StockIInv, StockIds
    <2> QED BY <1>1, <2>2, <2>3 DEF StockIds
<1>5. ASSUME NEW p \in Importers
      PROVE  Asked(p)'
    <2>1. (LookingUp(p)' <=> LookingUp(p)) /\ Identified(p)' = Identified(p)
        BY <1>1 DEF LookingUp, Identified
    <2>2. Gone(productId') \subseteq Gone(productId)
        BY <1>1, <1>2 DEF Gone
    <2> QED BY <1>1, <2>1, <2>2 DEF StockIInv, Asked
<1> QED BY <1>1, <1>3, <1>4, <1>5 DEF StockIInv

LEMMA DeleteKeeps ==
    ASSUME StockIInv, NEW x \in StockSkus, DeleteProduct(x)
    PROVE  StockIInv'
<1>1. /\ productId[x] # Unset
      /\ stockRows' = [stockRows EXCEPT ![productId[x]] = Unset]
      /\ productId' = [productId EXCEPT ![x] = Unset]
      /\ absent' = [p \in Importers |-> absent[p] \cup {x}]
      /\ UNCHANGED <<lastId, post, chunk, skuToID, reply, stockFaults, missed, rewritten>>
    BY DEF DeleteProduct
<1>2. productId'[x] = Unset /\ \A s \in StockSkus \ {x} : productId'[s] = productId[s]
    BY <1>1 DEF StockIInv, StockTypeOK
<1>3. StockTypeOK'
    <2>1. ASSUME NEW i \in Ids, stockRows'[i] # Unset
          PROVE  i \in ProductIds'
        <3>1. i # productId[x] /\ stockRows[i] # Unset
            BY <1>1, <2>1 DEF StockIInv, StockTypeOK
        <3>2. PICK s \in StockSkus : productId[s] = i /\ i # Unset
            BY <3>1 DEF StockIInv, StockTypeOK, ProductIds
        <3>3. s # x
            BY <3>1, <3>2
        <3> QED BY <1>2, <3>2, <3>3 DEF ProductIds
    <2>2. productId' \in [StockSkus -> 1..lastId' \cup {Unset}]
        BY <1>1 DEF StockIInv, StockTypeOK
    <2>3. stockRows' \in [Ids -> [Columns -> Nat] \cup {Unset}]
        BY <1>1 DEF StockIInv, StockTypeOK
    <2>4. absent' \in [Importers -> SUBSET StockSkus]
        BY <1>1 DEF StockIInv, StockTypeOK
    <2> QED BY <1>1, <2>1, <2>2, <2>3, <2>4 DEF StockIInv, StockTypeOK
<1>4. StockIds'
    BY <1>1, <1>2 DEF StockIInv, StockIds
<1>5. ASSUME NEW p \in Importers
      PROVE  Asked(p)'
    <2>1. (LookingUp(p)' <=> LookingUp(p)) /\ Identified(p)' = Identified(p)
        BY <1>1 DEF LookingUp, Identified
    <2>2. Gone(productId') = Gone(productId) \cup {x} /\ absent'[p] = absent[p] \cup {x}
        BY <1>1, <1>2 DEF Gone
    <2> QED BY <1>1, <2>1, <2>2 DEF StockIInv, Asked
<1> QED BY <1>1, <1>3, <1>4, <1>5 DEF StockIInv

LEMMA StockKept == StockIInv /\ StockNext => StockIInv'
BY StartKeeps, LookUpKeeps, UpsertKeeps, CreateKeeps, DeleteKeeps DEF StockNext

-----------------------------------------------------------------------------
(* The last item for an SKU is the last for its product, so that its row    *)
(* is the one that the upsert leaves.                                      *)

LastOf(p, n) ==
    /\ n \in IdentifiedAt(post[p])
    /\ \A m \in (n + 1)..Len(post[p]) : post[p][m].sku # post[p][n].sku

Held(p, n) ==
    IdOf(p, n) \in ProductIds \ rewritten[p] =>
        stockRows[IdOf(p, n)] = Row(post[p][n])

RowsHeld == \A p \in Importers : Imported(p) => \A n \in 1..Len(post[p]) : LastOf(p, n) => Held(p, n)

LEMMA RowsHeldIs == StockTypeOK /\ RowsHeld => LastItemWins
<1> SUFFICES ASSUME StockTypeOK, RowsHeld, NEW p \in Importers, Imported(p),
                    NEW n \in 1..Len(post[p]), post[p][n].sku # Unset,
                    IdOf(p, n) \in ProductIds \ rewritten[p],
                    \A m \in (n + 1)..Len(post[p]) : post[p][m].sku # post[p][n].sku,
                    NEW c \in Columns
             PROVE  \/ stockRows[IdOf(p, n)][c] = ValueOf(post[p][n], c)
                    \/ /\ c = "min_sale_qty" /\ ValueOf(post[p][n], c) = 0
                       /\ stockRows[IdOf(p, n)][c] = 1
    BY DEF LastItemWins, IdOf
<1>1. LastOf(p, n)
    BY DEF LastOf, IdentifiedAt
<1>2. stockRows[IdOf(p, n)] = Row(post[p][n])
    BY <1>1 DEF RowsHeld, Held
<1> QED BY <1>2 DEF Row, Stored

(* The importer itself: no other SKU has the product.                      *)
LEMMA ImporterHolds ==
    ASSUME StockIInv, NEW p \in Importers, Upsert(p), post[p] # Unset,
           WrittenIds(p) \subseteq ProductIds, stockRows' = [i \in Ids |-> Upserted(p, i)],
           NEW n \in 1..Len(post[p]), LastOf(p, n)
    PROVE  Held(p, n)'
<1> DEFINE i == IdOf(p, n)
           s == post[p][n].sku
<1>1. UNCHANGED <<productId, post, skuToID>> /\ IdOf(p, n)' = i /\ ProductIds' = ProductIds
    BY DEF Upsert, IdOf, ProductIds
<1> SUFFICES ASSUME i \in ProductIds
             PROVE  stockRows'[i] = Row(post[p][n])
    BY <1>1 DEF Held
<1>2. /\ \A m \in IdentifiedAt(post[p]) : m \in 1..Len(post[p]) /\ post[p][m].sku \in StockSkus
      /\ Len(post[p]) \in Nat
    BY IdentifiedIs DEF StockIInv
<1>3. i # Unset /\ n \in FoundAt(p)
    BY DEF ProductIds, FoundAt, LastOf
<1>4. i \in Ids
    <2>1. \E t \in StockSkus : i = productId[t]
        BY DEF ProductIds
    <2>2. i \in 1..lastId /\ lastId \in 1..MaxProductId
        BY <1>3, <2>1 DEF StockIInv, StockTypeOK, Ids
    <2> QED BY <2>2, StockAssumption DEF Ids
<1>5. ASSUME NEW m \in FoundAt(p), IdOf(p, m) = i, n <= m
      PROVE  m = n
    <2>1. skuToID[p][post[p][m].sku] = skuToID[p][s] /\ skuToID[p][s] # Unset
        BY <1>3, <1>5 DEF IdOf
    <2>2. m \in IdentifiedAt(post[p]) /\ n \in IdentifiedAt(post[p])
        BY <1>3, <1>5 DEF FoundAt
    <2>3. post[p][m].sku = s
        BY <1>2, <2>1, <2>2 DEF StockIInv, StockIds
    <2> QED BY <1>2, <1>5, <2>2, <2>3 DEF LastOf
<1>6. PICK m \in FoundAt(p) :
          /\ IdOf(p, m) = i /\ Upserted(p, i) = Row(post[p][m])
          /\ \A l \in FoundAt(p) : IdOf(p, l) = i => l <= m
    <2>1. i \in WrittenIds(p) /\ StockTypeOK
        BY <1>3 DEF WrittenIds, StockIInv
    <2> HIDE DEF i
    <2> QED BY <2>1, UpsertedIs
<1>7. m = n
    BY <1>3, <1>5, <1>6
<1> QED BY <1>4, <1>6, <1>7

LEMMA UpsertHolds ==
    ASSUME StockIInv, RowsHeld, NEW q \in Importers, Upsert(q)
    PROVE  RowsHeld'
<1>1. /\ post[q] # Unset /\ UNCHANGED <<productId, post, skuToID>>
      /\ \E a : reply' = [reply EXCEPT ![q] = a]
    BY DEF Upsert
<1>2. ProductIds' = ProductIds /\ \A p \in Importers \ {q} : reply'[p] = reply[p]
    BY <1>1 DEF ProductIds, StockIInv
<1>3. CASE UNCHANGED <<stockRows, rewritten>> /\ reply'[q].code # 200
    BY <1>1, <1>2, <1>3 DEF RowsHeld, Imported, LastOf, Held, IdOf
<1>4. CASE /\ WrittenIds(q) \subseteq ProductIds
           /\ stockRows' = [i \in Ids |-> Upserted(q, i)]
           /\ rewritten' = [p \in Importers |-> IF p = q THEN {} ELSE rewritten[p] \cup WrittenIds(q)]
    <2>1. ASSUME NEW p \in Importers, Imported(p)', NEW n \in 1..Len(post[p]), LastOf(p, n)
          PROVE  Held(p, n)'
        <3>1. CASE p = q
            BY <1>1, <1>4, <2>1, <3>1, ImporterHolds
        <3>2. CASE p # q
            <4> DEFINE i == IdOf(p, n)
            <4>1. Held(p, n) /\ IdOf(p, n)' = i
                BY <1>1, <1>2, <2>1, <3>2 DEF RowsHeld, Imported, IdOf
            <4>2. CASE i \in ProductIds \ rewritten'[p]
                <5>1. i \notin WrittenIds(q) /\ i \notin rewritten[p]
                    BY <1>4, <3>2, <4>2
                <5>2. i \in Ids
                    <6>1. \E t \in StockSkus : i = productId[t] /\ i # Unset
                        BY <4>2 DEF ProductIds
                    <6>2. i \in 1..lastId /\ lastId \in 1..MaxProductId
                        BY <6>1 DEF StockIInv, StockTypeOK, Ids
                    <6> QED BY <6>2, StockAssumption DEF Ids
                <5>3. Upserted(q, i) = stockRows[i]
                    BY <1>1, <5>1, UpsertedIs DEF StockIInv, WrittenIds
                <5>4. stockRows'[i] = stockRows[i]
                    BY <1>4, <5>2, <5>3
                <5> QED BY <1>1, <1>2, <4>1, <4>2, <5>1, <5>4 DEF Held
            <4>3. CASE i \notin ProductIds \ rewritten'[p]
                BY <1>2, <4>1, <4>3 DEF Held
            <4> QED BY <4>2, <4>3
        <3> QED BY <3>1, <3>2
    <2>2. \A p \in Importers : \A n \in 1..Len(post[p]) : LastOf(p, n)' <=> LastOf(p, n)
        BY <1>1 DEF LastOf
    <2> QED BY <1>1, <2>1, <2>2 DEF RowsHeld
<1>5. CASE reply' = [reply EXCEPT ![q] = [code |-> 500]] /\ UNCHANGED <<stockRows, rewritten>>
    <2> DEFINE failure == [code |-> 500]
    <2>1. failure.code = 500 /\ reply' = [reply EXCEPT ![q] = failure]
        BY <1>5
    <2> HIDE DEF failure
    <2>2. reply'[q] = failure
        BY <2>1 DEF StockIInv
    <2>3. reply'[q].code = 500
        BY <2>1, <2>2
    <2> QED BY <1>3, <1>5, <2>3
<1> QED BY <1>4, <1>5 DEF Upsert

LEMMA OthersHold ==
    ASSUME StockIInv, RowsHeld,
           \/ \E p \in Importers : StartImport(p) \/ LookUp(p)
           \/ \E s \in StockSkus : CreateProduct(s) \/ DeleteProduct(s)
    PROVE  RowsHeld'
<1>1. ASSUME NEW p \in Importers, Imported(p)', NEW n \in 1..Len(post'[p]), LastOf(p, n)'
      PROVE  Held(p, n)'
    <2>1. reply'[p] = reply[p] /\ rewritten'[p] = rewritten[p] /\ Imported(p)
        <3>1. ASSUME NEW q \in Importers, StartImport(q)
              PROVE  reply'[p] = reply[p]
            <4> DEFINE refused == [code |-> 400]
            <4>1. refused.code = 400 /\ refused.code # 200
                OBVIOUS
            <4>2. \E a \in {refused, Unset} : reply' = [reply EXCEPT ![q] = a]
                BY <3>1 DEF StartImport
            <4> HIDE DEF refused
            <4>3. p # q
                BY <1>1, <4>1, <4>2 DEF Imported, StockIInv
            <4> QED BY <4>2, <4>3 DEF StockIInv
        <3>2. reply'[p] = reply[p]
            BY <3>1 DEF LookUp, CreateProduct, DeleteProduct
        <3> QED BY <1>1, <3>2 DEF StartImport, LookUp, CreateProduct, DeleteProduct, Imported
    <2>2. post[p] # Unset /\ ~LookingUp(p)
        BY <2>1 DEF StockIInv, Asked, Imported
    <2>3. post'[p] = post[p] /\ skuToID'[p] = skuToID[p]
        <3>1. ASSUME NEW q \in Importers, StartImport(q)
              PROVE  post'[p] = post[p] /\ skuToID'[p] = skuToID[p]
            BY <2>2, <3>1 DEF StartImport, StockIInv, StockTypeOK
        <3>2. ASSUME NEW q \in Importers, LookUp(q)
              PROVE  post'[p] = post[p] /\ skuToID'[p] = skuToID[p]
            <4>1. q # p /\ post' = post
                BY <2>2, <3>2 DEF LookUp
            <4>2. skuToID' = skuToID \/ \E a : skuToID' = [skuToID EXCEPT ![q] = a]
                BY <3>2 DEF LookUp
            <4> QED BY <4>1, <4>2 DEF StockIInv, StockTypeOK
        <3> QED BY <3>1, <3>2 DEF CreateProduct, DeleteProduct
    <2> DEFINE i == IdOf(p, n)
    <2>4. LastOf(p, n) /\ Held(p, n) /\ IdOf(p, n)' = i
        BY <1>1, <2>1, <2>3 DEF RowsHeld, LastOf, IdOf
    <2>5. post[p][n].sku \in StockSkus /\ i = skuToID[p][post[p][n].sku]
        BY <2>2, <2>4, IdentifiedIs DEF StockIInv, LastOf, IdOf
    <2>6. CASE UNCHANGED <<stockRows, productId>>
        BY <2>1, <2>3, <2>4, <2>6 DEF Held, ProductIds
    <2>7. ASSUME NEW s \in StockSkus, CreateProduct(s)
          PROVE  Held(p, n)'
        <3>1. i \in ProductIds' => i \in ProductIds
            <4>1. i # Unset => i \in 1..lastId /\ lastId \in Nat
                BY <2>5 DEF StockIInv, StockTypeOK, Ids
            <4>2. \A t \in StockSkus : productId'[t] = productId[t] \/ productId'[t] = lastId + 1
                BY <2>7 DEF CreateProduct, StockIInv, StockTypeOK
            <4> QED BY <4>1, <4>2 DEF ProductIds
        <3> QED BY <2>1, <2>3, <2>4, <2>7, <3>1 DEF Held, CreateProduct
    <2>8. ASSUME NEW s \in StockSkus, DeleteProduct(s)
          PROVE  Held(p, n)'
        <3>1. CASE i \in ProductIds'
            <4>1. PICK t \in StockSkus : productId'[t] = i /\ i # Unset
                BY <3>1 DEF ProductIds
            <4>2. t # s /\ productId[t] = i
                BY <2>8, <4>1 DEF DeleteProduct, StockIInv, StockTypeOK
            <4>3. i # productId[s] /\ i \in ProductIds
                BY <4>1, <4>2 DEF StockIInv, StockIds, ProductIds
            <4>4. i \in Ids
                <5>1. i \in 1..lastId /\ lastId \in 1..MaxProductId
                    BY <4>1, <4>2 DEF StockIInv, StockTypeOK, Ids
                <5> QED BY <5>1, StockAssumption DEF Ids
            <4>5. stockRows'[i] = stockRows[i]
                BY <2>8, <4>3, <4>4 DEF DeleteProduct, StockIInv, StockTypeOK
            <4> QED BY <2>1, <2>3, <2>4, <4>3, <4>5 DEF Held
        <3>2. CASE i \notin ProductIds'
            BY <2>4, <3>2 DEF Held
        <3> QED BY <3>1, <3>2
    <2>9. ASSUME NEW q \in Importers, StartImport(q) \/ LookUp(q)
          PROVE  UNCHANGED <<stockRows, productId>>
        BY <2>9 DEF StartImport, LookUp
    <2> QED BY <2>6, <2>7, <2>8, <2>9
<1> QED BY <1>1 DEF RowsHeld

LEMMA StockHeld == StockIInv /\ RowsHeld /\ StockNext => RowsHeld'
BY UpsertHolds, OthersHold DEF StockNext

LEMMA StockHeldRests == RowsHeld /\ UNCHANGED stockVars => RowsHeld'
BY DEF RowsHeld, Imported, LastOf, Held, IdOf, ProductIds, stockVars

LEMMA StockImplies == StockIInv => SkipsTheUnknown
<1> SUFFICES ASSUME StockIInv, NEW p \in Importers, Imported(p), NEW n \in 1..Len(post[p]),
                    post[p][n].sku # Unset, skuToID[p][post[p][n].sku] = Unset
             PROVE  post[p][n].sku \in absent[p] \/ p \in missed
    BY DEF SkipsTheUnknown
<1>1. post[p] # Unset /\ ~LookingUp(p)
    BY DEF StockIInv, Asked, Imported
<1>2. n \in IdentifiedAt(post[p])
    BY DEF IdentifiedAt
<1>3. PICK k \in 1..Len(Identified(p)) : Identified(p)[k] = post[p][n]
    BY <1>1, <1>2, IdentifiedIs DEF StockIInv
<1>4. k <= chunk[p] * ChunkSize
    <2>1. Len(Identified(p)) \in Nat /\ chunk[p] * ChunkSize \in Nat
        BY <1>1, IdentifiedIs, StockAssumption DEF StockIInv, StockTypeOK
    <2> QED BY <1>1, <2>1 DEF LookingUp
<1> QED BY <1>1, <1>3, <1>4 DEF StockIInv, Asked

-----------------------------------------------------------------------------
(* The types of the indexer.                                               *)

LEMMA IndexTyped == IndexInit => IndexTypeOK
BY IndexAssumption DEF IndexInit, IndexTypeOK, None

(* A batch, written or refused.                                            *)
BatchSent(p) ==
    /\ \E B \in SUBSET Products : left' = [left EXCEPT ![p] = @ \ B] /\ (Written(p, B) \/ Refused(p))
    /\ \/ UNCHANGED <<faults, faulted>>
       \/ faults < MaxIndexFaults /\ faults' = faults + 1 /\ faulted' = faulted \cup {p}
    /\ UNCHANGED <<progress, stage>>

LEMMA SentIsBatch ==
    ASSUME IndexTypeOK, NEW p \in Indexers,
           SendBatch(p) \/ SendLastUpdates(p) \/ SendLastInserts(p)
    PROVE  BatchSent(p)
<1>1. New(p) \subseteq Products /\ Old(p) \subseteq Products
    BY DEF New, Old, IndexTypeOK
<1>2. \E B \in SUBSET Products : Insert(p, B) \/ Update(p, B)
    BY <1>1 DEF SendBatch, SendLastUpdates, SendLastInserts, Full
<1>3. UNCHANGED <<progress, stage>>
    BY DEF SendBatch, SendLastUpdates, SendLastInserts
<1> QED BY <1>2, <1>3 DEF BatchSent, Insert, Update, Written, Faulted

LEMMA IndexTypeKept == IndexTypeOK /\ IndexNext => IndexTypeOK'
<1> SUFFICES ASSUME IndexTypeOK, IndexNext
             PROVE  IndexTypeOK'
    OBVIOUS
<1>1. CASE ChangeProduct
    <2>1. version' \in 1..MaxVersion /\ version' = version + 1 /\ version \in Nat
        BY <1>1, IndexAssumption DEF IndexTypeOK, ChangeProduct
    <2>2. 0..version \subseteq 0..version'
        BY <2>1
    <2>3. catalogue' \in [Products -> 0..version']
        BY <1>1, <2>1, <2>2 DEF IndexTypeOK, ChangeProduct, None
    <2>4. index' \in [Products -> 0..version'] /\ fetched' \in [Indexers -> [Products -> 0..version']]
        BY <1>1, <2>2 DEF IndexTypeOK, ChangeProduct
    <2> QED BY <1>1, <2>1, <2>3, <2>4 DEF IndexTypeOK, ChangeProduct
<1>2. ASSUME NEW p \in Indexers, FetchFlat(p)
      PROVE  IndexTypeOK'
    <2>1. runs' \in [Indexers -> 0..MaxIndexRuns]
        <3>1. runs[p] \in Nat /\ runs[p] + 1 \in 0..MaxIndexRuns
            BY <1>2, IndexAssumption DEF IndexTypeOK, FetchFlat
        <3> QED BY <1>2, <3>1 DEF IndexTypeOK, FetchFlat
    <2> QED BY <1>2, <2>1 DEF IndexTypeOK, FetchFlat
<1>3. ASSUME NEW p \in Indexers, ReadRows(p)
      PROVE  IndexTypeOK'
    BY <1>3 DEF IndexTypeOK, ReadRows, Present
<1>4. ASSUME NEW p \in Indexers, BatchSent(p)
      PROVE  IndexTypeOK'
    <2>1. PICK B \in SUBSET Products : left' = [left EXCEPT ![p] = @ \ B] /\ (Written(p, B) \/ Refused(p))
        BY <1>4 DEF BatchSent
    <2>2. faults' \in 0..MaxIndexFaults /\ faulted' \subseteq Indexers
        BY <1>4, IndexAssumption DEF BatchSent, IndexTypeOK
    <2>3. left' \in [Indexers -> SUBSET Products]
        BY <2>1 DEF IndexTypeOK
    <2>4. UNCHANGED <<version, catalogue, stage, fetched, known, runs>>
        BY <1>4 DEF BatchSent, progress
    <2>5. /\ index' \in [Products -> 0..version] /\ behind' \in [Indexers -> SUBSET Products]
          /\ failed' \in [Indexers -> BOOLEAN]
        <3>1. CASE Written(p, B)
            <4>1. \A x \in Products : fetched[p][x] \in 0..version /\ index[x] \in 0..version
                BY DEF IndexTypeOK
            <4>2. \A q \in Indexers : behind[q] \in SUBSET Products
                BY DEF IndexTypeOK
            <4> QED BY <3>1, <4>1, <4>2 DEF Written, IndexTypeOK
        <3>2. CASE Refused(p)
            BY <3>2 DEF Refused, IndexTypeOK
        <3> QED BY <2>1, <3>1, <3>2
    <2> QED BY <2>2, <2>3, <2>4, <2>5 DEF IndexTypeOK
<1>5. ASSUME NEW p \in Indexers, Report(p) \/ Restart(p)
      PROVE  IndexTypeOK'
    BY <1>5 DEF IndexTypeOK, Report, Restart, progress
<1> QED BY <1>1, <1>2, <1>3, <1>4, <1>5, SentIsBatch DEF IndexNext

LEMMA IndexTypeRests == IndexTypeOK /\ UNCHANGED indexVars => IndexTypeOK'
BY DEF IndexTypeOK, indexVars

-----------------------------------------------------------------------------
(* Whichever of the services runs, the others rest.                        *)
LEMMA ServicesInvariant == Spec => [](GridIInv /\ IndexIInv /\ StockIInv /\ RowsHeld)
<1>1. Init => GridIInv /\ IndexIInv /\ StockIInv /\ RowsHeld
    <2>1. StockInit => RowsHeld
        BY DEF StockInit, RowsHeld, Imported
    <2> QED BY <2>1, GridStarts, IndexStarts, StockStarts DEF Init
<1>2. /\ GridIInv /\ IndexIInv /\ StockIInv /\ RowsHeld
      /\ [Next]_vars
      => GridIInv' /\ IndexIInv' /\ StockIInv' /\ RowsHeld'
    BY GridRests, IndexRests, StockRests, StockHeldRests, GridKept, IndexKept, StockKept, StockHeld
       DEF Next, vars
<1> QED BY <1>1, <1>2, PTL DEF Spec

(* The variables keep their types: an order in the table or read from it has *)
(* all its columns, the JSON table holds versions of products that were    *)
(* there, and a stock row is one of a product that is there, whatever is   *)
(* deleted while an import runs (sales_order_grid_api.go, product_json.go, *)
(* ImportStockJSON).                                                       *)
THEOREM ServicesTypeCorrect == Spec => []TypeOK
<1> DEFINE Typed == service \in {"orders", "index", "stock"} /\ IndexTypeOK
<1>1. Init => Typed
    BY IndexTyped DEF Init
<1>2. Typed /\ [Next]_vars => Typed'
    BY IndexTypeRests, IndexTypeKept DEF Next, vars
<1>3. Typed /\ GridIInv /\ StockIInv => TypeOK
    BY DEF TypeOK, GridIInv, StockIInv
<1> QED BY <1>1, <1>2, <1>3, ServicesInvariant, PTL DEF Spec

(* Whatever requests overlap, every column of an order holds the value last *)
(* given for it by a request that succeeded, the stamps included, unless a *)
(* PUT that did not give it put it back to what it had read before it      *)
(* changed, or saved it to another order (sales_order_grid_api.go, the     *)
(* handlers of POST, PUT and DELETE).                                      *)
THEOREM ServicesUpdatesKept == Spec => []UpdatesKept
<1>1. GridIInv => UpdatesKept
    BY DEF GridIInv
<1> QED BY <1>1, ServicesInvariant, PTL

(* An indexer that printed no failure has everything it fetched in the     *)
(* table, whatever other indexers and Magento did (product_json.go).       *)
THEOREM ServicesIndexedAll == Spec => []IndexedAll
BY ServicesInvariant, IndexImplies, PTL

(* A batch of an indexer fails only with the database, or after another    *)
(* indexer has written rows (product_json.go, the map of existing entries). *)
THEOREM ServicesFailsForAReason == Spec => []FailsForAReason
BY ServicesInvariant, IndexImplies, PTL

(* Of the items of an answered stock import the last for an SKU is in the   *)
(* row of its product, until another import writes it or the product is    *)
(* deleted (ImportStockJSON: the rows are upserted in the items' order).   *)
THEOREM ServicesLastItemWins == Spec => []LastItemWins
<1>1. StockIInv /\ RowsHeld => LastItemWins
    BY RowsHeldIs DEF StockIInv
<1> QED BY <1>1, ServicesInvariant, PTL

(* An answered stock import skipped no SKU but one that had no product at   *)
(* some moment of the request, if none of its lookups failed, however the  *)
(* batch size cuts the request (ImportStockJSON: the chunks).              *)
THEOREM ServicesSkipsTheUnknown == Spec => []SkipsTheUnknown
BY ServicesInvariant, StockImplies, PTL
=================================================================================

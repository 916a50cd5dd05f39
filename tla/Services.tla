------------------------------- MODULE Services -------------------------------
(***************************************************************************)
(* The order grid, the indexer and the stock import in one program.  They  *)
(* share no table and no variable, so that it is enough to let one of them *)
(* run at a time while the others rest.                                    *)
(***************************************************************************)
EXTENDS OrderGrid, ProductJson, StockImport

VARIABLE service \* the one that runs

vars == <<service, gridVars, indexVars, stockVars>>

Init ==
    /\ service \in {"orders", "index", "stock"}
    /\ GridInit /\ IndexInit /\ StockInit
    /\ service # "orders" => redis /\ \A i \in OrderIds : orders[i] = Nil
    /\ service # "index" => Present(catalogue) = {}
    /\ service # "stock" => ProductIds = {}

Next ==
    \/ /\ service = "orders" /\ GridNext
       /\ UNCHANGED <<service, indexVars, stockVars>>
    \/ /\ service = "index" /\ IndexNext
       /\ UNCHANGED <<service, gridVars, stockVars>>
    \/ /\ service = "stock" /\ StockNext
       /\ UNCHANGED <<service, gridVars, indexVars>>

Spec == Init /\ [][Next]_vars /\ GridFairness

-----------------------------------------------------------------------------
(* Types: an order that is saved has all its columns (Bind leaves those its *)
(* body does not give), the JSON table holds what was fetched, and a stock *)
(* row is that of a product that is there.                                 *)
GridTypeOK ==
    /\ redis \in BOOLEAN
    /\ orders \in Grids /\ listed \in Grids \cup {Nil}
    /\ at \in [Clients -> {"idle", "store", "save"}]
    /\ list \in [Clients -> Grids \cup {Nil}]
    /\ source \in [Clients -> OrderIds \cup {Nil}] /\ target \in [Clients -> OrderIds \cup {Nil}]
    /\ body \in [Clients -> Bodies \cup {Nil}] /\ order \in [Clients -> Orders \cup {Nil}]
    /\ changed \in [Clients -> SUBSET Fields] /\ latest \in Grids
    /\ lost \subseteq OrderIds \X Fields /\ orderWrites \in 0..MaxOrderWrites

IndexTypeOK ==
    /\ version \in 1..MaxVersion
    /\ catalogue \in [Products -> 0..version] /\ index \in [Products -> 0..version]
    /\ stage \in [Indexers -> {"idle", "read", "batches", "done", "panicked"}]
    /\ fetched \in [Indexers -> [Products -> 0..version]]
    /\ known \in [Indexers -> SUBSET Products] /\ left \in [Indexers -> SUBSET Products]
    /\ behind \in [Indexers -> SUBSET Products]
    /\ failed \in [Indexers -> BOOLEAN] /\ runs \in [Indexers -> 0..MaxIndexRuns]
    /\ faults \in 0..MaxIndexFaults /\ faulted \subseteq Indexers

StockTypeOK ==
    /\ lastId \in Ids /\ productId \in [StockSkus -> 1..lastId \cup {Unset}]
    /\ post \in [Importers -> StockBodies \cup {Unset}]
    /\ chunk \in [Importers -> Nat]
    /\ skuToID \in [Importers -> [StockSkus -> 1..lastId \cup {Unset}]]
    /\ stockRows \in [Ids -> [Columns -> Nat] \cup {Unset}]
    /\ \A i \in Ids : stockRows[i] # Unset => i \in ProductIds
    /\ stockFaults \in 0..MaxStockFaults /\ missed \subseteq Importers
    /\ rewritten \in [Importers -> SUBSET Ids] /\ absent \in [Importers -> SUBSET StockSkus]

TypeOK ==
    /\ service \in {"orders", "index", "stock"}
    /\ GridTypeOK /\ IndexTypeOK /\ StockTypeOK
===============================================================================

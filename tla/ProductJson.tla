------------------------------ MODULE ProductJson ------------------------------
(***************************************************************************)
(* products:json:index: processes that copy the flat products into the JSON *)
(* table, in batches of inserts and of updates in the random order in which *)
(* Go ranges over a map.  What they collect between two batches is their   *)
(* own, so that a step is a query; a product's version stands for its      *)
(* attributes.  Marshalling cannot fail on what the catalogue holds.       *)
(***************************************************************************)
EXTENDS Naturals, FiniteSets

CONSTANTS Indexers, Products,
          IndexBatch,    \* batchSize
          MaxVersion,    \* bound on the changes of the catalogue
          MaxIndexRuns,  \* bound on the runs of an indexer
          MaxIndexFaults \* bound on the queries that fail

ASSUME IndexAssumption ==
    MaxVersion \in Nat \ {0} /\ MaxIndexRuns \in Nat /\ MaxIndexFaults \in Nat

None == 0 \* no product, no row

VARIABLES
    catalogue, \* product -> version
    index,     \* product -> version in the JSON table
    version,   \* changes of the catalogue so far
    stage,     \* indexer -> where it is
    fetched,   \* product -> version, as it was fetched
    known,     \* products that had a row when the rows were read
    left,      \* products not yet in a batch that was sent
    failed,    \* a batch has failed, which is printed
    runs, faults,
    faulted,   \* ghost: indexers whose query failed for no reason of their own
    behind     \* ghost: rows others have written since the rows were read

indexVars == <<catalogue, index, version, stage, fetched, known, left, failed, runs, faults, faulted, behind>>
progress == <<catalogue, version, fetched, known, runs>>

IndexInit ==
    /\ catalogue \in [Products -> {None, 1}]
    /\ index \in {[x \in Products |-> None], catalogue}
    /\ version = 1
    /\ stage = [p \in Indexers |-> "idle"]
    /\ fetched = [p \in Indexers |-> [x \in Products |-> None]]
    /\ known = [p \in Indexers |-> {}]
    /\ left = [p \in Indexers |-> {}]
    /\ failed = [p \in Indexers |-> FALSE]
    /\ runs = [p \in Indexers |-> 0]
    /\ faults = 0
    /\ faulted = {}
    /\ behind = [p \in Indexers |-> {}]

Present(f) == {x \in Products : f[x] # None}

-----------------------------------------------------------------------------
(* FetchWithAllAttributesFlat, in a process whose cache is empty.          *)
FetchFlat(p) ==
    /\ stage[p] = "idle" /\ runs[p] < MaxIndexRuns
    /\ fetched' = [fetched EXCEPT ![p] = catalogue]
    /\ stage' = [stage EXCEPT ![p] = "read"]
    /\ failed' = [failed EXCEPT ![p] = FALSE]
    /\ faulted' = faulted \ {p}
    /\ runs' = [runs EXCEPT ![p] = @ + 1]
    /\ UNCHANGED <<catalogue, index, version, known, left, faults, behind>>

(* Mutant: the rows are looked up under another key than they are kept.    *)
ReadNothing(p) ==
    /\ stage[p] = "read"
    /\ known' = [known EXCEPT ![p] = {}]
    /\ left' = [left EXCEPT ![p] = Present(fetched[p])]
    /\ behind' = [behind EXCEPT ![p] = {}]
    /\ stage' = [stage EXCEPT ![p] = "batches"]
    /\ UNCHANGED <<catalogue, index, version, fetched, failed, runs, faults, faulted>>
ReadRows(p) ==
    /\ stage[p] = "read"
    /\ known' = [known EXCEPT ![p] = Present(index)]
    /\ left' = [left EXCEPT ![p] = Present(fetched[p])]
    /\ behind' = [behind EXCEPT ![p] = {}]
    /\ stage' = [stage EXCEPT ![p] = "batches"]
    /\ UNCHANGED <<catalogue, index, version, fetched, failed, runs, faults, faulted>>

(* A batch is written as a whole, or not at all and that is printed.       *)
Written(p, B) ==
    /\ index' = [x \in Products |-> IF x \in B THEN fetched[p][x] ELSE index[x]]
    /\ behind' = [q \in Indexers |-> IF q = p THEN behind[q] ELSE behind[q] \cup B]
    /\ UNCHANGED <<failed, faults, faulted>>
Refused(p) ==
    /\ failed' = [failed EXCEPT ![p] = TRUE]
    /\ UNCHANGED <<index, behind>>
Faulted(p) ==
    /\ faults < MaxIndexFaults
    /\ faults' = faults + 1
    /\ faulted' = faulted \cup {p}
    /\ Refused(p)

(* bulkInsert: one row that is there already fails them all.               *)
Insert(p, B) ==
    /\ left' = [left EXCEPT ![p] = @ \ B]
    /\ \/ B \cap Present(index) = {} /\ Written(p, B)
       \/ B \cap Present(index) # {} /\ Refused(p) /\ UNCHANGED <<faults, faulted>>
       \/ Faulted(p)

(* bulkUpdate: the rows are found by the ids that were read.               *)
Update(p, B) ==
    /\ left' = [left EXCEPT ![p] = @ \ B]
    /\ Written(p, B) \/ Faulted(p)

New(p) == left[p] \ known[p]
Old(p) == left[p] \cap known[p]
Full(S) == {B \in SUBSET S : Cardinality(B) = IndexBatch}

SendBatch(p) ==
    /\ stage[p] = "batches"
    /\ \/ \E B \in Full(New(p)) : Insert(p, B)
       \/ \E B \in Full(Old(p)) : Update(p, B)
    /\ UNCHANGED <<progress, stage>>

(* What is left when the products are: first the updates.                  *)
SendLastUpdates(p) ==
    /\ stage[p] = "batches" /\ Full(New(p)) = {} /\ Full(Old(p)) = {}
    /\ Old(p) # {} /\ Update(p, Old(p))
    /\ UNCHANGED <<progress, stage>>

(* Mutant: the last inserts are sent only when there is a batch of them.   *)
SendNoInserts(p) ==
    /\ stage[p] = "batches" /\ Full(New(p)) = {} /\ Old(p) = {} /\ New(p) # {}
    /\ left' = [left EXCEPT ![p] = {}]
    /\ UNCHANGED <<progress, stage, index, behind, failed, faults, faulted>>
SendLastInserts(p) ==
    /\ stage[p] = "batches" /\ Full(New(p)) = {} /\ Old(p) = {}
    /\ New(p) # {} /\ Insert(p, New(p))
    /\ UNCHANGED <<progress, stage>>

(* The report divides by the number of products.                           *)
Report(p) ==
    /\ stage[p] = "batches" /\ left[p] = {}
    /\ stage' = [stage EXCEPT ![p] = IF Present(fetched[p]) = {} THEN "panicked" ELSE "done"]
    /\ UNCHANGED <<progress, index, left, failed, faults, faulted, behind>>

Restart(p) ==
    /\ stage[p] \in {"done", "panicked"} /\ runs[p] < MaxIndexRuns
    /\ stage' = [stage EXCEPT ![p] = "idle"]
    /\ UNCHANGED <<progress, index, left, failed, faults, faulted, behind>>

(* Magento changes, creates or deletes a product.                          *)
ChangeProduct ==
    /\ version < MaxVersion
    /\ version' = version + 1
    /\ \E x \in Products, v \in {None, version + 1} : catalogue' = [catalogue EXCEPT ![x] = v]
    /\ UNCHANGED <<index, stage, fetched, known, left, failed, runs, faults, faulted, behind>>

IndexNext ==
    \/ ChangeProduct
    \/ \E p \in Indexers : \/ FetchFlat(p) \/ ReadRows(p)
                           \/ SendBatch(p) \/ SendLastUpdates(p) \/ SendLastInserts(p)
                           \/ Report(p) \/ Restart(p)

-----------------------------------------------------------------------------
(* A run that printed no failure has every product it fetched in the JSON   *)
(* table, as it fetched it unless another run has written it meanwhile.    *)
IndexedAll ==
    \A p \in Indexers :
        (stage[p] = "done" /\ ~failed[p]) =>
            \A x \in Present(fetched[p]) :
                index[x] = fetched[p][x] \/ (x \in behind[p] /\ index[x] # None)

(* A batch fails only when the database does, or because another run has   *)
(* written rows since this one read them: a run on its own never collides  *)
(* with the rows of an earlier one.                                        *)
FailsForAReason ==
    \A p \in Indexers : failed[p] => p \in faulted \/ behind[p] # {}
================================================================================

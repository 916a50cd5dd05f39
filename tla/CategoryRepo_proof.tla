-------------------------- MODULE CategoryRepo_proof --------------------------
(***************************************************************************)
(* Proofs about the category repository, for any number of goroutines,     *)
(* stores, ids and writes.                                                 *)
(***************************************************************************)
EXTENDS CategoryRepo, SequenceTheorems, TLAPS

(* The answers the operations build are answers.                           *)
LEMMA AnswerType ==
    ASSUME NEW st \in {"none", "ok", "ids", "done", "err", "panic"},
           NEW sn \in Snapshot, NEW ids \in SUBSET Ids
    PROVE  Answer(st, sn, ids) \in Answers
BY DEF Answer, Answers

(* The snapshot of a call that has loaded nothing is a snapshot.           *)
LEMMA NoSnapType == NoSnap \in Snapshot
BY DEF NoSnap, Snapshot

(* Returning from a call keeps the locals well typed.                      *)
LEMMA ReturnType ==
    ASSUME LocalTypeOK, NEW p \in Procs, NEW a \in Answers, Return(p, a)
    PROVE  LocalTypeOK'
BY NoSnapType DEF LocalTypeOK, Return, Points, AllOps

(* So does going on with the categories of the store, ...                  *)
LEMMA GotCategoriesType ==
    ASSUME LocalTypeOK, NEW p \in Procs, NEW sn \in Snapshot,
           GotCategories(p, sn)
    PROVE  LocalTypeOK'
<1>1. CASE Return(p, Answer("ok", sn, {}))
  BY <1>1, AnswerType, ReturnType
<1>2. CASE /\ Goto(p, "treestore")
           /\ snap' = [snap EXCEPT ![p] = sn]
           /\ UNCHANGED <<op, sid, todo, hits, missing>>
  BY <1>2 DEF LocalTypeOK, Goto, Points, FillPoints
<1> QED
  BY <1>1, <1>2 DEF GotCategories

(* ... and with the metadata.                                              *)
LEMMA GotMetaType ==
    ASSUME LocalTypeOK, NEW p \in Procs, NEW a \in BOOLEAN, GotMeta(p, a)
    PROVE  LocalTypeOK'
<1>1. CASE /\ snap' = [snap EXCEPT ![p].attrs = a]
           /\ Goto(p, "store")
           /\ UNCHANGED <<op, sid, todo, hits, missing>>
  <2>1. snap' \in [Procs -> Snapshot]
    BY <1>1 DEF LocalTypeOK, Snapshot
  <2> QED
    BY <1>1, <2>1 DEF LocalTypeOK, Goto, Points, FillPoints
<1>2. CASE Return(p, IdsAnswer(p, FoundIds(p)))
  <2>1. FoundIds(p) \in SUBSET Ids
    BY DEF FoundIds, LocalTypeOK
  <2>2. IdsAnswer(p, FoundIds(p)) \in Answers
    BY <2>1, AnswerType, NoSnapType DEF IdsAnswer
  <2> QED
    BY <1>2, <2>2, ReturnType
<1> QED
  BY <1>1, <1>2 DEF GotMeta

(* Every step of Next is a call, a step of a call or a write.              *)
LEMMA NextCases ==
    ASSUME Next
    PROVE  \/ \E p \in Procs : Call(p)
           \/ \E p \in Procs : Step(p)
           \/ WriteTables
BY DEF Next

(* The five ways to start a call: with which operation, at which point and  *)
(* with which ids to look up.                                              *)
CallOf(o, l, ids) ==
    \/ o = "map" /\ l = "nilcheck" /\ ids = <<>>
    \/ o = "tree" /\ l = "tree" /\ ids = <<>>
    \/ o \in {"ids", "id"} /\ l = "ids" /\ ids \in Seq(Ids)
    \/ o = "inv" /\ l = "inv" /\ ids = <<>>
    \/ o = "minv" /\ l = "minv" /\ ids = <<>>

(* Every call enters one of the operations.                                *)
LEMMA CallIsEnter ==
    ASSUME NEW p \in Procs, Call(p), TypeOK
    PROVE  \E o, s, l, ids : s \in Stores /\ CallOf(o, l, ids) /\ Enter(p, o, s, l, ids)
<1> DEFINE Goal == \E o, s, l, ids :
                      s \in Stores /\ CallOf(o, l, ids) /\ Enter(p, o, s, l, ids)
<1>0. ASSUME NEW o, NEW s \in Stores, NEW l, NEW ids, CallOf(o, l, ids),
             Enter(p, o, s, l, ids)
      PROVE  Goal
  BY <1>0
<1> HIDE DEF Goal
<1>1. ASSUME NEW s \in Stores, CallFetchAll(p, s) PROVE Goal
  BY <1>0, <1>1 DEF CallFetchAll, CallOf
<1>2. ASSUME NEW s \in Stores, CallBuildCategoryTree(p, s) PROVE Goal
  BY <1>0, <1>2 DEF CallBuildCategoryTree, CallOf
<1>3. ASSUME NEW s \in Stores, NEW id \in Ids, CallGetByID(p, s, id) PROVE Goal
  <2>1. CallOf("id", "ids", <<id>>)
    BY DEF CallOf
  <2> QED
    BY <1>0, <1>3, <2>1 DEF CallGetByID
<1>4. ASSUME NEW s \in Stores, NEW n \in 0..MaxIds, NEW ids \in [1..n -> Ids],
             CallGetByIDs(p, s, ids)
      PROVE  Goal
  <2>1. ids \in Seq(Ids)
    BY ConstantsAssumption
  <2>2. CallOf("ids", "ids", ids)
    BY <2>1 DEF CallOf
  <2> QED
    BY <1>0, <1>4, <2>2 DEF CallGetByIDs
<1>5. sid[p] \in Stores
  BY DEF TypeOK, LocalTypeOK
<1>6. ASSUME CallInvalidateCache(p) PROVE Goal
  BY <1>0, <1>5, <1>6 DEF CallInvalidateCache, CallOf
<1>7. ASSUME CallInvalidateMeta(p) PROVE Goal
  BY <1>0, <1>5, <1>7 DEF CallInvalidateMeta, CallOf
<1>8. ASSUME CallRead(p) PROVE Goal
  <2>1. PICK s \in Stores : \/ CallFetchAll(p, s)
                            \/ CallBuildCategoryTree(p, s)
                            \/ \E id \in Ids : CallGetByID(p, s, id)
                            \/ \E n \in 0..MaxIds : \E ids \in [1..n -> Ids] :
                                   CallGetByIDs(p, s, ids)
    BY <1>8 DEF CallRead
  <2>2. ASSUME \E n \in 0..MaxIds : \E ids \in [1..n -> Ids] : CallGetByIDs(p, s, ids)
        PROVE  Goal
    BY <1>4, <2>2
  <2> QED
    BY <1>1, <1>2, <1>3, <2>1, <2>2
<1>9. Goal
  BY <1>6, <1>7, <1>8 DEF Call
<1> QED
  BY <1>9 DEF Goal

(* r.cache exists wherever a call reads an entry of it or will store one.  *)
CacheMade ==
    \A p \in Procs :
        \/ pc[p] \in {"lookup", "store"}
        \/ /\ op[p] \in {"map", "tree"}
           /\ pc[p] \in {"load", "meta", "metaload", "metaread", "metaerr"}
        => cache # Nil

(* Starting a call preserves the types.                                    *)
LEMMA CallType ==
    ASSUME TypeOK, NEW p \in Procs, Call(p)
    PROVE  TypeOK'
<1>1. PICK o, s, l, ids : s \in Stores /\ CallOf(o, l, ids) /\ Enter(p, o, s, l, ids)
  BY CallIsEnter
<1>2. o \in AllOps /\ l \in Points /\ ids \in Seq(Ids)
  <2>1. o \in AllOps
    BY <1>1 DEF CallOf, AllOps
  <2>2. l \in Points
    BY <1>1 DEF CallOf, Points
  <2>3. ids \in Seq(Ids)
    BY <1>1, EmptySeq DEF CallOf
  <2> QED
    BY <2>1, <2>2, <2>3
<1>3. NoAnswer \in Answers
  BY NoSnapType, AnswerType DEF NoAnswer
<1>4. LocalTypeOK'
  BY <1>1, <1>2, <1>3 DEF Enter, TypeOK, LocalTypeOK
<1>5. RepoTypeOK'
  BY <1>1 DEF Enter, TypeOK, RepoTypeOK, repo
<1>6. callInv' \in [Procs -> Nat] /\ stable' \in [Procs -> SUBSET Ids]
  BY <1>1 DEF Enter, TypeOK, GhostTypeOK, RepoTypeOK
<1>7. GhostTypeOK'
  BY <1>1, <1>6 DEF Enter, TypeOK, GhostTypeOK
<1> QED
  BY <1>4, <1>5, <1>7 DEF TypeOK

(* The operation a call runs where only some operations get to.            *)
CallAtPoint ==
    \A p \in Procs : /\ pc[p] = "ids" => op[p] \in {"ids", "id"}
                     /\ pc[p] \in {"tree", "nilcheck", "make", "lookup", "store", "treestore"}
                        => op[p] \in {"map", "tree"}

(* Types are preserved by the steps of a call; the two steps that use an   *)
(* entry of r.cache need CacheMade.                                        *)
LEMMA StepType ==
    ASSUME TypeOK, CacheMade, NEW p \in Procs, Step(p)
    PROVE  TypeOK'
<1> USE ConstantsAssumption
<1>1. CASE TreeLookup(p)
  <2>1. treeCache[sid[p]] \in Snapshot \cup {Nil}
    BY DEF TypeOK, RepoTypeOK, LocalTypeOK, Entries
  <2>2. ASSUME Return(p, Answer("ok", treeCache[sid[p]], {})), treeCache[sid[p]] # Nil PROVE LocalTypeOK'
    BY <2>1, <2>2, AnswerType, ReturnType DEF TypeOK
  <2>3. ASSUME Goto(p, "nilcheck"), UNCHANGED local PROVE LocalTypeOK'
    BY <2>3 DEF TypeOK, LocalTypeOK, Goto, local, Points
  <2>4. LocalTypeOK'
    BY <1>1, <2>2, <2>3 DEF TreeLookup
  <2> QED
    BY <1>1, <2>4 DEF TreeLookup, TypeOK, RepoTypeOK, GhostTypeOK, repo, ghost
<1>2. CASE NilCheck(p)
  BY <1>2 DEF NilCheck, Goto, TypeOK, RepoTypeOK, LocalTypeOK, GhostTypeOK,
              repo, local, ghost, Points
<1>3. CASE MakeCache(p)
  BY <1>3 DEF MakeCache, Goto, TypeOK, RepoTypeOK, LocalTypeOK, GhostTypeOK,
              local, ghost, Points, EmptyMap, Entries
<1>4. CASE CacheLookup(p)
  <2>1. cache[sid[p]] \in Snapshot \cup {Nil}
    BY <1>4 DEF CacheLookup, CacheMade, TypeOK, RepoTypeOK, LocalTypeOK, Entries
  <2>2. ASSUME GotCategories(p, cache[sid[p]]), cache[sid[p]] # Nil PROVE LocalTypeOK'
    BY <2>1, <2>2, GotCategoriesType DEF TypeOK
  <2>3. ASSUME Goto(p, "load"), UNCHANGED local PROVE LocalTypeOK'
    BY <2>3 DEF TypeOK, LocalTypeOK, Goto, local, Points
  <2>4. LocalTypeOK'
    BY <1>4, <2>2, <2>3 DEF CacheLookup
  <2> QED
    BY <1>4, <2>4 DEF CacheLookup, TypeOK, RepoTypeOK, GhostTypeOK, repo, ghost
<1>5. CASE LoadCategories(p)
  <2>1. ASSUME Return(p, Answer("err", NoSnap, {})) PROVE LocalTypeOK'
    BY <2>1, AnswerType, NoSnapType, ReturnType DEF TypeOK
  <2>2. ASSUME snap' = [snap EXCEPT ![p] = [ver |-> db.ver, rows |-> db.rows,
                                            attrs |-> FALSE]],
               Goto(p, "meta"),
               UNCHANGED <<op, sid, todo, hits, missing>>
        PROVE  LocalTypeOK'
    <3>1. [ver |-> db.ver, rows |-> db.rows, attrs |-> FALSE] \in Snapshot
      BY DEF TypeOK, RepoTypeOK, Snapshot
    <3> QED
      BY <2>2, <3>1 DEF TypeOK, LocalTypeOK, Goto, Points, FillPoints
  <2>3. LocalTypeOK'
    BY <1>5, <2>1, <2>2 DEF LoadCategories
  <2> QED
    BY <1>5, <2>3 DEF LoadCategories, TypeOK, RepoTypeOK, GhostTypeOK, repo, ghost
<1>6. CASE MetaOnceDo(p)
  BY <1>6 DEF MetaOnceDo, Goto, TypeOK, RepoTypeOK, LocalTypeOK, GhostTypeOK,
              local, ghost, Points, FillPoints
<1>7. CASE MetaLoad(p)
  BY <1>7 DEF MetaLoad, Goto, TypeOK, RepoTypeOK, LocalTypeOK, GhostTypeOK,
              local, ghost, Points, FillPoints
<1>8. CASE MetaRead(p)
  <2>1. LocalTypeOK'
    BY <1>8, GotMetaType, AnswerType, NoSnapType, ReturnType DEF MetaRead, TypeOK
  <2> QED
    BY <1>8, <2>1 DEF MetaRead, TypeOK, RepoTypeOK, GhostTypeOK, repo, ghost
<1>9. CASE StoreCategories(p)
  <2>1. cache \in Entries /\ snap[p] \in Snapshot
    BY <1>9 DEF StoreCategories, CacheMade, TypeOK, RepoTypeOK, LocalTypeOK
  <2>2. LocalTypeOK'
    BY <1>9, <2>1, GotCategoriesType DEF StoreCategories, TypeOK
  <2>3. cache' \in Entries
    BY <1>9, <2>1 DEF StoreCategories, Entries
  <2> QED
    BY <1>9, <2>2, <2>3 DEF StoreCategories, TypeOK, RepoTypeOK, GhostTypeOK, ghost
<1>10. CASE StoreTree(p)
  <2>1. snap[p] \in Snapshot
    BY DEF TypeOK, LocalTypeOK
  <2>2. LocalTypeOK'
    BY <1>10, <2>1, AnswerType, ReturnType DEF StoreTree, TypeOK
  <2> QED
    BY <1>10, <2>1, <2>2 DEF StoreTree, TypeOK, RepoTypeOK, GhostTypeOK, ghost, Entries
<1>11. CASE IdLookup(p)
  <2>1. todo[p] \in Seq(Ids) /\ todo[p] # <<>>
    BY <1>11 DEF IdLookup, TypeOK, LocalTypeOK
  <2>2. Head(todo[p]) \in Ids /\ Tail(todo[p]) \in Seq(Ids)
    BY <2>1
  <2>3. LocalTypeOK'
    <3>1. todo' \in [Procs -> Seq(Ids)]
      <4>1. todo' = [todo EXCEPT ![p] = Tail(todo[p])]
        BY <1>11 DEF IdLookup
      <4> QED
        BY <4>1, <2>2 DEF TypeOK, LocalTypeOK
    <3>2. hits' \in [Procs -> SUBSET Ids] /\ missing' \in [Procs -> SUBSET Ids]
      <4>1. \/ hits' = [hits EXCEPT ![p] = hits[p] \cup {Head(todo[p])}] /\ missing' = missing
            \/ missing' = [missing EXCEPT ![p] = missing[p] \cup {Head(todo[p])}] /\ hits' = hits
        BY <1>11 DEF IdLookup
      <4>2. /\ hits[p] \cup {Head(todo[p])} \in SUBSET Ids
            /\ missing[p] \cup {Head(todo[p])} \in SUBSET Ids
        BY <2>2 DEF TypeOK, LocalTypeOK
      <4>3. hits \in [Procs -> SUBSET Ids] /\ missing \in [Procs -> SUBSET Ids]
        BY DEF TypeOK, LocalTypeOK
      <4> QED
        BY <4>1, <4>2, <4>3
    <3>3. UNCHANGED <<pc, op, sid, snap, ret>>
      BY <1>11 DEF IdLookup
    <3> QED
      BY <3>1, <3>2, <3>3 DEF TypeOK, LocalTypeOK
  <2> QED
    BY <1>11, <2>3 DEF IdLookup, TypeOK, RepoTypeOK, GhostTypeOK, repo, ghost
<1>12. CASE IdsLooked(p)
  <2>1. IdsAnswer(p, hits[p]) \in Answers
    BY AnswerType, NoSnapType DEF IdsAnswer, TypeOK, LocalTypeOK
  <2>2. ASSUME Return(p, IdsAnswer(p, hits[p])) PROVE LocalTypeOK'
    BY <2>1, <2>2, ReturnType DEF TypeOK
  <2>3. ASSUME Goto(p, "load"), UNCHANGED local PROVE LocalTypeOK'
    BY <2>3 DEF TypeOK, LocalTypeOK, Goto, local, Points
  <2>4. LocalTypeOK'
    BY <1>12, <2>2, <2>3 DEF IdsLooked
  <2> QED
    BY <1>12, <2>4 DEF IdsLooked, TypeOK, RepoTypeOK, GhostTypeOK, repo, ghost
<1>13. CASE InvalidateLock(p)
  BY <1>13 DEF InvalidateLock, Goto, TypeOK, RepoTypeOK, LocalTypeOK, GhostTypeOK,
               local, ghost, Points, EmptyMap, Entries
<1>14. CASE InvalidateTree(p)
  <2>1. LocalTypeOK'
    BY <1>14, AnswerType, NoSnapType, ReturnType DEF InvalidateTree, TypeOK
  <2>2. floor' \in Nat /\ invVer' \in Nat
    BY <1>14 DEF InvalidateTree, Invalidated, TypeOK, RepoTypeOK, LocalTypeOK,
                 Snapshot, Filling
  <2>3. GhostTypeOK'
    BY <1>14, <2>2 DEF InvalidateTree, Invalidated, TypeOK, GhostTypeOK
  <2> QED
    BY <1>14, <2>1, <2>3 DEF InvalidateTree, TypeOK, RepoTypeOK, EmptyMap, Entries
<1>15. CASE InvalidateMeta(p)
  BY <1>15 DEF InvalidateMeta, Goto, TypeOK, RepoTypeOK, LocalTypeOK, GhostTypeOK,
               local, ghost, Points
<1>16. CASE InvalidateMetaOnce(p)
  <2>1. LocalTypeOK'
    BY <1>16, AnswerType, NoSnapType, ReturnType DEF InvalidateMetaOnce, TypeOK
  <2> QED
    BY <1>16, <2>1 DEF InvalidateMetaOnce, TypeOK, RepoTypeOK, GhostTypeOK, ghost
<1> QED
  BY <1>1, <1>2, <1>3, <1>4, <1>5, <1>6, <1>7, <1>8, <1>9, <1>10, <1>11, <1>12,
     <1>13, <1>14, <1>15, <1>16 DEF Step

(* A write to the tables preserves the types.                              *)
LEMMA WriteType ==
    ASSUME TypeOK, WriteTables
    PROVE  TypeOK'
<1>1. PICK R \in SUBSET Ids : /\ db' = [ver |-> db.ver + 1, rows |-> R]
                              /\ stable' = [p \in Procs |-> stable[p] \cap R]
  BY DEF WriteTables
<1>2. db' \in [ver : 0..MaxVersion, rows : SUBSET Ids]
  BY <1>1, ConstantsAssumption DEF WriteTables, TypeOK, RepoTypeOK
<1>3. stable' \in [Procs -> SUBSET Ids]
  BY <1>1 DEF TypeOK, GhostTypeOK
<1> QED
  BY <1>2, <1>3 DEF WriteTables, TypeOK, RepoTypeOK, LocalTypeOK, GhostTypeOK,
                    repo, local

(* The types, CallAtPoint and CacheMade hold initially ...                             *)
LEMMA InitType == Init => TypeOK /\ CallAtPoint /\ CacheMade
<1> SUFFICES ASSUME Init PROVE TypeOK /\ CallAtPoint /\ CacheMade
  OBVIOUS
<1>1. RepoTypeOK
  <2>1. PICK R \in SUBSET Ids : db = [ver |-> 0, rows |-> R]
    BY DEF Init
  <2>2. db \in [ver : 0..MaxVersion, rows : SUBSET Ids]
    BY <2>1, ConstantsAssumption
  <2>3. EmptyMap \in Entries
    BY DEF EmptyMap, Entries
  <2> QED
    BY <2>2, <2>3 DEF Init, RepoTypeOK
<1>2. (CHOOSE s \in Stores : TRUE) \in Stores
  BY ConstantsAssumption
<1>3. NoAnswer \in Answers
  BY NoSnapType, AnswerType DEF NoAnswer
<1>4. LocalTypeOK
  <2>1. pc \in [Procs -> Points] /\ op \in [Procs -> AllOps]
    BY DEF Init, Points, AllOps
  <2>2. todo \in [Procs -> Seq(Ids)]
    BY EmptySeq DEF Init
  <2>3. sid \in [Procs -> Stores] /\ snap \in [Procs -> Snapshot] /\ ret \in [Procs -> Answers]
    BY <1>2, <1>3, NoSnapType DEF Init
  <2>4. hits \in [Procs -> SUBSET Ids] /\ missing \in [Procs -> SUBSET Ids]
    BY DEF Init
  <2> QED
    BY <2>1, <2>2, <2>3, <2>4 DEF LocalTypeOK
<1>5. GhostTypeOK
  BY DEF Init, GhostTypeOK
<1>6. CallAtPoint /\ CacheMade
  BY DEF Init, CacheMade, CallAtPoint
<1> QED
  BY <1>1, <1>4, <1>5, <1>6 DEF TypeOK

(* ... and CallAtPoint is preserved, ...                                   *)
LEMMA AtPointStep ==
    ASSUME TypeOK, CallAtPoint, Next
    PROVE  CallAtPoint'
<1> USE DEF CallAtPoint
<1>2. ASSUME NEW p \in Procs, Call(p) PROVE CallAtPoint'
  <2>1. PICK o, s, l, ids : s \in Stores /\ CallOf(o, l, ids) /\ Enter(p, o, s, l, ids)
    BY <1>2, CallIsEnter
  <2> QED
    BY <2>1 DEF CallOf, Enter, TypeOK, LocalTypeOK, repo
<1>3. ASSUME NEW p \in Procs, Step(p) PROVE CallAtPoint'
  <2> USE DEF TypeOK, LocalTypeOK, Goto, local, repo
  <2>1. CASE TreeLookup(p)
    BY <2>1 DEF TreeLookup, Return
  <2>2. CASE NilCheck(p)
    BY <2>2 DEF NilCheck
  <2>3. CASE MakeCache(p)
    BY <2>3 DEF MakeCache
  <2>4. CASE CacheLookup(p)
    BY <2>4 DEF CacheLookup, GotCategories, Return
  <2>5. CASE LoadCategories(p)
    BY <2>5 DEF LoadCategories, Return
  <2>6. CASE MetaOnceDo(p)
    BY <2>6 DEF MetaOnceDo
  <2>7. CASE MetaLoad(p)
    BY <2>7 DEF MetaLoad
  <2>8. CASE MetaRead(p)
    BY <2>8 DEF MetaRead, GotMeta, Return
  <2>9. CASE StoreCategories(p)
    BY <2>9 DEF StoreCategories, GotCategories, Return
  <2>10. CASE StoreTree(p)
    BY <2>10 DEF StoreTree, Return
  <2>11. CASE IdLookup(p)
    BY <2>11 DEF IdLookup
  <2>12. CASE IdsLooked(p)
    BY <2>12 DEF IdsLooked, Return
  <2>13. CASE InvalidateLock(p)
    BY <2>13 DEF InvalidateLock
  <2>14. CASE InvalidateTree(p)
    BY <2>14 DEF InvalidateTree, Return
  <2>15. CASE InvalidateMeta(p)
    BY <2>15 DEF InvalidateMeta
  <2>16. CASE InvalidateMetaOnce(p)
    BY <2>16 DEF InvalidateMetaOnce, Return
  <2> QED
    BY <1>3, <2>1, <2>2, <2>3, <2>4, <2>5, <2>6, <2>7, <2>8, <2>9, <2>10, <2>11,
       <2>12, <2>13, <2>14, <2>15, <2>16 DEF Step
<1>4. CASE WriteTables
  BY <1>4 DEF WriteTables, repo, local
<1> QED
  BY <1>2, <1>3, <1>4 DEF Next

(* ... and CacheMade is preserved: r.cache is never set back to nil, and a *)
(* call gets past its check of it only when it exists.                     *)
LEMMA MadeStep ==
    ASSUME TypeOK, CallAtPoint, CacheMade, Next
    PROVE  CacheMade'
<1>1. EmptyMap # Nil
  BY ConstantsAssumption DEF EmptyMap, Entries
<1> USE DEF CacheMade, CallAtPoint
<1>2. ASSUME NEW p \in Procs, Call(p) PROVE CacheMade'
  <2>1. PICK o, s, l, ids : s \in Stores /\ CallOf(o, l, ids) /\ Enter(p, o, s, l, ids)
    BY <1>2, CallIsEnter
  <2> QED
    BY <2>1 DEF CallOf, Enter, TypeOK, LocalTypeOK, repo
<1>3. ASSUME NEW p \in Procs, Step(p) PROVE CacheMade'
  <2> USE DEF TypeOK, LocalTypeOK, Goto, local, repo
  <2>1. CASE TreeLookup(p)
    BY <2>1 DEF TreeLookup, Return
  <2>2. CASE NilCheck(p)
    BY <2>2 DEF NilCheck
  <2>3. CASE MakeCache(p)
    BY <2>3, <1>1 DEF MakeCache
  <2>4. CASE CacheLookup(p)
    BY <2>4 DEF CacheLookup, GotCategories, Return
  <2>5. CASE LoadCategories(p)
    BY <2>5 DEF LoadCategories, Return
  <2>6. CASE MetaOnceDo(p)
    BY <2>6 DEF MetaOnceDo
  <2>7. CASE MetaLoad(p)
    BY <2>7 DEF MetaLoad
  <2>8. CASE MetaRead(p)
    BY <2>8 DEF MetaRead, GotMeta, Return
  <2>9. CASE StoreCategories(p)
    <3>1. cache' # Nil
      <4>1. cache \in Entries /\ snap[p] \in Snapshot /\ sid[p] \in Stores
        BY <2>9 DEF StoreCategories, RepoTypeOK
      <4>2. cache' \in Entries
        BY <2>9, <4>1 DEF StoreCategories, Entries
      <4> QED
        BY <4>2, ConstantsAssumption
    <3> QED
      BY <2>9, <3>1 DEF StoreCategories, GotCategories, Return
  <2>10. CASE StoreTree(p)
    BY <2>10 DEF StoreTree, Return
  <2>11. CASE IdLookup(p)
    BY <2>11 DEF IdLookup
  <2>12. CASE IdsLooked(p)
    BY <2>12 DEF IdsLooked, Return
  <2>13. CASE InvalidateLock(p)
    BY <2>13, <1>1 DEF InvalidateLock
  <2>14. CASE InvalidateTree(p)
    BY <2>14 DEF InvalidateTree, Return
  <2>15. CASE InvalidateMeta(p)
    BY <2>15 DEF InvalidateMeta
  <2>16. CASE InvalidateMetaOnce(p)
    BY <2>16 DEF InvalidateMetaOnce, Return
  <2> QED
    BY <1>3, <2>1, <2>2, <2>3, <2>4, <2>5, <2>6, <2>7, <2>8, <2>9, <2>10, <2>11,
       <2>12, <2>13, <2>14, <2>15, <2>16 DEF Step
<1>4. CASE WriteTables
  BY <1>4 DEF WriteTables, repo, local
<1> QED
  BY <1>2, <1>3, <1>4 DEF Next

-----------------------------------------------------------------------------
(* While a goroutine is inside InvalidateCache it alone holds cacheLock,   *)
(* and r.cache stays empty.                                                *)
InvalidationHoldsLock ==
    \A p \in Procs : pc[p] = "invtree" => cacheLock = p /\ cache = EmptyMap

(* What makes StalenessBounded inductive: the bound is never ahead of the  *)
(* tables, and an invalidation is alone with an empty cache.               *)
StaleInv == InvalidationHoldsLock /\ floor <= db.ver /\ StalenessBounded

LEMMA InvalidationStep ==
    ASSUME TypeOK, CacheMade, InvalidationHoldsLock, Next
    PROVE  InvalidationHoldsLock'
<1> USE DEF InvalidationHoldsLock
<1>1. ASSUME NEW p \in Procs, Call(p) PROVE InvalidationHoldsLock'
  <2>1. PICK o, s, l, ids : s \in Stores /\ CallOf(o, l, ids) /\ Enter(p, o, s, l, ids)
    BY <1>1, CallIsEnter
  <2> QED
    BY <2>1 DEF CallOf, Enter, TypeOK, LocalTypeOK, repo
<1>2. ASSUME NEW p \in Procs, Step(p) PROVE InvalidationHoldsLock'
  <2> USE ConstantsAssumption DEF TypeOK, LocalTypeOK, Goto, local, repo, EmptyMap
  <2>1. CASE TreeLookup(p)
    BY <2>1 DEF TreeLookup, Return
  <2>2. CASE NilCheck(p)
    BY <2>2 DEF NilCheck
  <2>3. CASE MakeCache(p)
    BY <2>3 DEF MakeCache
  <2>4. CASE CacheLookup(p)
    BY <2>4 DEF CacheLookup, GotCategories, Return
  <2>5. CASE LoadCategories(p)
    BY <2>5 DEF LoadCategories, Return
  <2>6. CASE MetaOnceDo(p)
    BY <2>6 DEF MetaOnceDo
  <2>7. CASE MetaLoad(p)
    BY <2>7 DEF MetaLoad
  <2>8. CASE MetaRead(p)
    BY <2>8 DEF MetaRead, GotMeta, Return
  <2>9. CASE StoreCategories(p)
    BY <2>9 DEF StoreCategories, GotCategories, Return
  <2>10. CASE StoreTree(p)
    BY <2>10 DEF StoreTree, Return
  <2>11. CASE IdLookup(p)
    BY <2>11 DEF IdLookup
  <2>12. CASE IdsLooked(p)
    BY <2>12 DEF IdsLooked, Return
  <2>13. CASE InvalidateLock(p)
    BY <2>13 DEF InvalidateLock
  <2>14. CASE InvalidateTree(p)
    BY <2>14 DEF InvalidateTree, Return
  <2>15. CASE InvalidateMeta(p)
    BY <2>15 DEF InvalidateMeta
  <2>16. CASE InvalidateMetaOnce(p)
    BY <2>16 DEF InvalidateMetaOnce, Return
  <2> QED
    BY <1>2, <2>1, <2>2, <2>3, <2>4, <2>5, <2>6, <2>7, <2>8, <2>9, <2>10, <2>11,
       <2>12, <2>13, <2>14, <2>15, <2>16 DEF Step
<1>3. CASE WriteTables
  BY <1>3 DEF WriteTables, repo, local
<1> QED
  BY <1>1, <1>2, <1>3 DEF Next

(* A step that stores nothing, loads nothing and moves no bound preserves  *)
(* the bound, if no goroutine becomes a filling one.                       *)
LEMMA StaleFrame ==
    ASSUME StalenessBounded, UNCHANGED <<cache, treeCache, floor>>,
           \A q \in Filling' : q \in Filling /\ snap'[q].ver = snap[q].ver
    PROVE  StalenessBounded'
BY DEF StalenessBounded

(* StalenessBounded is preserved: fills of the cache that were under way at *)
(* the last invalidation are no older than floor, later ones read tables   *)
(* that are no older, and what a call takes from a cache is no older either. *)
LEMMA StaleStep ==
    ASSUME TypeOK, CallAtPoint, CacheMade, StaleInv, Next
    PROVE  StalenessBounded' /\ floor' <= db'.ver
<1>0. StalenessBounded /\ InvalidationHoldsLock /\ floor <= db.ver
  BY DEF StaleInv
<1>t. /\ db.ver \in Nat /\ floor \in Nat
      /\ \A q \in Procs : snap[q].ver \in Nat
  BY ConstantsAssumption DEF TypeOK, RepoTypeOK, GhostTypeOK, LocalTypeOK, Snapshot
<1>1. ASSUME NEW p \in Procs, Call(p) PROVE StalenessBounded' /\ floor' <= db'.ver
  <2>1. PICK o, s, l, ids : s \in Stores /\ CallOf(o, l, ids) /\ Enter(p, o, s, l, ids)
    BY <1>1, CallIsEnter
  <2>2. \A q \in Filling' : q \in Filling /\ snap'[q].ver = snap[q].ver
    BY <2>1 DEF CallOf, Enter, Filling, FillPoints, TypeOK, LocalTypeOK
  <2> QED
    BY <1>0, <2>1, <2>2, StaleFrame DEF Enter, repo
<1>2. ASSUME NEW p \in Procs, Step(p) PROVE StalenessBounded' /\ floor' <= db'.ver
  <2> USE DEF TypeOK, LocalTypeOK, Goto, local, repo, ghost, Filling, FillPoints
  <2>a. ASSUME UNCHANGED <<cache, treeCache, floor, db>>,
               \A q \in Filling' : q \in Filling /\ snap'[q].ver = snap[q].ver
        PROVE  StalenessBounded' /\ floor' <= db'.ver
    BY <1>0, <2>a, StaleFrame
  <2>1. CASE TreeLookup(p)
    <3>1. \A q \in Filling' : q \in Filling /\ snap'[q].ver = snap[q].ver
      BY <2>1 DEF TreeLookup, Return
    <3> QED
      BY <2>1, <2>a, <3>1 DEF TreeLookup
  <2>2. CASE NilCheck(p)
    BY <2>2, <2>a DEF NilCheck
  <2>3. CASE MakeCache(p)
    BY <2>3, <1>0, ConstantsAssumption DEF MakeCache, StalenessBounded, EmptyMap
  <2>4. CASE CacheLookup(p)
    <3>1. CASE op[p] = "tree" /\ cache[sid[p]] # Nil
      <4>1. cache # Nil /\ cache[sid[p]].ver >= floor
        BY <2>4, <3>1, <1>0 DEF CacheLookup, CacheMade, StalenessBounded
      <4>2. snap' = [snap EXCEPT ![p] = cache[sid[p]]]
        BY <2>4, <3>1 DEF CacheLookup, GotCategories
      <4>3. \A q \in Filling' \ {p} : q \in Filling /\ snap'[q] = snap[q]
        BY <2>4, <3>1, <4>2 DEF CacheLookup, GotCategories
      <4> QED
        BY <2>4, <4>1, <4>2, <4>3, <1>0 DEF CacheLookup, StalenessBounded
    <3>2. CASE ~(op[p] = "tree" /\ cache[sid[p]] # Nil)
      <4>1. \A q \in Filling' : q \in Filling /\ snap'[q].ver = snap[q].ver
        BY <2>4, <3>2 DEF CacheLookup, GotCategories, Return
      <4> QED
        BY <2>4, <2>a, <4>1 DEF CacheLookup
    <3> QED
      BY <3>1, <3>2
  <2>5. CASE LoadCategories(p)
    <3>1. \A q \in Filling' : \/ q \in Filling /\ snap'[q].ver = snap[q].ver
                             \/ snap'[q].ver = db.ver
      <4>1. CASE Return(p, Answer("err", NoSnap, {}))
        BY <4>1 DEF Return
      <4>2. CASE /\ snap' = [snap EXCEPT ![p] = [ver |-> db.ver, rows |-> db.rows,
                                                 attrs |-> FALSE]]
                 /\ pc' = [pc EXCEPT ![p] = "meta"]
                 /\ op' = op
        BY <4>2
      <4> QED
        BY <2>5, <4>1, <4>2 DEF LoadCategories
    <3> QED
      BY <2>5, <3>1, <1>0, <1>t DEF LoadCategories, StalenessBounded
  <2>6. CASE MetaOnceDo(p)
    BY <2>6, <2>a DEF MetaOnceDo
  <2>7. CASE MetaLoad(p)
    BY <2>7, <2>a DEF MetaLoad
  <2>8. CASE MetaRead(p)
    <3>1. ASSUME NEW a \in BOOLEAN, GotMeta(p, a) PROVE StalenessBounded' /\ floor' <= db'.ver
      <4>1. CASE Return(p, IdsAnswer(p, FoundIds(p)))
        <5>1. \A q \in Filling' : q \in Filling /\ snap'[q].ver = snap[q].ver
          BY <4>1 DEF Return
        <5> QED
          BY <2>8, <2>a, <5>1 DEF MetaRead
      <4>2. CASE /\ op[p] \in {"map", "tree"}
                 /\ snap' = [snap EXCEPT ![p].attrs = a]
                 /\ Goto(p, "store")
                 /\ UNCHANGED <<op, sid, todo, hits, missing>>
        <5>1. \A q \in Procs : snap'[q].ver = snap[q].ver
          BY <4>2 DEF Snapshot
        <5>2. \A q \in Filling' : q \in Filling
          BY <2>8, <4>2 DEF MetaRead
        <5>3. \A q \in Filling' : q \in Filling /\ snap'[q].ver = snap[q].ver
          BY <5>1, <5>2
        <5> QED
          BY <2>8, <2>a, <5>3 DEF MetaRead
      <4> QED
        BY <3>1, <4>1, <4>2 DEF GotMeta
    <3>2. ASSUME Return(p, Answer("err", NoSnap, {})) PROVE StalenessBounded' /\ floor' <= db'.ver
      <4>1. \A q \in Filling' : q \in Filling /\ snap'[q].ver = snap[q].ver
        BY <3>2 DEF Return
      <4> QED
        BY <2>8, <2>a, <4>1 DEF MetaRead
    <3> QED
      BY <2>8, <3>1, <3>2 DEF MetaRead
  <2>9. CASE StoreCategories(p)
    <3>1. p \in Filling /\ snap[p].ver >= floor
      BY <2>9, <1>0 DEF StoreCategories, CallAtPoint, StalenessBounded
    <3>2. cache \in Entries
      BY <2>9 DEF StoreCategories, CacheMade, RepoTypeOK
    <3>3. \A q \in Filling' : q \in Filling /\ snap'[q].ver = snap[q].ver
      BY <2>9, <3>1 DEF StoreCategories, GotCategories, Return
    <3>4. \A s \in Stores : cache'[s] # Nil => cache'[s].ver >= floor
      BY <2>9, <3>1, <3>2, <1>0, ConstantsAssumption DEF StoreCategories, StalenessBounded, Entries
    <3> QED
      BY <2>9, <3>3, <3>4, <1>0 DEF StoreCategories, StalenessBounded
  <2>10. CASE StoreTree(p)
    <3>1. snap[p].ver >= floor
      BY <2>10, <1>0 DEF StoreTree, CallAtPoint, StalenessBounded
    <3>2. \A q \in Filling' : q \in Filling /\ snap'[q].ver = snap[q].ver
      BY <2>10 DEF StoreTree, Return
    <3>3. \A s \in Stores : treeCache'[s] # Nil => treeCache'[s].ver >= floor
      BY <2>10, <3>1, <1>0 DEF StoreTree, StalenessBounded, RepoTypeOK, Entries
    <3> QED
      BY <2>10, <3>2, <3>3, <1>0 DEF StoreTree, StalenessBounded
  <2>11. CASE IdLookup(p)
    BY <2>11, <2>a DEF IdLookup
  <2>12. CASE IdsLooked(p)
    <3>1. \A q \in Filling' : q \in Filling /\ snap'[q].ver = snap[q].ver
      BY <2>12 DEF IdsLooked, Return
    <3> QED
      BY <2>12, <2>a, <3>1 DEF IdsLooked
  <2>13. CASE InvalidateLock(p)
    BY <2>13, <1>0 DEF InvalidateLock, StalenessBounded, EmptyMap
  <2>14. CASE InvalidateTree(p)
    <3>1. cache = EmptyMap /\ cache' = EmptyMap /\ treeCache' = EmptyMap
      BY <2>14, <1>0 DEF InvalidateTree, InvalidationHoldsLock
    <3>2. \A q \in Filling' : q \in Filling /\ snap'[q].ver = snap[q].ver
      BY <2>14 DEF InvalidateTree, Return
    <3>3. /\ \A q \in Filling : floor' <= snap[q].ver
          /\ floor' <= db.ver /\ floor' \in Nat
      BY <2>14, <1>t DEF InvalidateTree, Invalidated
    <3> QED
      BY <2>14, <3>1, <3>2, <3>3, <1>t DEF InvalidateTree, StalenessBounded, EmptyMap
  <2>15. CASE InvalidateMeta(p)
    BY <2>15, <2>a DEF InvalidateMeta
  <2>16. CASE InvalidateMetaOnce(p)
    <3>1. \A q \in Filling' : q \in Filling /\ snap'[q].ver = snap[q].ver
      BY <2>16 DEF InvalidateMetaOnce, Return
    <3> QED
      BY <2>16, <2>a, <3>1 DEF InvalidateMetaOnce
  <2> QED
    BY <1>2, <2>1, <2>2, <2>3, <2>4, <2>5, <2>6, <2>7, <2>8, <2>9, <2>10, <2>11,
       <2>12, <2>13, <2>14, <2>15, <2>16 DEF Step
<1>3. CASE WriteTables
  <2>1. db'.ver = db.ver + 1 /\ UNCHANGED <<cache, treeCache, floor, pc, op, snap>>
    BY <1>3 DEF WriteTables, repo, local
  <2> QED
    BY <1>0, <1>t, <2>1 DEF StalenessBounded, Filling
<1> QED
  BY <1>1, <1>2, <1>3 DEF Next

-----------------------------------------------------------------------------
(* What makes CachedWithAttributes inductive: while no load of the metadata *)
(* failed and nobody dropped it, it is there once the Once is used, and    *)
(* what is about to be stored was flattened with it.                       *)
AttributesInv ==
    ~metaLost =>
       /\ once = "done" => metaLoaded
       /\ \A p \in Procs : /\ pc[p] # "metaerr"
                           /\ pc[p] = "metaread" => metaLoaded
                           /\ pc[p] \in {"store", "treestore"} => snap[p].attrs
       /\ cache # Nil => \A s \in Stores : cache[s] # Nil => cache[s].attrs
       /\ \A s \in Stores : treeCache[s] # Nil => treeCache[s].attrs

LEMMA AttributesStep ==
    ASSUME TypeOK, CallAtPoint, CacheMade, AttributesInv, Next
    PROVE  AttributesInv'
<1> USE DEF AttributesInv
<1>1. ASSUME NEW p \in Procs, Call(p) PROVE AttributesInv'
  <2>1. PICK o, s, l, ids : s \in Stores /\ CallOf(o, l, ids) /\ Enter(p, o, s, l, ids)
    BY <1>1, CallIsEnter
  <2> QED
    BY <2>1 DEF CallOf, Enter, TypeOK, LocalTypeOK, repo
<1>2. ASSUME NEW p \in Procs, Step(p) PROVE AttributesInv'
  <2> USE DEF TypeOK, LocalTypeOK, Goto, local, repo
  <2>1. CASE TreeLookup(p)
    BY <2>1 DEF TreeLookup, Return
  <2>2. CASE NilCheck(p)
    BY <2>2 DEF NilCheck
  <2>3. CASE MakeCache(p)
    BY <2>3 DEF MakeCache, EmptyMap
  <2>4. CASE CacheLookup(p)
    <3>1. cache # Nil
      BY <2>4 DEF CacheLookup, CacheMade
    <3> QED
      BY <2>4, <3>1 DEF CacheLookup, GotCategories, Return
  <2>5. CASE LoadCategories(p)
    <3>1. \A q \in Procs : pc'[q] \in {"store", "treestore"} =>
                             pc'[q] = pc[q] /\ snap'[q] = snap[q]
      BY <2>5 DEF LoadCategories, Return
    <3> QED
      BY <2>5, <3>1 DEF LoadCategories, Return
  <2>6. CASE MetaOnceDo(p)
    BY <2>6 DEF MetaOnceDo
  <2>7. CASE MetaLoad(p)
    BY <2>7 DEF MetaLoad
  <2>8. CASE MetaRead(p)
    <3>1. \A q \in Procs \ {p} : pc'[q] = pc[q] /\ snap'[q] = snap[q]
      BY <2>8 DEF MetaRead, GotMeta, Return
    <3>2. pc'[p] \in {"idle", "store"}
      BY <2>8 DEF MetaRead, GotMeta, Return
    <3>3. pc'[p] = "store" /\ metaLoaded => snap'[p].attrs
      <4>1. ASSUME GotMeta(p, TRUE), pc'[p] = "store" PROVE snap'[p].attrs
        BY <4>1 DEF GotMeta, Return, Snapshot
      <4>2. pc'[p] = "store" /\ metaLoaded => GotMeta(p, TRUE)
        BY <2>8 DEF MetaRead, Return
      <4> QED
        BY <4>1, <4>2
    <3> QED
      BY <2>8, <3>1, <3>2, <3>3 DEF MetaRead
  <2>9. CASE StoreCategories(p)
    <3>1. /\ cache \in Entries
          /\ cache' = [cache EXCEPT ![sid[p]] = snap[p]]
          /\ UNCHANGED <<treeCache, once, metaLoaded, metaLost>>
      BY <2>9 DEF StoreCategories, CacheMade, RepoTypeOK
    <3>2. \A s \in Stores : cache'[s] = cache[s] \/ (cache'[s] = snap[p] /\ pc[p] = "store")
      BY <2>9, <3>1 DEF Entries, StoreCategories
    <3>3. cache # Nil
      BY <2>9 DEF StoreCategories, CacheMade
    <3>4. \A q \in Procs :
             /\ pc'[q] \in {"store", "treestore"} =>
                   snap'[q] = snap[q] /\ pc[q] \in {"store", "treestore"}
             /\ pc'[q] \in {"metaread", "metaerr"} => pc'[q] = pc[q]
      BY <2>9 DEF StoreCategories, GotCategories, Return
    <3>5. ~metaLost' => \A s \in Stores : cache'[s] # Nil => cache'[s].attrs
      BY <3>1, <3>2, <3>3
    <3>6. ~metaLost' => \A s \in Stores : treeCache'[s] # Nil => treeCache'[s].attrs
      BY <3>1
    <3>7. ~metaLost' => \A q \in Procs :
             /\ pc'[q] # "metaerr"
             /\ pc'[q] = "metaread" => metaLoaded'
             /\ pc'[q] \in {"store", "treestore"} => snap'[q].attrs
      BY <3>1, <3>4
    <3>8. ~metaLost' => (once' = "done" => metaLoaded')
      BY <3>1
    <3> QED
      BY <3>5, <3>6, <3>7, <3>8
  <2>10. CASE StoreTree(p)
    <3>1. \A s \in Stores : \/ treeCache'[s] = treeCache[s]
                            \/ treeCache'[s] = snap[p] /\ pc[p] = "treestore"
      BY <2>10 DEF StoreTree, RepoTypeOK, Entries
    <3>2. \A q \in Procs : pc'[q] # "idle" => pc'[q] = pc[q] /\ snap'[q] = snap[q]
      BY <2>10 DEF StoreTree, Return
    <3> QED
      BY <2>10, <3>1, <3>2 DEF StoreTree
  <2>11. CASE IdLookup(p)
    BY <2>11 DEF IdLookup
  <2>12. CASE IdsLooked(p)
    BY <2>12 DEF IdsLooked, Return
  <2>13. CASE InvalidateLock(p)
    BY <2>13 DEF InvalidateLock, EmptyMap
  <2>14. CASE InvalidateTree(p)
    BY <2>14 DEF InvalidateTree, Return, EmptyMap
  <2>15. CASE InvalidateMeta(p)
    BY <2>15 DEF InvalidateMeta
  <2>16. CASE InvalidateMetaOnce(p)
    BY <2>16 DEF InvalidateMetaOnce, Return
  <2> QED
    BY <1>2, <2>1, <2>2, <2>3, <2>4, <2>5, <2>6, <2>7, <2>8, <2>9, <2>10, <2>11,
       <2>12, <2>13, <2>14, <2>15, <2>16 DEF Step
<1>3. CASE WriteTables
  BY <1>3 DEF WriteTables, repo, local
<1> QED
  BY <1>1, <1>2, <1>3 DEF Next

-----------------------------------------------------------------------------
(* The ids a call has yet to look up.                                      *)
Asked(p) == {todo[p][k] : k \in 1..Len(todo[p])}

(* Where a requested category that stays in the tables is, at every point  *)
(* of a lookup by ids: still to be looked up, found, or to be fetched.     *)
ByIDsAt(p) ==
    /\ stable[p] \subseteq db.rows
    /\ op[p] \in {"ids", "id"} =>
         /\ pc[p] = "ids" => stable[p] \subseteq hits[p] \cup missing[p] \cup Asked(p)
         /\ pc[p] = "load" => stable[p] \subseteq hits[p] \cup missing[p]
         /\ pc[p] \in {"meta", "metaload", "metaread", "metaerr"} =>
               stable[p] \subseteq hits[p] \cup (missing[p] \cap snap[p].rows)
    /\ ret[p].st = "ids" => stable[p] \subseteq ret[p].ids

ByIDsInv == \A p \in Procs : ByIDsAt(p)

(* A step of a call touches the locals of its goroutine only.              *)
Untouched(q) ==
    /\ pc'[q] = pc[q] /\ op'[q] = op[q] /\ snap'[q] = snap[q] /\ todo'[q] = todo[q]
    /\ hits'[q] = hits[q] /\ missing'[q] = missing[q] /\ ret'[q] = ret[q]

LEMMA StepIsLocal ==
    ASSUME TypeOK, NEW p \in Procs, Step(p)
    PROVE  /\ UNCHANGED <<db, stable>>
           /\ \A q \in Procs \ {p} : Untouched(q)
<1> USE DEF Untouched, Goto, local, ghost, TypeOK, LocalTypeOK
<1>0. ASSUME NEW a, Return(p, a) PROVE \A q \in Procs \ {p} : Untouched(q)
  BY <1>0 DEF Return
<1>1. CASE TreeLookup(p)
  BY <1>1, <1>0 DEF TreeLookup
<1>2. CASE NilCheck(p)
  BY <1>2, <1>0 DEF NilCheck
<1>3. CASE MakeCache(p)
  BY <1>3, <1>0 DEF MakeCache
<1>4. CASE CacheLookup(p)
  BY <1>4, <1>0 DEF CacheLookup, GotCategories
<1>5. CASE LoadCategories(p)
  BY <1>5, <1>0 DEF LoadCategories
<1>6. CASE MetaOnceDo(p)
  BY <1>6, <1>0 DEF MetaOnceDo
<1>7. CASE MetaLoad(p)
  BY <1>7, <1>0 DEF MetaLoad
<1>8. CASE MetaRead(p)
  BY <1>8, <1>0 DEF MetaRead, GotMeta
<1>9. CASE StoreCategories(p)
  BY <1>9, <1>0 DEF StoreCategories, GotCategories
<1>10. CASE StoreTree(p)
  BY <1>10, <1>0 DEF StoreTree
<1>11. CASE IdLookup(p)
  BY <1>11, <1>0 DEF IdLookup
<1>12. CASE IdsLooked(p)
  BY <1>12, <1>0 DEF IdsLooked
<1>13. CASE InvalidateLock(p)
  BY <1>13, <1>0 DEF InvalidateLock
<1>14. CASE InvalidateTree(p)
  BY <1>14, <1>0 DEF InvalidateTree, Invalidated
<1>15. CASE InvalidateMeta(p)
  BY <1>15, <1>0 DEF InvalidateMeta
<1>16. CASE InvalidateMetaOnce(p)
  BY <1>16, <1>0 DEF InvalidateMetaOnce
<1> QED
  BY <1>1, <1>2, <1>3, <1>4, <1>5, <1>6, <1>7, <1>8, <1>9, <1>10, <1>11, <1>12,
     <1>13, <1>14, <1>15, <1>16 DEF Step

(* Returning establishes ByIDsAt if the answer has what was looked for.    *)
LEMMA ReturnByIDs ==
    ASSUME TypeOK, NEW p \in Procs, ByIDsAt(p), UNCHANGED <<db, stable>>, NEW a,
           Return(p, a), a.st = "ids" => stable[p] \subseteq a.ids
    PROVE  ByIDsAt(p)'
<1>1. pc'[p] = "idle" /\ ret'[p] = a
  BY DEF Return, TypeOK, LocalTypeOK
<1> QED
  BY <1>1 DEF ByIDsAt

(* Every step of a call keeps ByIDsAt of its goroutine.                    *)
LEMMA ByIDsAtStep ==
    ASSUME TypeOK, CallAtPoint, NEW p \in Procs, ByIDsAt(p), Step(p),
           UNCHANGED <<db, stable>>
    PROVE  ByIDsAt(p)'
<1> USE DEF TypeOK, LocalTypeOK, Goto, local
<1>a. \A st, sn : Answer(st, sn, {}).st = st /\ Answer(st, sn, {}).ids = {}
  BY DEF Answer
<1>b. ASSUME UNCHANGED <<op, snap, todo, hits, missing, ret>>,
             \/ pc'[p] = pc[p]
             \/ pc'[p] \notin {"ids", "load", "meta", "metaload", "metaread", "metaerr"}
             \/ op[p] \notin {"ids", "id"}
             \/ /\ pc[p] \in {"meta", "metaload", "metaread", "metaerr"}
                /\ pc'[p] \in {"meta", "metaload", "metaread", "metaerr"}
      PROVE  ByIDsAt(p)'
  BY <1>b DEF ByIDsAt, Asked
<1>c. ASSUME NEW st \in {"ok", "err", "done", "panic"}, NEW sn, Return(p, Answer(st, sn, {}))
      PROVE  ByIDsAt(p)'
  BY <1>a, <1>c, ReturnByIDs
<1>d. ASSUME NEW sn, GotCategories(p, sn) PROVE ByIDsAt(p)'
  BY <1>d, <1>c DEF GotCategories, ByIDsAt
<1>e. ASSUME NEW ids, stable[p] \subseteq ids, Return(p, IdsAnswer(p, ids)) PROVE ByIDsAt(p)'
  <2>1. IdsAnswer(p, ids).st = "ids" => stable[p] \subseteq IdsAnswer(p, ids).ids
    BY <1>e DEF IdsAnswer, Answer
  <2> QED
    BY <1>e, <2>1, ReturnByIDs
<1>1. CASE TreeLookup(p)
  BY <1>1, <1>b, <1>c DEF TreeLookup, CallAtPoint
<1>2. CASE NilCheck(p)
  BY <1>2, <1>b DEF NilCheck
<1>3. CASE MakeCache(p)
  BY <1>3, <1>b DEF MakeCache
<1>4. CASE CacheLookup(p)
  BY <1>4, <1>b, <1>d DEF CacheLookup, CallAtPoint
<1>5. CASE LoadCategories(p)
  <2>1. CASE Return(p, Answer("err", NoSnap, {}))
    BY <2>1, <1>c
  <2>2. CASE /\ snap' = [snap EXCEPT ![p] = [ver |-> db.ver, rows |-> db.rows,
                                             attrs |-> FALSE]]
             /\ Goto(p, "meta")
             /\ UNCHANGED <<op, sid, todo, hits, missing>>
    <3>1. snap'[p].rows = db.rows /\ pc'[p] = "meta"
      BY <2>2
    <3> QED
      BY <1>5, <2>2, <3>1 DEF LoadCategories, ByIDsAt
  <2> QED
    BY <1>5, <2>1, <2>2 DEF LoadCategories
<1>6. CASE MetaOnceDo(p)
  BY <1>6, <1>b DEF MetaOnceDo
<1>7. CASE MetaLoad(p)
  BY <1>7, <1>b DEF MetaLoad
<1>8. CASE MetaRead(p)
  <2>1. ASSUME NEW a \in BOOLEAN, GotMeta(p, a) PROVE ByIDsAt(p)'
    <3>1. CASE Return(p, IdsAnswer(p, FoundIds(p))) /\ op[p] \in {"ids", "id"}
      <4>1. stable[p] \subseteq FoundIds(p)
        BY <1>8, <3>1 DEF MetaRead, FoundIds, ByIDsAt
      <4> QED
        BY <3>1, <4>1, <1>e
    <3>2. CASE Goto(p, "store") /\ UNCHANGED <<op, sid, todo, hits, missing>>
      BY <3>2 DEF ByIDsAt
    <3> QED
      BY <2>1, <3>1, <3>2 DEF GotMeta
  <2> QED
    BY <1>8, <2>1, <1>c DEF MetaRead
<1>9. CASE StoreCategories(p)
  BY <1>9, <1>d DEF StoreCategories
<1>10. CASE StoreTree(p)
  BY <1>10, <1>c DEF StoreTree
<1>11. CASE IdLookup(p)
  <2>1. todo[p] \in Seq(Ids) /\ todo[p] # <<>>
    BY <1>11 DEF IdLookup
  <2>2. /\ Len(todo[p]) \in Nat \ {0}
        /\ Tail(todo[p]) \in Seq(Ids)
        /\ Len(Tail(todo[p])) = Len(todo[p]) - 1
        /\ \A k \in 1..Len(Tail(todo[p])) : Tail(todo[p])[k] = todo[p][k+1]
        /\ Head(todo[p]) = todo[p][1]
    BY <2>1, EmptySeq, HeadTailProperties
  <2>3. Asked(p) \subseteq {Head(todo[p])} \cup {Tail(todo[p])[k] : k \in 1..Len(Tail(todo[p]))}
    <3> SUFFICES ASSUME NEW k \in 1..Len(todo[p]), k # 1
                 PROVE  \E j \in 1..Len(Tail(todo[p])) : todo[p][k] = Tail(todo[p])[j]
      BY <2>2 DEF Asked
    <3>1. k - 1 \in 1..Len(Tail(todo[p]))
      BY <2>2
    <3>2. todo[p][k] = Tail(todo[p])[k - 1]
      BY <2>2, <3>1
    <3> QED
      BY <3>1, <3>2
  <2>4. todo'[p] = Tail(todo[p])
    BY <1>11 DEF IdLookup
  <2>5. Asked(p)' = {Tail(todo[p])[k] : k \in 1..Len(Tail(todo[p]))}
    BY <2>4 DEF Asked
  <2>6. hits'[p] \cup missing'[p] = hits[p] \cup missing[p] \cup {Head(todo[p])}
    BY <1>11 DEF IdLookup
  <2>7. UNCHANGED <<pc, op, snap, ret>> /\ pc[p] = "ids"
    BY <1>11 DEF IdLookup
  <2> QED
    BY <2>3, <2>5, <2>6, <2>7 DEF ByIDsAt
<1>12. CASE IdsLooked(p)
  <2>1. Asked(p) = {}
    BY <1>12 DEF IdsLooked, Asked
  <2>2. stable[p] \subseteq hits[p] \cup missing[p]
    BY <1>12, <2>1 DEF IdsLooked, CallAtPoint, ByIDsAt
  <2>3. CASE missing[p] = {} /\ Return(p, IdsAnswer(p, hits[p]))
    BY <2>2, <2>3, <1>e
  <2>4. CASE Goto(p, "load") /\ UNCHANGED local
    BY <1>12, <2>2, <2>4 DEF IdsLooked, ByIDsAt
  <2> QED
    BY <1>12, <2>3, <2>4 DEF IdsLooked
<1>13. CASE InvalidateLock(p)
  BY <1>13, <1>b DEF InvalidateLock
<1>14. CASE InvalidateTree(p)
  BY <1>14, <1>c DEF InvalidateTree
<1>15. CASE InvalidateMeta(p)
  BY <1>15, <1>b DEF InvalidateMeta
<1>16. CASE InvalidateMetaOnce(p)
  BY <1>16, <1>c DEF InvalidateMetaOnce
<1> QED
  BY <1>1, <1>2, <1>3, <1>4, <1>5, <1>6, <1>7, <1>8, <1>9, <1>10, <1>11, <1>12,
     <1>13, <1>14, <1>15, <1>16 DEF Step

(* ByIDsInv is preserved by every step.                                    *)
LEMMA ByIDsStep ==
    ASSUME TypeOK, CallAtPoint, ByIDsInv, Next
    PROVE  ByIDsInv'
<1>1. ASSUME NEW p \in Procs, Call(p) PROVE ByIDsInv'
  <2>1. PICK o, s, l, ids : s \in Stores /\ CallOf(o, l, ids) /\ Enter(p, o, s, l, ids)
    BY <1>1, CallIsEnter
  <2>2. UNCHANGED <<db, snap, hits, missing>>
    BY <2>1 DEF Enter
  <2>3. ASSUME NEW q \in Procs, q # p PROVE ByIDsAt(q)'
    <3>1. Untouched(q) /\ stable'[q] = stable[q]
      BY <2>1, <2>3 DEF Enter, Untouched, TypeOK, LocalTypeOK, GhostTypeOK
    <3> QED
      BY <2>2, <3>1 DEF ByIDsInv, ByIDsAt, Asked, Untouched
  <2>4. /\ pc'[p] = l /\ op'[p] = o /\ todo'[p] = ids /\ ret'[p] = NoAnswer
        /\ stable'[p] = {i \in db.rows : \E k \in 1..Len(ids) : ids[k] = i}
    BY <2>1 DEF Enter, TypeOK, LocalTypeOK, GhostTypeOK
  <2>5. stable'[p] \subseteq Asked(p)'
    BY <2>4 DEF Asked
  <2>6. ByIDsAt(p)'
    BY <2>1, <2>2, <2>4, <2>5 DEF CallOf, ByIDsAt, NoAnswer, Answer
  <2> QED
    BY <2>3, <2>6 DEF ByIDsInv
<1>2. ASSUME NEW p \in Procs, Step(p) PROVE ByIDsInv'
  <2>1. UNCHANGED <<db, stable>> /\ \A q \in Procs \ {p} : Untouched(q)
    BY <1>2, StepIsLocal
  <2>2. ASSUME NEW q \in Procs, q # p PROVE ByIDsAt(q)'
    BY <2>1, <2>2 DEF ByIDsInv, ByIDsAt, Asked, Untouched
  <2>3. ByIDsAt(p)'
    BY <1>2, <2>1, ByIDsAtStep DEF ByIDsInv
  <2> QED
    BY <2>2, <2>3 DEF ByIDsInv
<1>3. CASE WriteTables
  <2>1. UNCHANGED <<pc, op, snap, todo, hits, missing, ret>>
    BY <1>3 DEF WriteTables, local
  <2>2. \A p \in Procs : stable'[p] \subseteq stable[p] /\ stable'[p] \subseteq db'.rows
    BY <1>3 DEF WriteTables
  <2> QED
    BY <2>1, <2>2 DEF ByIDsInv, ByIDsAt, Asked
<1> QED
  BY <1>1, <1>2, <1>3 DEF Next

-----------------------------------------------------------------------------
(* The inductive invariant of the repository.                              *)
IInv == TypeOK /\ CallAtPoint /\ CacheMade /\ StaleInv /\ AttributesInv /\ ByIDsInv

LEMMA InitIInv == Init => IInv
<1> SUFFICES ASSUME Init PROVE IInv
  OBVIOUS
<1>1. TypeOK /\ CallAtPoint /\ CacheMade
  BY InitType
<1>2. db.ver = 0
  BY DEF Init
<1>3. StaleInv
  BY <1>2 DEF Init, StaleInv, InvalidationHoldsLock, StalenessBounded, Filling, FillPoints, EmptyMap
<1>4. AttributesInv
  BY DEF Init, AttributesInv, EmptyMap
<1>5. ByIDsInv
  BY DEF Init, ByIDsInv, ByIDsAt, NoAnswer, Answer
<1> QED
  BY <1>1, <1>3, <1>4, <1>5 DEF IInv

LEMMA StepIInv == IInv /\ [Next]_vars => IInv'
<1> SUFFICES ASSUME IInv, [Next]_vars PROVE IInv'
  OBVIOUS
<1>1. CASE Next
  <2>1. TypeOK'
    BY <1>1, CallType, StepType, WriteType DEF IInv, Next
  <2>2. CallAtPoint' /\ CacheMade'
    BY <1>1, AtPointStep, MadeStep DEF IInv
  <2>3. StaleInv'
    BY <1>1, InvalidationStep, StaleStep DEF IInv, StaleInv
  <2>4. AttributesInv'
    BY <1>1, AttributesStep DEF IInv
  <2>5. ByIDsInv'
    BY <1>1, ByIDsStep DEF IInv
  <2> QED
    BY <2>1, <2>2, <2>3, <2>4, <2>5 DEF IInv
<1>2. CASE UNCHANGED vars
  BY <1>2 DEF vars, repo, local, ghost, IInv, TypeOK, RepoTypeOK, LocalTypeOK,
              GhostTypeOK, CallAtPoint, CacheMade, StaleInv, InvalidationHoldsLock,
              StalenessBounded, Filling, AttributesInv, ByIDsInv, ByIDsAt, Asked
<1> QED
  BY <1>1, <1>2

LEMMA Invariance == Spec => []IInv
BY InitIInv, StepIInv, PTL DEF Spec

(* Every reachable state is well typed.                                    *)
THEOREM TypeCorrect == Spec => []TypeOK
<1>1. IInv => TypeOK
  BY DEF IInv
<1> QED
  BY <1>1, Invariance, PTL

(* The unlocked creation of r.cache never leads to a write to a nil map.   *)
THEOREM NeverNilMapWrite == Spec => []NoNilMapWrite
<1>1. IInv => NoNilMapWrite
  BY DEF IInv, CacheMade, NoNilMapWrite
<1> QED
  BY <1>1, Invariance, PTL

(* No cached data is older than the oldest load under way at the end of    *)
(* the last invalidation.                                                  *)
THEOREM StaleOnlyFromFlight == Spec => []StalenessBounded
<1>1. IInv => StalenessBounded
  BY DEF IInv, StaleInv
<1> QED
  BY <1>1, Invariance, PTL

(* Unless its metadata failed to load or was dropped, nothing is cached    *)
(* without attributes.                                                     *)
THEOREM AttributesCached == Spec => []CachedWithAttributes
<1>1. IInv => CachedWithAttributes
  BY DEF IInv, AttributesInv, CachedWithAttributes
<1> QED
  BY <1>1, Invariance, PTL

(* A lookup by ids misses no category that is in the tables throughout.    *)
THEOREM LookupComplete == Spec => []ByIDsComplete
<1>1. IInv => ByIDsComplete
  BY DEF IInv, ByIDsInv, ByIDsAt, ByIDsComplete
<1> QED
  BY <1>1, Invariance, PTL
=============================================================================

------------------------------ MODULE Cache_proof ------------------------------
(***************************************************************************)
(* What holds of the cache for any number of goroutines, keys, tags, calls *)
(* and seconds: its types, that tags stick, that DeleteByTag deletes, and  *)
(* that it is a store that may forget.                                     *)
(***************************************************************************)
EXTENDS Cache, TLAPS

USE DEF locals, ghosts

(* The actions of the goroutines, one by one.                              *)
Step(p) ==
    \/ \E k \in Keys, T \in SUBSET Tags : \/ \E ttl \in {0, 1} : CallSet(p, k, ttl, T)
                                          \/ CallTag(p, k, T)
                                          \/ CallUntag(p, k, T)
    \/ \E t \in Tags : TagLoad(p, t) \/ Untag(p, t) \/ CallDeleteByTag(p, t)
    \/ \E S \in SUBSET Keys : CallRead(p, S) \/ CallDelete(p, S)
    \/ \E k \in Keys : \/ Load(p, k) \/ DeleteKey(p, k) \/ RangeDelete(p, k)
                       \/ DumpStep(p, k) \/ RestoreStep(p, k)
    \/ TagStore(p) \/ Check(p) \/ Expire(p) \/ RangeEnd(p)
    \/ CallDump(p) \/ Marshal(p) \/ Write(p) \/ CallRestore(p)

LEMMA Steps == Next <=> Tick \/ Crash \/ \E p \in Procs : Step(p)
  BY DEF Next, Step, Setting, Tagging, Reading, Deleting, Dumping

-----------------------------------------------------------------------------
(* TypeOK, preserved action by action.                                     *)
LEMMA Constants == /\ MaxCalls \in Nat /\ MaxTime \in Nat
                   /\ Printed \in [Keys -> Keys]
                   /\ None \notin Keys /\ None \notin Tags /\ None \notin Maps
                   /\ None \notin Values /\ None \notin Items
  BY ConstantsAssumption, NoneAssumption DEF Values

LEMMA TypeInit == Init => TypeOK
  BY Constants DEF Init, TypeOK, Entries, Empty, InRange

LEMMA TypeStep ==
  ASSUME TypeOK, NEW p \in Procs, Step(p)
  PROVE  TypeOK'
<1>1. ASSUME NEW k \in Keys, NEW T \in SUBSET Tags, NEW ttl \in {0, 1}, CallSet(p, k, ttl, T)
      PROVE  TypeOK'
  <2>1. [val |-> calls + 1, exp |-> ExpiresAt(ttl)] \in Items
    BY <1>1, Constants DEF TypeOK, Call, CallSet, Items, Values, ExpiresAt
  <2> QED BY <1>1, <2>1, Constants DEF CallSet, NotOwed, TypeOK, Entries, Call, Goto, Again, InRange
<1>2. ASSUME NEW k \in Keys, NEW T \in SUBSET Tags, CallTag(p, k, T) PROVE TypeOK'
  BY <1>2, Constants DEF CallTag, TypeOK, Call, Goto, InRange
<1>3. ASSUME NEW k \in Keys, NEW T \in SUBSET Tags, CallUntag(p, k, T) PROVE TypeOK'
  BY <1>3, Constants DEF CallUntag, BeginRemoving, NotOwed, TypeOK, Call, Goto, InRange
<1>4. ASSUME NEW t \in Tags, TagLoad(p, t) PROVE TypeOK'
  <2>1. firm' \in [Procs -> BOOLEAN]
    BY <1>4 DEF TagLoad, Quiet, TypeOK
  <2>2. PICK r \in Maps : /\ map' = [map EXCEPT ![p] = r]
                          /\ index' = index \/ index' = [index EXCEPT ![t] = r]
                          /\ tagged' = tagged \/ tagged' = [tagged EXCEPT ![r] = {}]
    BY <1>4 DEF TagLoad, Free, TypeOK
  <2>3. index' \in [Tags -> Maps \cup {None}] /\ tagged' \in [Maps -> SUBSET Keys]
    BY <2>2 DEF TypeOK
  <2>4. \A q \in Procs :
           /\ pc'[q] \in {"tag", "tagstore", "untag", "check", "expired"} => key'[q] # None
           /\ pc'[q] = "tagstore" \/ InRange(q)' => map'[q] # None /\ tag'[q] # None
           /\ pc'[q] = "check" <=> item'[q] # None
    BY <1>4, <2>2, Constants DEF TagLoad, TypeOK, Goto, InRange
  <2> QED BY <1>4, <2>1, <2>2, <2>3, <2>4 DEF TagLoad, TypeOK, Goto, InRange
<1>5. ASSUME NEW t \in Tags, Untag(p, t) PROVE TypeOK'
  BY <1>5, Constants DEF Untag, TypeOK, Goto, InRange
<1>6. ASSUME NEW t \in Tags, CallDeleteByTag(p, t) PROVE TypeOK'
  <2>1. index[t] \in Maps /\ tagged[index[t]] \in SUBSET Keys
    BY <1>6 DEF CallDeleteByTag, TypeOK
  <2>2. {k \in Keys : <<k, t>> \in sticky} \in SUBSET Keys
    OBVIOUS
  <2> QED BY <1>6, <2>1, <2>2, Constants DEF CallDeleteByTag, BeginRemoving, TypeOK, Call, Goto, InRange
<1>7. ASSUME NEW S \in SUBSET Keys, CallRead(p, S) PROVE TypeOK'
  BY <1>7, Constants DEF CallRead, Call, TypeOK, Goto, InRange
<1>8. ASSUME NEW S \in SUBSET Keys, CallDelete(p, S) PROVE TypeOK'
  BY <1>8, Constants DEF CallDelete, Call, BeginRemoving, TypeOK, Goto, InRange
<1>9. ASSUME NEW k \in Keys, Load(p, k) PROVE TypeOK'
  <2>1. item' \in [Procs -> Items \cup {None}] /\ got' \in [Procs -> Values \cup {None}]
    BY <1>9 DEF Load, TypeOK, Entries
  <2>2. CASE m[k] = None
    BY <1>9, <2>1, <2>2, Constants DEF Load, Again, TypeOK, Goto, InRange
  <2>3. CASE m[k] # None
    BY <1>9, <2>1, <2>3, Constants DEF Load, TypeOK, Goto, InRange
  <2> QED BY <2>2, <2>3
<1>10. ASSUME NEW k \in Keys, DeleteKey(p, k) PROVE TypeOK'
  BY <1>10, Constants DEF DeleteKey, UntagAll, Entries, TypeOK, Goto, InRange
<1>11. ASSUME NEW k \in Keys, RangeDelete(p, k) PROVE TypeOK'
  BY <1>11, Constants DEF RangeDelete, UntagAll, Entries, TypeOK, Goto, InRange
<1>12. ASSUME NEW k \in Keys, DumpStep(p, k) PROVE TypeOK'
  <2>1. Printed[k] \in Keys
    BY Constants
  <2>2. m[k] # None => m[k] \in Items /\ m[k].val \in Values
    BY DEF TypeOK, Entries, Items
  <2>3. CASE m[k] = None
    BY <1>12, <2>3 DEF DumpStep, TypeOK, InRange
  <2>4. CASE m[k] # None
    <3>1. buf' = [buf EXCEPT ![p] = [buf[p] EXCEPT ![Printed[k]] = m[k]]]
      BY <1>12, <2>4 DEF DumpStep
    <3>2. buf' \in [Procs -> Entries(Keys)]
      BY <3>1, <2>1, <2>2, <2>4 DEF TypeOK, Entries
    <3>3. saved' \in SUBSET (Keys \X Values)
      BY <1>12, <2>4, <2>1, <2>2 DEF DumpStep, TypeOK, InRange
    <3> QED BY <1>12, <3>2, <3>3 DEF DumpStep, TypeOK, InRange
  <2> QED BY <2>3, <2>4
<1>13. ASSUME NEW k \in Keys, RestoreStep(p, k) PROVE TypeOK'
  BY <1>13, Constants DEF RestoreStep, Again, NotOwed, Entries, TypeOK, Goto, InRange
<1>14. ASSUME TagStore(p) PROVE TypeOK'
  BY <1>14, Constants DEF TagStore, Again, TypeOK, Goto, InRange
<1>15. ASSUME Check(p) PROVE TypeOK'
  <2>1. got' \in [Procs -> Values \cup {None}]
    <3>1. item[p] # None => item[p].val \in Values
      BY DEF TypeOK, Items
    <3>2. item[p] # None
      BY <1>15 DEF Check, TypeOK
    <3> QED BY <1>15, <3>1, <3>2 DEF Check, TypeOK
  <2>2. firm' \in [Procs -> BOOLEAN] /\ sticky' \in SUBSET (Keys \X Tags)
    BY <1>15 DEF Check, BeginRemoving, TypeOK
  <2>3. item' \in [Procs -> Items \cup {None}]
    BY <1>15 DEF Check, TypeOK
  <2>4. CASE Expired(item[p])
    BY <1>15, <2>1, <2>2, <2>3, <2>4 DEF Check, BeginRemoving, TypeOK, Goto, InRange
  <2>5. CASE ~Expired(item[p])
    BY <1>15, <2>1, <2>2, <2>3, <2>5 DEF Check, Again, TypeOK, Goto, InRange
  <2> QED BY <2>4, <2>5
<1>16. ASSUME Expire(p) PROVE TypeOK'
  <2>1. m' \in Entries(Keys)
    BY <1>16 DEF Expire, TypeOK, Entries
  <2> QED BY <1>16, <2>1, Constants DEF Expire, UntagAll, TypeOK, Goto, InRange
<1>17. ASSUME RangeEnd(p) PROVE TypeOK'
  BY <1>17, Constants DEF RangeEnd, RangeOver, TypeOK, Goto, InRange
<1>18. ASSUME CallDump(p) PROVE TypeOK'
  BY <1>18, Constants DEF CallDump, Call, TypeOK, Goto, InRange
<1>19. ASSUME Marshal(p) PROVE TypeOK'
  <2>1. Empty \in Entries(Keys)
    BY DEF Empty, Entries
  <2>2. buf' \in [Procs -> Entries(Keys)] /\ file' \in Entries(Keys) \cup {None}
    BY <1>19, <2>1 DEF Marshal, TypeOK
  <2> QED BY <1>19, <2>2, Constants DEF Marshal, TypeOK, Goto, InRange
<1>20. ASSUME Write(p) PROVE TypeOK'
  BY <1>20, Constants DEF Write, Empty, Entries, TypeOK, Goto, InRange
<1>21. ASSUME CallRestore(p) PROVE TypeOK'
  BY <1>21, Constants DEF CallRestore, Call, Entries, TypeOK, Goto, InRange
<1> QED BY <1>1, <1>2, <1>3, <1>4, <1>5, <1>6, <1>7, <1>8, <1>9, <1>10, <1>11, <1>12, <1>13, <1>14, <1>15, <1>16, <1>17, <1>18, <1>19, <1>20, <1>21 DEF Step

LEMMA TypeInvariant == TypeOK /\ [Next]_vars => TypeOK'
<1> SUFFICES ASSUME TypeOK, [Next]_vars PROVE TypeOK'
  OBVIOUS
<1>1. CASE Tick
  BY <1>1, Constants DEF Tick, TypeOK, InRange
<1>2. CASE Crash
  BY <1>2, Constants DEF Crash, TypeOK, Empty, Entries, InRange
<1>3. CASE UNCHANGED vars
  BY <1>3 DEF vars, TypeOK, InRange
<1> QED BY <1>1, <1>2, <1>3, TypeStep, Steps

(* Types.                                                                  *)
THEOREM CacheTypes == Spec => []TypeOK
  BY TypeInit, TypeInvariant, PTL DEF Spec

-----------------------------------------------------------------------------
(* Tags.  A key stays in its tag's map while nothing is removed: nobody    *)
(* replaces the map of a tag (Held), and what is stored in it stays.  While *)
(* something is being removed nothing is sticky (Loose).                   *)
Loose == ~Quiet => sticky = {} /\ \A p \in Procs : ~firm[p]
Held == \A p \in Procs : pc[p] = "tagstore" /\ firm[p] => index[tag[p]] = map[p]

(* What DeleteByTag owes is in the map it ranges over and not yet visited, *)
(* or its entry is gone; so is that of a key that is being untagged.       *)
Owed ==
    /\ \A p \in Procs : ~InRange(p) => owed[p] = {}
    /\ \A p \in Procs : \A k \in owed[p] :
          m[k] # None => k \in todo[p] /\ k \in tagged[map[p]] /\ k \notin done[p]
    /\ \A p, q \in Procs : pc[q] = "untag" /\ key[q] \in owed[p] => m[key[q]] = None

TagInv == TypeOK /\ Loose /\ Held /\ TagsStick /\ Owed

LEMMA TagInit == Init => TagInv
  BY TypeInit DEF Init, TagInv, Loose, Held, TagsStick, Owed, Quiet, Removing

(* Steps that leave the index, the tags and what is owed alone, and do not *)
(* begin or go on removing.                                                *)
LEMMA TagFrame ==
  ASSUME TagInv, TypeOK', NEW p \in Procs, NEW l,
         pc' = [pc EXCEPT ![p] = l], l \notin Removing, l # "tagstore",
         pc[p] \notin Removing, pc[p] # "tagstore",
         UNCHANGED <<index, tagged, tag, map, back, done, firm, sticky>>,
         \A q \in Procs : owed'[q] \subseteq owed[q],
         \A q \in Procs \ {p} : key'[q] = key[q] /\ todo'[q] = todo[q],
         \A q \in Procs : \A k \in owed'[q] : m'[k] \in {m[k], None}
  PROVE  TagInv'
<1>1. owed'[p] = {}
  BY DEF TagInv, Owed, InRange, Removing
<1>2. \A q \in Procs \ {p} : pc'[q] = pc[q]
  OBVIOUS
<1>3. Quiet' <=> Quiet
  BY DEF Quiet, TagInv, TypeOK
<1>4. Loose' /\ Held'
  BY <1>2, <1>3 DEF TagInv, Loose, Held, TypeOK
<1>5. TagsStick'
  BY DEF TagInv, TagsStick
<1>6. Owed'
  <2>1. \A q \in Procs : ~InRange(q)' => owed'[q] = {}
    BY <1>1, <1>2 DEF TagInv, Owed, InRange
  <2>2. \A q \in Procs : \A k \in owed'[q] :
           m'[k] # None => k \in todo'[q] /\ k \in tagged'[map'[q]] /\ k \notin done'[q]
    BY <1>1, <1>2 DEF TagInv, Owed
  <2>3. \A q, r \in Procs : pc'[r] = "untag" /\ key'[r] \in owed'[q] => m'[key'[r]] = None
    BY <1>1, <1>2 DEF TagInv, Owed, Removing, TypeOK
  <2> QED BY <2>1, <2>2, <2>3 DEF Owed
<1> QED BY <1>4, <1>5, <1>6 DEF TagInv

(* Steps that delete an entry and turn to its tags.                        *)
LEMMA TagRemove ==
  ASSUME TagInv, TypeOK', NEW p \in Procs, NEW k \in Keys, NEW l,
         pc[p] \in Removing, UntagAll(p, k, l), m' = [m EXCEPT ![k] = None],
         UNCHANGED <<index, tagged, tag, map, firm, sticky, owed>>,
         \A q \in Procs \ {p} : todo'[q] = todo[q] /\ done'[q] = done[q],
         \/ l # "range" /\ ~InRange(p)
         \/ l = "range" /\ todo'[p] = todo[p] /\ done'[p] = done[p] \cup {k}
  PROVE  TagInv'
<1>1. /\ \A q \in Procs \ {p} : pc'[q] = pc[q] /\ back'[q] = back[q] /\ key'[q] = key[q]
      /\ key'[p] = k /\ back'[p] = l /\ pc'[p] \in {l, "untag"} /\ m'[k] = None
  BY DEF UntagAll, Goto, TagInv, TypeOK, Entries
<1>2. sticky = {} /\ \A q \in Procs : ~firm[q]
  BY DEF TagInv, Loose, Quiet
<1>3. Loose' /\ Held' /\ TagsStick'
  BY <1>2 DEF Loose, Held, TagsStick
<1>4. \A q \in Procs : ~InRange(q)' => owed'[q] = {}
  BY <1>1 DEF TagInv, Owed, InRange
<1>5. \A x \in Keys : m'[x] # None => m'[x] = m[x] /\ x # k
  BY <1>1 DEF TagInv, TypeOK, Entries
<1>6. \A q \in Procs : \A x \in owed'[q] :
         m'[x] # None => x \in todo'[q] /\ x \in tagged'[map'[q]] /\ x \notin done'[q]
  <2> SUFFICES ASSUME NEW q \in Procs, NEW x \in owed[q], m'[x] # None
               PROVE  x \in todo'[q] /\ x \in tagged[map[q]] /\ x \notin done'[q]
    OBVIOUS
  <2>1. x \in Keys
    BY DEF TagInv, TypeOK
  <2>2. x \in todo[q] /\ x \in tagged[map[q]] /\ x \notin done[q] /\ x # k
    BY <1>5, <2>1 DEF TagInv, Owed
  <2>3. q = p => todo'[p] = todo[p] /\ done'[p] = done[p] \cup {k}
    BY DEF TagInv, Owed
  <2> QED BY <2>2, <2>3
<1>7. \A q, r \in Procs : pc'[r] = "untag" /\ key'[r] \in owed'[q] => m'[key'[r]] = None
  BY <1>1, <1>5 DEF TagInv, Owed, TypeOK
<1> QED BY <1>3, <1>4, <1>6, <1>7 DEF TagInv, Owed

(* Steps that begin to remove something.                                   *)
LEMMA TagBegin ==
  ASSUME TagInv, TypeOK', NEW p \in Procs, pc[p] \in {"idle", "check"}, BeginRemoving,
         UNCHANGED <<m, index, tagged>>,
         \A q \in Procs \ {p} : /\ pc'[q] = pc[q] /\ key'[q] = key[q] /\ back'[q] = back[q]
                                /\ todo'[q] = todo[q] /\ done'[q] = done[q] /\ map'[q] = map[q],
         \A q \in Procs : owed'[q] \subseteq owed[q],
         pc'[p] = "untag" => \A q \in Procs : key'[p] \notin owed'[q]
  PROVE  TagInv'
<1>1. Loose' /\ Held' /\ TagsStick'
  BY DEF BeginRemoving, Loose, Held, TagsStick
<1>2. owed'[p] = {}
  BY DEF TagInv, Owed, InRange
<1>3. \A q \in Procs : ~InRange(q)' => owed'[q] = {}
  BY <1>2 DEF TagInv, Owed, InRange
<1>4. \A q \in Procs : \A k \in owed'[q] :
         m'[k] # None => k \in todo'[q] /\ k \in tagged'[map'[q]] /\ k \notin done'[q]
  BY <1>2 DEF TagInv, Owed
<1>5. \A q, r \in Procs : pc'[r] = "untag" /\ key'[r] \in owed'[q] => m'[key'[r]] = None
  BY <1>2 DEF TagInv, Owed
<1> QED BY <1>1, <1>3, <1>4, <1>5 DEF TagInv, Owed

(* The steps of TagKey.                                                    *)
LEMMA TagLoadKeeps ==
  ASSUME TagInv, TypeOK', NEW p \in Procs, NEW t \in Tags, TagLoad(p, t)
  PROVE  TagInv'
<1> USE DEF TagInv
<1>1. /\ \A q \in Procs \ {p} : pc'[q] = pc[q] /\ map'[q] = map[q] /\ tag'[q] = tag[q]
      /\ pc'[p] = "tagstore" /\ tag'[p] = t /\ firm' = [firm EXCEPT ![p] = Quiet]
      /\ UNCHANGED <<m, key, todo, done, back, sticky, owed>>
  BY DEF TagLoad, Goto, TypeOK
<1>2. PICK r \in Maps : /\ map'[p] = r /\ index'[t] = r
                        /\ \A s \in Tags : index[s] # None => index'[s] = index[s]
                        /\ \A s \in Tags : index[s] # None => tagged'[index[s]] = tagged[index[s]]
                        /\ \A q \in Procs \ {p} :
                              map[q] # None => tagged'[map[q]] = tagged[map[q]]
  <2>1. CASE index[t] # None
    BY <2>1 DEF TagLoad, TypeOK
  <2>2. CASE index[t] = None
    <3>1. PICK r \in Free : /\ index' = [index EXCEPT ![t] = r]
                            /\ tagged' = [tagged EXCEPT ![r] = {}]
                            /\ map' = [map EXCEPT ![p] = r]
      BY <2>2 DEF TagLoad
    <3>2. r \in Maps /\ (\A s \in Tags : index[s] # r) /\ \A q \in Procs : map[q] # r
      BY DEF Free
    <3> QED BY <2>2, <3>1, <3>2 DEF TypeOK
  <2> QED BY <2>1, <2>2
<1>3. Quiet' <=> Quiet
  BY <1>1 DEF Quiet, Removing, TagLoad
<1>4. Loose' /\ Held'
  BY <1>1, <1>2, <1>3, Constants DEF Loose, Held, TypeOK
<1>5. TagsStick'
  BY <1>1, <1>2 DEF TagsStick, TypeOK
<1>6. Owed'
  <2>1. owed[p] = {}
    BY DEF Owed, InRange, TagLoad
  <2>2. \A q \in Procs : ~InRange(q)' => owed'[q] = {}
    BY <1>1, <2>1 DEF Owed, InRange
  <2>3. \A q \in Procs \ {p} : owed[q] # {} => tagged'[map[q]] = tagged[map[q]]
    BY <1>2 DEF Owed, TypeOK
  <2>4. \A q \in Procs : \A k \in owed'[q] :
           m'[k] # None => k \in todo'[q] /\ k \in tagged'[map'[q]] /\ k \notin done'[q]
    BY <1>1, <2>1, <2>3 DEF Owed
  <2> QED BY <1>1, <2>2, <2>4 DEF Owed, TagLoad
<1> QED BY <1>4, <1>5, <1>6

LEMMA TagStoreKeeps ==
  ASSUME TagInv, TypeOK', NEW p \in Procs, TagStore(p)
  PROVE  TagInv'
<1> USE DEF TagInv
<1>1. /\ \A q \in Procs \ {p} : pc'[q] = pc[q] /\ map'[q] = map[q] /\ tag'[q] = tag[q]
      /\ pc'[p] \in {"idle", "tag"}
      /\ UNCHANGED <<m, index, key, todo, done, back, firm, owed>>
      /\ map[p] \in Maps /\ tag[p] \in Tags /\ key[p] \in Keys
      /\ tagged' = [tagged EXCEPT ![map[p]] = @ \cup {key[p]}]
      /\ sticky' = IF firm[p] THEN sticky \cup {<<key[p], tag[p]>>} ELSE sticky
  BY DEF TagStore, Again, Goto, TypeOK
<1>2. \A r \in Maps : tagged[r] \subseteq tagged'[r]
  BY <1>1 DEF TypeOK
<1>3. Quiet' <=> Quiet
  BY <1>1 DEF Quiet, Removing, TagStore
<1>4. Loose' /\ Held'
  BY <1>1, <1>3 DEF Loose, Held
<1>5. TagsStick'
  <2>1. CASE firm[p]
    <3>1. index[tag[p]] = map[p] /\ key[p] \in tagged'[map[p]]
      BY <1>1, <2>1 DEF Held, TagStore, TypeOK
    <3> QED BY <1>1, <1>2, <2>1, <3>1, Constants DEF TagsStick, TypeOK
  <2>2. CASE ~firm[p]
    BY <1>1, <1>2, <2>2 DEF TagsStick, TypeOK
  <2> QED BY <2>1, <2>2
<1>6. Owed'
  <2>1. owed[p] = {}
    BY DEF Owed, InRange, TagStore
  <2>2. \A q \in Procs : owed[q] # {} => map[q] \in Maps
    BY DEF Owed, TypeOK
  <2>3. \A q \in Procs : ~InRange(q)' => owed'[q] = {}
    BY <1>1, <2>1 DEF Owed, InRange
  <2>4. \A q \in Procs : \A k \in owed'[q] :
           m'[k] # None => k \in todo'[q] /\ k \in tagged'[map'[q]] /\ k \notin done'[q]
    BY <1>1, <1>2, <2>1, <2>2 DEF Owed
  <2> QED BY <1>1, <2>3, <2>4 DEF Owed
<1> QED BY <1>4, <1>5, <1>6

(* The rest of the steps that remove.                                      *)
LEMMA UntagKeeps ==
  ASSUME TagInv, TypeOK', NEW p \in Procs, NEW t \in Tags, Untag(p, t)
  PROVE  TagInv'
<1> USE DEF TagInv
<1>1. /\ \A q \in Procs \ {p} : pc'[q] = pc[q]
      /\ pc'[p] \in {back[p], "untag"} /\ key[p] \in Keys
      /\ UNCHANGED <<m, key, map, todo, done, back, firm, sticky, owed>>
      /\ \A r \in Maps : tagged'[r] \in {tagged[r], tagged[r] \ {key[p]}}
  BY DEF Untag, Goto, TypeOK
<1>2. sticky = {} /\ \A q \in Procs : ~firm[q]
  BY DEF Loose, Quiet, Removing, Untag
<1>3. Loose' /\ Held' /\ TagsStick'
  BY <1>1, <1>2 DEF Loose, Held, TagsStick
<1>4. \A q \in Procs : ~InRange(q)' => owed'[q] = {}
  BY <1>1 DEF Owed, InRange, Untag
<1>5. \A q \in Procs : \A k \in owed'[q] :
         m'[k] # None => k \in todo'[q] /\ k \in tagged'[map'[q]] /\ k \notin done'[q]
  <2> SUFFICES ASSUME NEW q \in Procs, NEW k \in owed[q], m[k] # None
               PROVE  k \in todo[q] /\ k \in tagged'[map[q]] /\ k \notin done[q]
    BY <1>1
  <2>1. k \in todo[q] /\ k \in tagged[map[q]] /\ k \notin done[q]
    BY DEF Owed
  <2>2. k # key[p]
    BY DEF Owed, Untag
  <2>3. map[q] \in Maps
    BY DEF Owed, TypeOK
  <2> QED BY <1>1, <2>1, <2>2, <2>3
<1>6. \A q, r \in Procs : pc'[r] = "untag" /\ key'[r] \in owed'[q] => m'[key'[r]] = None
  BY <1>1 DEF Owed, Untag
<1> QED BY <1>3, <1>4, <1>5, <1>6 DEF Owed

LEMMA CallDeleteByTagKeeps ==
  ASSUME TagInv, TypeOK', NEW p \in Procs, NEW t \in Tags, CallDeleteByTag(p, t)
  PROVE  TagInv'
<1> USE DEF TagInv
<1>1. /\ \A q \in Procs \ {p} : /\ pc'[q] = pc[q] /\ map'[q] = map[q] /\ todo'[q] = todo[q]
                                /\ done'[q] = done[q] /\ owed'[q] = owed[q]
      /\ pc'[p] = "range" /\ map'[p] = index[t] /\ todo'[p] = tagged[index[t]] /\ done'[p] = {}
      /\ owed'[p] = {k \in Keys : <<k, t>> \in sticky}
      /\ UNCHANGED <<m, tagged, key, back>>
  BY DEF CallDeleteByTag, Goto, TypeOK
<1>2. Loose' /\ Held' /\ TagsStick'
  BY DEF CallDeleteByTag, BeginRemoving, Loose, Held, TagsStick
<1>3. \A q \in Procs : ~InRange(q)' => owed'[q] = {}
  BY <1>1 DEF Owed, InRange
<1>4. \A q \in Procs : \A k \in owed'[q] :
         m'[k] # None => k \in todo'[q] /\ k \in tagged'[map'[q]] /\ k \notin done'[q]
  <2>1. \A k \in owed'[p] : k \in tagged[index[t]]
    BY <1>1 DEF TagsStick
  <2>2. \A q \in Procs \ {p} : \A k \in owed[q] :
           m[k] # None => k \in todo[q] /\ k \in tagged[map[q]] /\ k \notin done[q]
    BY DEF Owed
  <2> QED BY <1>1, <2>1, <2>2
<1>5. \A q, r \in Procs : pc'[r] = "untag" /\ key'[r] \in owed'[q] => m'[key'[r]] = None
  <2>1. owed'[p] # {} => Quiet
    BY <1>1 DEF Loose
  <2>2. ASSUME NEW q \in Procs, NEW r \in Procs, pc'[r] = "untag", key'[r] \in owed'[q]
        PROVE  m'[key'[r]] = None
    <3>1. r # p /\ pc[r] = "untag"
      BY <1>1, <2>2
    <3>2. q # p
      BY <1>1, <2>1, <2>2, <3>1 DEF Quiet, Removing
    <3> QED BY <1>1, <2>2, <3>1, <3>2 DEF Owed
  <2> QED BY <2>2
<1> QED BY <1>2, <1>3, <1>4, <1>5 DEF Owed

LEMMA RangeEndKeeps ==
  ASSUME TagInv, TypeOK', NEW p \in Procs, RangeEnd(p)
  PROVE  TagInv'
<1> USE DEF TagInv
<1>1. /\ \A q \in Procs \ {p} : /\ pc'[q] = pc[q] /\ map'[q] = map[q] /\ todo'[q] = todo[q]
                                /\ owed'[q] = owed[q]
      /\ pc'[p] = "idle" /\ owed'[p] = {}
      /\ UNCHANGED <<m, tagged, key, done, back, firm, sticky>>
  BY DEF RangeEnd, Goto, TypeOK
<1>2. sticky = {} /\ \A q \in Procs : ~firm[q]
  BY DEF Loose, Quiet, Removing, RangeEnd, RangeOver
<1>3. Loose' /\ Held' /\ TagsStick'
  BY <1>1, <1>2 DEF Loose, Held, TagsStick
<1>4. Owed'
  BY <1>1 DEF Owed, InRange
<1> QED BY <1>3, <1>4

LEMMA TagStep ==
  ASSUME TagInv, TypeOK', NEW p \in Procs, Step(p)
  PROVE  TagInv'
<1>1. ASSUME NEW k \in Keys, NEW T \in SUBSET Tags, NEW ttl \in {0, 1},
             CallSet(p, k, ttl, T) PROVE TagInv'
  <2>1. \A q \in Procs : /\ owed'[q] \subseteq owed[q]
                          /\ \A x \in owed'[q] : m'[x] = m[x]
    BY <1>1 DEF CallSet, NotOwed, TagInv, TypeOK, Entries
  <2>2. pc' = [pc EXCEPT ![p] = IF T = {} THEN "idle" ELSE "tag"]
    BY <1>1 DEF CallSet, Again, Goto
  <2> DEFINE l == IF T = {} THEN "idle" ELSE "tag"
  <2>3. \A q \in Procs \ {p} : key'[q] = key[q] /\ todo'[q] = todo[q]
    BY <1>1 DEF CallSet, TagInv, TypeOK
  <2>4. l \notin Removing /\ l # "tagstore" /\ pc[p] \notin Removing /\ pc[p] # "tagstore"
    BY <1>1 DEF CallSet, Call, Removing
  <2>5. pc' = [pc EXCEPT ![p] = l]
    BY <2>2
  <2> HIDE DEF l
  <2> QED BY <1>1, <2>1, <2>3, <2>4, <2>5, TagFrame DEF CallSet
<1>2. ASSUME NEW k \in Keys, NEW T \in SUBSET Tags, CallTag(p, k, T) PROVE TagInv'
  BY <1>2, TagFrame DEF CallTag, Call, Goto, Again, Removing, TagInv, TypeOK
<1>3. ASSUME NEW k \in Keys, NEW T \in SUBSET Tags, CallUntag(p, k, T) PROVE TagInv'
  BY <1>3, TagBegin DEF CallUntag, NotOwed, Call, Goto, TagInv, TypeOK
<1>4. ASSUME NEW t \in Tags, TagLoad(p, t) PROVE TagInv'
  BY <1>4, TagLoadKeeps
<1>5. ASSUME NEW t \in Tags, Untag(p, t) PROVE TagInv'
  BY <1>5, UntagKeeps
<1>6. ASSUME NEW t \in Tags, CallDeleteByTag(p, t) PROVE TagInv'
  BY <1>6, CallDeleteByTagKeeps
<1>7. ASSUME NEW S \in SUBSET Keys, CallRead(p, S) PROVE TagInv'
  BY <1>7, TagFrame DEF CallRead, Call, Goto, Again, Removing, TagInv, TypeOK
<1>8. ASSUME NEW S \in SUBSET Keys, CallDelete(p, S) PROVE TagInv'
  BY <1>8, TagBegin DEF CallDelete, Call, Goto, TagInv, TypeOK
<1>9. ASSUME NEW k \in Keys, Load(p, k) PROVE TagInv'
  BY <1>9, TagFrame DEF Load, Call, Goto, Again, Removing, TagInv, TypeOK
<1>10. ASSUME NEW k \in Keys, DeleteKey(p, k) PROVE TagInv'
  <2> DEFINE l == IF todo[p] = {k} THEN "idle" ELSE "delete"
  <2>1. l # "range" /\ ~InRange(p) /\ pc[p] \in Removing /\ UntagAll(p, k, l)
    BY <1>10 DEF DeleteKey, InRange, Removing
  <2>2. \A q \in Procs \ {p} : todo'[q] = todo[q] /\ done'[q] = done[q]
    BY <1>10 DEF DeleteKey, TagInv, TypeOK
  <2> HIDE DEF l
  <2> QED BY <1>10, <2>1, <2>2, TagRemove DEF DeleteKey
<1>11. ASSUME NEW k \in Keys, RangeDelete(p, k) PROVE TagInv'
  BY <1>11, TagRemove DEF RangeDelete, Removing, InRange, TagInv, TypeOK
<1>12. ASSUME NEW k \in Keys, DumpStep(p, k) PROVE TagInv'
  BY <1>12, TagFrame DEF DumpStep, Call, Goto, Again, Removing, TagInv, TypeOK
<1>13. ASSUME NEW k \in Keys, RestoreStep(p, k) PROVE TagInv'
  <2>1. \A q \in Procs : /\ owed'[q] \subseteq owed[q]
                          /\ \A x \in owed'[q] : m'[x] = m[x]
    BY <1>13 DEF RestoreStep, NotOwed, TagInv, TypeOK, Entries
  <2>2. pc' = [pc EXCEPT ![p] = IF todo[p] \ {k} = {} THEN "idle" ELSE "restore"]
    BY <1>13 DEF RestoreStep, Again, Goto
  <2> DEFINE l == IF todo[p] \ {k} = {} THEN "idle" ELSE "restore"
  <2>3. \A q \in Procs \ {p} : key'[q] = key[q] /\ todo'[q] = todo[q]
    BY <1>13 DEF RestoreStep, TagInv, TypeOK
  <2>4. l \notin Removing /\ l # "tagstore" /\ pc[p] \notin Removing /\ pc[p] # "tagstore"
    BY <1>13 DEF RestoreStep, Removing
  <2>5. pc' = [pc EXCEPT ![p] = l]
    BY <2>2
  <2> HIDE DEF l
  <2> QED BY <1>13, <2>1, <2>3, <2>4, <2>5, TagFrame DEF RestoreStep
<1>14. ASSUME TagStore(p) PROVE TagInv'
  BY <1>14, TagStoreKeeps
<1>15. ASSUME Check(p) PROVE TagInv'
  <2>1. CASE Expired(item[p])
    BY <1>15, <2>1, TagBegin DEF Check, Goto, TagInv, TypeOK
  <2>2. CASE ~Expired(item[p])
    BY <1>15, <2>2, TagFrame DEF Check, Goto, Again, Removing, TagInv, TypeOK
  <2> QED BY <2>1, <2>2
<1>16. ASSUME Expire(p) PROVE TagInv'
  <2>1. key[p] \in Keys
    BY <1>16 DEF Expire, TagInv, TypeOK
  <2> DEFINE l == IF todo[p] = {} THEN "idle" ELSE "read"
  <2>2. l # "range" /\ ~InRange(p) /\ pc[p] \in Removing /\ UntagAll(p, key[p], l)
    BY <1>16 DEF Expire, InRange, Removing
  <2> HIDE DEF l
  <2> QED BY <1>16, <2>1, <2>2, TagRemove DEF Expire
<1>17. ASSUME RangeEnd(p) PROVE TagInv'
  BY <1>17, RangeEndKeeps
<1>18. ASSUME CallDump(p) PROVE TagInv'
  <2>1. \A q \in Procs \ {p} : key'[q] = key[q] /\ todo'[q] = todo[q]
    BY <1>18 DEF CallDump, TagInv, TypeOK
  <2>2. pc' = [pc EXCEPT ![p] = "dump"] /\ pc[p] = "idle"
    BY <1>18 DEF CallDump, Call, Goto
  <2> QED BY <1>18, <2>1, <2>2, TagFrame DEF CallDump, Removing
<1>19. ASSUME Marshal(p) PROVE TagInv'
  BY <1>19, TagFrame DEF Marshal, Call, Goto, Again, Removing, TagInv, TypeOK
<1>20. ASSUME Write(p) PROVE TagInv'
  BY <1>20, TagFrame DEF Write, Call, Goto, Again, Removing, TagInv, TypeOK
<1>21. ASSUME CallRestore(p) PROVE TagInv'
  BY <1>21, TagFrame DEF CallRestore, Call, Goto, Again, Removing, TagInv, TypeOK
<1> QED BY <1>1, <1>2, <1>3, <1>4, <1>5, <1>6, <1>7, <1>8, <1>9, <1>10, <1>11, <1>12, <1>13, <1>14, <1>15, <1>16, <1>17, <1>18, <1>19, <1>20, <1>21 DEF Step

LEMMA TagInvariant == TagInv /\ [Next]_vars => TagInv'
<1> SUFFICES ASSUME TagInv, [Next]_vars PROVE TagInv'
  OBVIOUS
<1>1. TypeOK'
  BY TypeInvariant DEF TagInv
<1>2. CASE Tick \/ UNCHANGED vars
  BY <1>1, <1>2 DEF Tick, vars, TagInv, Loose, Held, TagsStick, Owed, Quiet, InRange
<1>3. CASE Crash
  BY <1>1, <1>3 DEF Crash, TagInv, Loose, Held, TagsStick, Owed, Quiet, InRange, Removing
<1> QED BY <1>1, <1>2, <1>3, TagStep, Steps

LEMMA TagAlways == Spec => []TagInv
  BY TagInit, TagInvariant, PTL DEF Spec

(* A key keeps its tag while nothing is removed, whoever assigns tags.      *)
THEOREM CacheTagsStick == Spec => []TagsStick
<1>1. TagInv => TagsStick
  BY DEF TagInv
<1> QED BY <1>1, TagAlways, PTL

(* DeleteByTag deletes the entries that had the tag when it began.         *)
THEOREM CacheDeleteByTag == Spec => []DeleteByTagDeletes
<1>1. TagInv => DeleteByTagDeletes
  BY DEF TagInv, Owed, DeleteByTagDeletes, RangeOver
<1> QED BY <1>1, TagAlways, PTL

-----------------------------------------------------------------------------
(* The refinement.  What a restore brings back must have been saved: the   *)
(* entries of a dump, in a goroutine or in the file, are, unless they have *)
(* expired.                                                                *)
InSaved(f) == \A k \in Keys : Current(f[k]) # None => <<k, Current(f[k])>> \in saved
SaveInv == /\ TypeOK
           /\ \A p \in Procs : InSaved(buf[p])
           /\ file # None => InSaved(file)

LEMMA SaveInit == Init => SaveInv
  BY TypeInit DEF Init, SaveInv, InSaved, Current, Empty

LEMMA InSavedKept ==
  ASSUME now' = now, saved \subseteq saved', NEW f, InSaved(f)
  PROVE  InSaved(f)'
  BY DEF InSaved, Current

(* Most steps leave the dumps alone.                                       *)
LEMMA SaveFrame ==
  ASSUME SaveInv, TypeOK', UNCHANGED <<now, saved, buf, file>>
  PROVE  SaveInv'
  BY DEF SaveInv, InSaved, Current

LEMMA SaveStep ==
  ASSUME SaveInv, TypeOK', NEW p \in Procs, Step(p)
  PROVE  SaveInv'
<1>1. CASE UNCHANGED <<now, saved, buf, file>>
  BY <1>1, SaveFrame
<1>2. ASSUME NEW k \in Keys, DumpStep(p, k), m[k] # None PROVE SaveInv'
  <2>1. /\ buf' = [buf EXCEPT ![p] = [buf[p] EXCEPT ![Printed[k]] = m[k]]]
        /\ saved' = IF Expired(m[k]) THEN saved ELSE saved \cup {<<Printed[k], m[k].val>>}
        /\ UNCHANGED <<now, file>>
    BY <1>2 DEF DumpStep
  <2>2. m[k] \in Items /\ Printed[k] \in Keys
    BY <1>2, Constants DEF SaveInv, TypeOK, Entries
  <2>3. Current(m[k]) # None => <<Printed[k], Current(m[k])>> \in saved'
    BY <2>1, <2>2, Constants DEF Current, Expired, Items, SaveInv, TypeOK
  <2>4. \A x \in Keys : buf'[p][x] = IF x = Printed[k] THEN m[k] ELSE buf[p][x]
    BY <2>1, <2>2 DEF SaveInv, TypeOK, Entries
  <2>5. InSaved(buf[p])'
    BY <2>1, <2>3, <2>4 DEF InSaved, Current, SaveInv
  <2>6. \A q \in Procs \ {p} : buf'[q] = buf[q]
    BY <2>1 DEF SaveInv, TypeOK
  <2> QED BY <2>1, <2>5, <2>6 DEF SaveInv, InSaved, Current
<1>3. ASSUME Marshal(p) PROVE SaveInv'
  BY <1>3 DEF Marshal, SaveInv, InSaved, Current, Empty, TypeOK
<1>4. ASSUME Write(p) PROVE SaveInv'
  BY <1>4 DEF Write, SaveInv, InSaved, Current, Empty, TypeOK
<1>5. ASSUME CallRestore(p) PROVE SaveInv'
  BY <1>5 DEF CallRestore, SaveInv, InSaved, Current, TypeOK
<1>6. ASSUME NEW k \in Keys, RestoreStep(p, k) PROVE SaveInv'
  <2>1. /\ buf' = [buf EXCEPT ![p] = [buf[p] EXCEPT ![k] = None]]
        /\ UNCHANGED <<now, file, saved>>
    BY <1>6 DEF RestoreStep
  <2>2. \A q \in Procs, x \in Keys : buf'[q][x] \in {buf[q][x], None}
    BY <2>1 DEF SaveInv, TypeOK, Entries
  <2>3. \A q \in Procs : InSaved(buf[q])'
    BY <2>1, <2>2 DEF InSaved, Current, SaveInv
  <2> QED BY <2>1, <2>3 DEF SaveInv, InSaved, Current
<1> QED
  <2>1. CASE \E k \in Keys : DumpStep(p, k) \/ RestoreStep(p, k)
    BY <1>1, <1>2, <1>6, <2>1 DEF DumpStep
  <2>2. CASE Marshal(p) \/ Write(p) \/ CallRestore(p)
    BY <1>3, <1>4, <1>5, <2>2
  <2>3. CASE \/ \E k \in Keys, T \in SUBSET Tags : \/ \E ttl \in {0, 1} : CallSet(p, k, ttl, T)
                                                   \/ CallTag(p, k, T) \/ CallUntag(p, k, T)
             \/ \E t \in Tags : TagLoad(p, t) \/ Untag(p, t) \/ CallDeleteByTag(p, t)
             \/ TagStore(p) \/ RangeEnd(p)
    BY <1>1, <2>3 DEF CallSet, CallTag, CallUntag, TagLoad, Untag, CallDeleteByTag, TagStore,
                      RangeEnd, BeginRemoving
  <2>4. CASE \/ \E S \in SUBSET Keys : CallRead(p, S) \/ CallDelete(p, S)
             \/ \E k \in Keys : Load(p, k) \/ DeleteKey(p, k) \/ RangeDelete(p, k)
             \/ Check(p) \/ Expire(p) \/ CallDump(p)
    BY <1>1, <2>4 DEF CallRead, CallDelete, Load, DeleteKey, RangeDelete, Check, Expire, CallDump,
                      BeginRemoving
  <2> QED BY <2>1, <2>2, <2>3, <2>4 DEF Step

LEMMA SaveInvariant == SaveInv /\ [Next]_vars => SaveInv'
<1> SUFFICES ASSUME SaveInv, [Next]_vars PROVE SaveInv'
  OBVIOUS
<1>1. TypeOK'
  BY TypeInvariant DEF SaveInv
<1>2. CASE Tick
  <2>1. ASSUME NEW f \in Entries(Keys), InSaved(f) PROVE InSaved(f)'
    BY <1>2, <2>1 DEF Tick, InSaved, Current, Entries, Items, SaveInv, TypeOK
  <2>2. \A p \in Procs : buf[p] \in Entries(Keys) /\ InSaved(buf[p])
    BY DEF SaveInv, TypeOK
  <2>3. file # None => file \in Entries(Keys) /\ InSaved(file)
    BY DEF SaveInv, TypeOK
  <2>4. buf' = buf /\ file' = file
    BY <1>2 DEF Tick
  <2>5. \A p \in Procs : InSaved(buf[p])'
    BY <2>1, <2>2, <2>4 DEF InSaved, Current
  <2>6. (file # None => InSaved(file))'
    BY <2>1, <2>3, <2>4 DEF InSaved, Current
  <2> QED BY <1>1, <2>5, <2>6 DEF SaveInv
<1>3. CASE Crash
  BY <1>1, <1>3 DEF Crash, SaveInv, InSaved, Current, Empty
<1>4. CASE UNCHANGED vars
  BY <1>1, <1>4, SaveFrame DEF vars
<1> QED BY <1>1, <1>2, <1>3, <1>4, SaveStep, Steps

(* How the steps map.                                                      *)
LEMMA MapStutter ==
  ASSUME UNCHANGED <<now, m, item, got, saved>>
  PROVE  UNCHANGED Store!vars
  BY DEF Store!vars, Current

LEMMA MapForget ==
  ASSUME TypeOK, NEW k \in Keys, m' = [m EXCEPT ![k] = None],
         UNCHANGED <<now, item, got, saved>>
  PROVE  Store!Next
<1>1. Store!Forget({k}, {})
  BY DEF Store!Forget, Current, TypeOK, Entries
<1> QED BY <1>1 DEF Store!Next

LEMMA MapSet ==
  ASSUME TypeOK, NEW p \in Procs, NEW k \in Keys, NEW T \in SUBSET Tags, NEW ttl \in {0, 1},
         CallSet(p, k, ttl, T)
  PROVE  Store!Next
<1>1. calls + 1 \in Values
  BY Constants DEF CallSet, Call, Values, TypeOK
<1>2. m'[k] = [val |-> calls + 1, exp |-> ExpiresAt(ttl)] /\ m'[k] # None
  <2>1. [val |-> calls + 1, exp |-> ExpiresAt(ttl)] \in Items
    BY <1>1, Constants DEF Items, ExpiresAt, TypeOK
  <2> QED BY <2>1, Constants DEF CallSet, TypeOK, Entries
<1>3. Current(m[k])' = calls + 1
  <2>1. ExpiresAt(ttl) = 0 \/ now <= ExpiresAt(ttl)
    BY DEF ExpiresAt, TypeOK
  <2> QED BY <1>2, <2>1 DEF Current, CallSet
<1>4. Store!Put(k, calls + 1)
  BY <1>3 DEF Store!Put, CallSet, Current, TypeOK, Entries
<1> QED BY <1>1, <1>4 DEF Store!Next

LEMMA MapReads ==
  ASSUME TypeOK, NEW p \in Procs
  PROVE  /\ \A S \in SUBSET Keys : CallRead(p, S) => Store!Next
         /\ \A k \in Keys : Load(p, k) => Store!Next
         /\ Check(p) => Store!Next
<1>1. ASSUME NEW S \in SUBSET Keys, CallRead(p, S) PROVE Store!Next
  <2>1. item[p] = None
    BY <1>1 DEF CallRead, Call, TypeOK
  <2>2. Store!Answer(p)
    BY <1>1, <2>1 DEF CallRead, Store!Answer, Current, TypeOK
  <2> QED BY <2>2 DEF Store!Next
<1>2. ASSUME NEW k \in Keys, Load(p, k) PROVE Store!Next
  <2>1. CASE m[k] = None
    <3>1. item[p] = None
      BY <1>2 DEF Load, TypeOK
    <3>2. Store!Answer(p)
      BY <1>2, <2>1, <3>1 DEF Load, Store!Answer, Current, TypeOK
    <3> QED BY <3>2 DEF Store!Next
  <2>2. CASE m[k] # None
    <3>1. Store!Read(p, k)
      BY <1>2, <2>2 DEF Load, Store!Read, Current, TypeOK
    <3> QED BY <3>1 DEF Store!Next
  <2> QED BY <2>1, <2>2
<1>3. ASSUME Check(p) PROVE Store!Next
  <2>1. item[p] \in Items
    BY <1>3 DEF Check, TypeOK
  <2>2. UNCHANGED <<now, m, saved>> /\ item' = [item EXCEPT ![p] = None]
    BY <1>3 DEF Check, BeginRemoving
  <2>3. Current(item[p]) = IF Expired(item[p]) THEN None ELSE item[p].val
    BY <2>1, Constants DEF Current, Expired, Items, TypeOK
  <2>4. \E v \in {Current(item[p]), None} : got' = [got EXCEPT ![p] = v]
    BY <1>3, <2>3 DEF Check
  <2>5. Store!Answer(p)
    BY <2>2, <2>4 DEF Store!Answer, Current, TypeOK
  <2> QED BY <2>5 DEF Store!Next
<1> QED BY <1>1, <1>2, <1>3

LEMMA MapDumps ==
  ASSUME SaveInv, NEW p \in Procs, NEW k \in Keys
  PROVE  /\ DumpStep(p, k) => Store!Next \/ UNCHANGED Store!vars
         /\ RestoreStep(p, k) => Store!Next
<1> USE DEF SaveInv
<1>1. ASSUME DumpStep(p, k) PROVE Store!Next \/ UNCHANGED Store!vars
  <2>1. CASE m[k] = None \/ Expired(m[k])
    BY <1>1, <2>1, MapStutter DEF DumpStep
  <2>2. CASE m[k] # None /\ ~Expired(m[k])
    <3>1. Current(m[k]) = m[k].val /\ Current(m[k]) # None
      BY <2>2, Constants DEF Current, Expired, TypeOK, Entries, Items
    <3>2. Store!Save(k)
      BY <1>1, <2>2, <3>1 DEF DumpStep, Store!Save, Current
    <3> QED BY <3>2 DEF Store!Next
  <2> QED BY <2>1, <2>2
<1>2. ASSUME RestoreStep(p, k) PROVE Store!Next
  <2>1. m' = [m EXCEPT ![k] = buf[p][k]] /\ UNCHANGED <<now, item, got, saved>>
    BY <1>2 DEF RestoreStep
  <2>2. buf[p][k] \in Items \cup {None}
    BY DEF TypeOK, Entries
  <2>3. CASE Current(buf[p][k]) = None
    <3>1. Store!Forget({k}, {})
      BY <2>1, <2>2, <2>3 DEF Store!Forget, Current, TypeOK, Entries
    <3> QED BY <3>1 DEF Store!Next
  <2>4. CASE Current(buf[p][k]) # None
    <3>1. <<k, Current(buf[p][k])>> \in saved /\ Current(buf[p][k]) \in Values
      BY <2>2, <2>4 DEF InSaved, Current, Items
    <3>2. Store!Restore(k)
      BY <2>1, <3>1 DEF Store!Restore, Current, TypeOK, Entries
    <3> QED BY <3>2 DEF Store!Next
  <2> QED BY <2>3, <2>4
<1> QED BY <1>1, <1>2

LEMMA MapStep ==
  ASSUME SaveInv, NEW p \in Procs, Step(p)
  PROVE  Store!Next \/ UNCHANGED Store!vars
<1> USE DEF SaveInv
<1>1. CASE \/ \E k \in Keys, T \in SUBSET Tags : \E ttl \in {0, 1} : CallSet(p, k, ttl, T)
           \/ \E S \in SUBSET Keys : CallRead(p, S)
           \/ \E k \in Keys : Load(p, k) \/ DumpStep(p, k) \/ RestoreStep(p, k)
           \/ Check(p)
  BY <1>1, MapSet, MapReads, MapDumps
<1>2. CASE \E k \in Keys : DeleteKey(p, k) \/ RangeDelete(p, k)
  BY <1>2, MapForget DEF DeleteKey, RangeDelete
<1>3. CASE Expire(p)
  <2>1. key[p] \in Keys
    BY <1>3 DEF Expire, TypeOK
  <2> QED BY <1>3, <2>1, MapForget DEF Expire
<1>4. CASE \/ \E k \in Keys, T \in SUBSET Tags : CallTag(p, k, T) \/ CallUntag(p, k, T)
           \/ \E t \in Tags : TagLoad(p, t) \/ Untag(p, t) \/ CallDeleteByTag(p, t)
           \/ \E S \in SUBSET Keys : CallDelete(p, S)
           \/ TagStore(p) \/ RangeEnd(p)
           \/ CallDump(p) \/ Marshal(p) \/ Write(p) \/ CallRestore(p)
  BY <1>4, MapStutter DEF CallTag, CallUntag, TagLoad, Untag, CallDeleteByTag, CallDelete, TagStore,
                          RangeEnd, CallDump, Marshal, Write, CallRestore, BeginRemoving
<1> QED BY <1>1, <1>2, <1>3, <1>4 DEF Step

LEMMA MapTick == ASSUME TypeOK, Tick PROVE Store!Next
<1> DEFINE K == {k \in Keys : Current(m[k])' = None}
           P == {p \in Procs : Current(item[p])' = None}
<1>1. /\ \A k \in Keys : Current(m[k])' \in {Current(m[k]), None}
      /\ \A p \in Procs : Current(item[p])' \in {Current(item[p]), None}
  <2>1. ASSUME NEW k \in Keys PROVE Current(m[k])' \in {Current(m[k]), None}
    <3>1. m'[k] = m[k] /\ m[k] \in Items \cup {None} /\ now \in Nat /\ now' = now + 1
      BY DEF Tick, TypeOK, Entries
    <3> QED BY <3>1 DEF Current, Items
  <2>2. ASSUME NEW p \in Procs PROVE Current(item[p])' \in {Current(item[p]), None}
    <3>1. item'[p] = item[p] /\ item[p] \in Items \cup {None} /\ now \in Nat /\ now' = now + 1
      BY DEF Tick, TypeOK
    <3> QED BY <3>1 DEF Current, Items
  <2> QED BY <2>1, <2>2
<1>3. Store!Forget(K, P)
  BY <1>1 DEF Store!Forget, Tick
<1>4. K \in SUBSET Keys /\ P \in SUBSET Procs
  OBVIOUS
<1> QED BY <1>3, <1>4 DEF Store!Next

LEMMA MapCrash == ASSUME Crash PROVE Store!Next
<1>1. Store!Restart
  BY DEF Crash, Store!Restart, Store!Nothing, Current, Empty
<1> QED BY <1>1 DEF Store!Next

(* The cache implements a store that may forget.                           *)
THEOREM CacheIsForgetfulStore == Spec => ImplementsStore
<1>1. Init => Store!Init
  BY DEF Init, Store!Init, Store!Nothing, Current, Empty
<1>2. SaveInv /\ [Next]_vars => [Store!Next]_(Store!vars)
  <2> SUFFICES ASSUME SaveInv, [Next]_vars PROVE [Store!Next]_(Store!vars)
    OBVIOUS
  <2>1. CASE UNCHANGED vars
    <3>1. UNCHANGED <<now, m, item, got, saved>>
      BY <2>1 DEF vars
    <3> QED BY <3>1, MapStutter
  <2> QED BY <2>1, MapTick, MapCrash, MapStep, Steps DEF SaveInv
<1>3. Spec => []SaveInv
  BY SaveInit, SaveInvariant, PTL DEF Spec
<1> QED BY <1>1, <1>2, <1>3, PTL DEF Spec, ImplementsStore, Store!Spec
================================================================================

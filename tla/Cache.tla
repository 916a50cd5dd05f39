--------------------------------- MODULE Cache ---------------------------------
(***************************************************************************)
(* core/cache: entries with an expiry in a sync.Map, and an index from tags *)
(* to sync.Maps of keys, used by goroutines at once without any lock around *)
(* both.  One action is one operation on one sync.Map, except that a loop  *)
(* over the tags loads a tag's map and deletes from it in one.  GetN, SetN  *)
(* and DeleteN print their keys to one and are Get, Set and Delete.        *)
(*                                                                         *)
(* A value is the number of the call of Set that stored it.  Time is in the seconds *)
(* of the expiries, which the float64 of a JSON dump keeps.                *)
(***************************************************************************)
EXTENDS Naturals, FiniteSets

CONSTANTS Procs,    \* goroutines
          Keys, Tags,
          Printed,  \* a key -> the string that stands for it in a dump
          Maps,     \* identities of the tags' maps
          MaxCalls, \* bound on the calls of all operations
          MaxTime,  \* bound on the clock
          None

ASSUME ConstantsAssumption ==
    /\ Printed \in [Keys -> Keys] /\ \A k \in Keys : Printed[Printed[k]] = Printed[k]
    /\ MaxCalls \in Nat /\ MaxTime \in Nat
    /\ None \notin Keys \cup Tags \cup Maps \cup Nat

Values == 1..MaxCalls
Items == [val : Values, exp : 0..(MaxTime + 1)]   \* exp 0: never expires
ASSUME NoneAssumption == None \notin Items

VARIABLES
    now,      \* the clock
    m,        \* c.m: key -> item, or None
    index,    \* c.tagIndex: tag -> its map, or None
    tagged,   \* the contents of the tags' maps
    file,     \* the dump: what is in the file, or None if it cannot be read
    calls,    \* calls so far
    pc,       \* "idle", or where a goroutine is
    key,      \* the key it is at
    todo,     \* keys still to do: of GetMany, DeleteMany, IterateFilter, a dump, a restore
    done,     \* keys DeleteByTag has visited
    tags,     \* tags still to do
    tag,      \* the tag of DeleteByTag
    map,      \* the tag's map it holds
    item,     \* the item it has loaded
    back,     \* where removeKeyFromTagIndex returns to
    buf,      \* what it has collected for a dump, or read of one
    got,      \* what its last lookup of a key answered
    saved,    \* ghost: the entries the dumps have collected
    firm,     \* ghost: nothing has been removed since it loaded its tag's map
    sticky,   \* ghost: keys and tags assigned since anything was removed
    owed      \* ghost: keys whose entries DeleteByTag has to delete

locals == <<key, todo, done, tags, tag, map, item, back, buf>>
ghosts == <<saved, firm, sticky, owed>>
vars == <<now, m, index, tagged, file, calls, pc, locals, got, ghosts>>

(* Mutant: the expiry is the last second an item is kept, and one more.    *)
ExpiredLate(i) == i.exp > 0 /\ now > i.exp + 1
Expired(i) == i.exp > 0 /\ now > i.exp

Entries(S) == [S -> Items \cup {None}]
Empty == [k \in Keys |-> None]

Init ==
    /\ now = 0
    /\ m = Empty
    /\ index = [t \in Tags |-> None]
    /\ tagged = [r \in Maps |-> {}]
    /\ file = None
    /\ calls = 0
    /\ pc = [p \in Procs |-> "idle"]
    /\ key = [p \in Procs |-> None]
    /\ todo = [p \in Procs |-> {}]
    /\ done = [p \in Procs |-> {}]
    /\ tags = [p \in Procs |-> {}]
    /\ tag = [p \in Procs |-> None]
    /\ map = [p \in Procs |-> None]
    /\ item = [p \in Procs |-> None]
    /\ back = [p \in Procs |-> "idle"]
    /\ buf = [p \in Procs |-> Empty]
    /\ got = [p \in Procs |-> None]
    /\ saved = {}
    /\ firm = [p \in Procs |-> FALSE]
    /\ sticky = {}
    /\ owed = [p \in Procs |-> {}]

-----------------------------------------------------------------------------
(* removeKeyFromTagIndex, and the loops of deletions it is called from, take *)
(* keys and tags away; until they are done, nothing sticks.                *)
Removing == {"expired", "delete", "untag", "range"}
Quiet == \A p \in Procs : pc[p] \notin Removing
BeginRemoving ==
    /\ firm' = [p \in Procs |-> FALSE]
    /\ sticky' = {}
    /\ UNCHANGED saved
(* A key that is stored or untagged is not owed any more.                  *)
NotOwed(k) == owed' = [p \in Procs |-> owed[p] \ {k}]

Call(p) ==
    /\ pc[p] = "idle" /\ calls < MaxCalls
    /\ calls' = calls + 1
Goto(p, l) == pc' = [pc EXCEPT ![p] = l]
(* The next round of a loop over what is still to do, or its end.          *)
Again(p, l, rest) == Goto(p, IF rest = {} THEN "idle" ELSE l)

Tick ==
    /\ now < MaxTime
    /\ now' = now + 1
    /\ UNCHANGED <<m, index, tagged, file, calls, pc, locals, got, ghosts>>

(* Mutant: the clock counts milliseconds.                                  *)
ExpiresAtMillis(ttl) == IF ttl = 0 THEN 0 ELSE now + 1000 * ttl
ExpiresAt(ttl) == IF ttl = 0 THEN 0 ELSE now + ttl

(* Set, with or without a time to live, then TagKey, which may be called by *)
(* itself.                                                                 *)
CallSet(p, k, ttl, T) ==
    /\ Call(p)
    /\ m' = [m EXCEPT ![k] = [val |-> calls + 1, exp |-> ExpiresAt(ttl)]]
    /\ key' = [key EXCEPT ![p] = k]
    /\ tags' = [tags EXCEPT ![p] = T]
    /\ Again(p, "tag", T)
    /\ NotOwed(k)
    /\ UNCHANGED <<now, index, tagged, file, todo, done, tag, map, item, back, buf, got, saved, firm,
                   sticky>>

CallTag(p, k, T) ==
    /\ Call(p) /\ T # {}
    /\ key' = [key EXCEPT ![p] = k]
    /\ tags' = [tags EXCEPT ![p] = T]
    /\ Goto(p, "tag")
    /\ UNCHANGED <<now, m, index, tagged, file, todo, done, tag, map, item, back, buf, got,
                   ghosts>>

(* Maps nobody refers to: a new one is empty.                              *)
Free == Maps \ ({index[t] : t \in Tags} \cup {map[p] : p \in Procs})

(* TagKey, for each tag: LoadOrStore of the tag's map ... Mutant: the new   *)
(* map is stored whether or not there is one.                              *)
TagLoadStores(p, t) ==
    /\ pc[p] = "tag" /\ t \in tags[p]
    /\ \E r \in Free :
          /\ index' = [index EXCEPT ![t] = r]
          /\ tagged' = [tagged EXCEPT ![r] = {}]
          /\ map' = [map EXCEPT ![p] = r]
    /\ tag' = [tag EXCEPT ![p] = t]
    /\ tags' = [tags EXCEPT ![p] = @ \ {t}]
    /\ firm' = [firm EXCEPT ![p] = Quiet]
    /\ Goto(p, "tagstore")
    /\ UNCHANGED <<now, m, file, calls, key, todo, done, item, back, buf, got, saved, sticky,
                   owed>>
TagLoad(p, t) ==
    /\ pc[p] = "tag" /\ t \in tags[p]
    /\ \/ /\ index[t] # None
          /\ map' = [map EXCEPT ![p] = index[t]]
          /\ UNCHANGED <<index, tagged>>
       \/ /\ index[t] = None
          /\ \E r \in Free :
                /\ index' = [index EXCEPT ![t] = r]
                /\ tagged' = [tagged EXCEPT ![r] = {}]
                /\ map' = [map EXCEPT ![p] = r]
    /\ tag' = [tag EXCEPT ![p] = t]
    /\ tags' = [tags EXCEPT ![p] = @ \ {t}]
    /\ firm' = [firm EXCEPT ![p] = Quiet]
    /\ Goto(p, "tagstore")
    /\ UNCHANGED <<now, m, file, calls, key, todo, done, item, back, buf, got, saved, sticky,
                   owed>>

(* ... and the store of the key into it.                                   *)
TagStore(p) ==
    /\ pc[p] = "tagstore"
    /\ tagged' = [tagged EXCEPT ![map[p]] = @ \cup {key[p]}]
    /\ sticky' = IF firm[p] THEN sticky \cup {<<key[p], tag[p]>>} ELSE sticky
    /\ map' = [map EXCEPT ![p] = None]
    /\ tag' = [tag EXCEPT ![p] = None]
    /\ Again(p, "tag", tags[p])
    /\ UNCHANGED <<now, m, index, file, calls, key, todo, done, tags, item, back, buf, got, saved,
                   firm, owed>>

(* The loop of removeKeyFromTagIndex over the tags' maps, which may or may *)
(* not visit a tag stored meanwhile.                                       *)
UntagAll(p, k, l) ==
    \E T \in SUBSET Tags :
        /\ {t \in Tags : index[t] # None} \subseteq T
        /\ key' = [key EXCEPT ![p] = k]
        /\ tags' = [tags EXCEPT ![p] = T]
        /\ back' = [back EXCEPT ![p] = l]
        /\ Goto(p, IF T = {} THEN l ELSE "untag")

Untag(p, t) ==
    /\ pc[p] = "untag" /\ t \in tags[p]
    /\ tagged' = IF index[t] = None THEN tagged
                 ELSE [tagged EXCEPT ![index[t]] = @ \ {key[p]}]
    /\ tags' = [tags EXCEPT ![p] = @ \ {t}]
    /\ Goto(p, IF tags[p] = {t} THEN back[p] ELSE "untag")
    /\ UNCHANGED <<now, m, index, file, calls, key, todo, done, tag, map, item, back, buf, got,
                   ghosts>>

(* UntagKey.                                                               *)
CallUntag(p, k, T) ==
    /\ Call(p) /\ T # {}
    /\ key' = [key EXCEPT ![p] = k]
    /\ tags' = [tags EXCEPT ![p] = T]
    /\ back' = [back EXCEPT ![p] = "idle"]
    /\ Goto(p, "untag")
    /\ BeginRemoving
    /\ NotOwed(k)
    /\ UNCHANGED <<now, m, index, tagged, file, todo, done, tag, map, item, buf, got>>

-----------------------------------------------------------------------------
(* Get, GetOrDefault, GetMany and IterateFilter, whose Range visits some   *)
(* set of keys; a key that is gone when it comes to it answers None.       *)
CallRead(p, S) ==
    /\ Call(p) /\ S # {}
    /\ todo' = [todo EXCEPT ![p] = S]
    /\ Goto(p, "read")
    /\ got' = [got EXCEPT ![p] = None]
    /\ UNCHANGED <<now, m, index, tagged, file, key, done, tags, tag, map, item, back, buf, ghosts>>

Load(p, k) ==
    /\ pc[p] = "read" /\ k \in todo[p]
    /\ key' = [key EXCEPT ![p] = k]
    /\ item' = [item EXCEPT ![p] = m[k]]
    /\ todo' = [todo EXCEPT ![p] = @ \ {k}]
    /\ \/ /\ m[k] = None
          /\ got' = [got EXCEPT ![p] = None]
          /\ Again(p, "read", todo[p] \ {k})
       \/ /\ m[k] # None
          /\ Goto(p, "check")
          /\ UNCHANGED got
    /\ UNCHANGED <<now, m, index, tagged, file, calls, done, tags, tag, map, back, buf, ghosts>>

(* The clock is read after the item.                                       *)
Check(p) ==
    /\ pc[p] = "check"
    /\ item' = [item EXCEPT ![p] = None]
    /\ \/ /\ Expired(item[p])
          /\ got' = [got EXCEPT ![p] = None]
          /\ Goto(p, "expired")
          /\ BeginRemoving /\ UNCHANGED owed
       \/ /\ ~Expired(item[p])
          /\ got' = [got EXCEPT ![p] = item[p].val]
          /\ Again(p, "read", todo[p])
          /\ UNCHANGED ghosts
    /\ UNCHANGED <<now, m, index, tagged, file, calls, key, todo, done, tags, tag, map, back, buf>>

(* The key is deleted, whatever is stored under it by now.                 *)
Expire(p) ==
    /\ pc[p] = "expired"
    /\ m' = [m EXCEPT ![key[p]] = None]
    /\ UntagAll(p, key[p], IF todo[p] = {} THEN "idle" ELSE "read")
    /\ UNCHANGED <<now, index, tagged, file, calls, todo, done, tag, map, item, buf, got, ghosts>>

-----------------------------------------------------------------------------
(* Delete and DeleteMany.                                                  *)
CallDelete(p, S) ==
    /\ Call(p) /\ S # {}
    /\ todo' = [todo EXCEPT ![p] = S]
    /\ Goto(p, "delete")
    /\ BeginRemoving
    /\ UNCHANGED <<now, m, index, tagged, file, key, done, tags, tag, map, item, back, buf, got, owed>>

DeleteKey(p, k) ==
    /\ pc[p] = "delete" /\ k \in todo[p]
    /\ m' = [m EXCEPT ![k] = None]
    /\ todo' = [todo EXCEPT ![p] = @ \ {k}]
    /\ UntagAll(p, k, IF todo[p] = {k} THEN "idle" ELSE "delete")
    /\ UNCHANGED <<now, index, tagged, file, calls, done, tag, map, item, buf, got, ghosts>>

(* DeleteByTag: a Range over the tag's map, which visits what is in it all *)
(* along and may visit what comes meanwhile, deletes the keys ...          *)
CallDeleteByTag(p, t) ==
    /\ Call(p) /\ index[t] # None
    /\ tag' = [tag EXCEPT ![p] = t]
    /\ map' = [map EXCEPT ![p] = index[t]]
    /\ todo' = [todo EXCEPT ![p] = tagged[index[t]]]
    /\ done' = [done EXCEPT ![p] = {}]
    /\ owed' = [owed EXCEPT ![p] = {k \in Keys : <<k, t>> \in sticky}]
    /\ Goto(p, "range")
    /\ BeginRemoving
    /\ UNCHANGED <<now, m, index, tagged, file, key, tags, item, back, buf, got>>

(* Mutant: the keys are untagged, but their entries kept.                  *)
RangeDeleteKeeps(p, k) ==
    /\ pc[p] = "range" /\ k \in tagged[map[p]] \ done[p]
    /\ done' = [done EXCEPT ![p] = @ \cup {k}]
    /\ UntagAll(p, k, "range")
    /\ UNCHANGED <<now, m, index, tagged, file, calls, todo, tag, map, item, buf, got, ghosts>>
RangeDelete(p, k) ==
    /\ pc[p] = "range" /\ k \in tagged[map[p]] \ done[p]
    /\ m' = [m EXCEPT ![k] = None]
    /\ done' = [done EXCEPT ![p] = @ \cup {k}]
    /\ UntagAll(p, k, "range")
    /\ UNCHANGED <<now, index, tagged, file, calls, todo, tag, map, item, buf, got, ghosts>>

(* ... and the tag, with the map others may have loaded.                   *)
RangeOver(p) == pc[p] = "range" /\ todo[p] \cap tagged[map[p]] \subseteq done[p]
RangeEnd(p) ==
    /\ RangeOver(p)
    /\ index' = [index EXCEPT ![tag[p]] = None]
    /\ tag' = [tag EXCEPT ![p] = None]
    /\ map' = [map EXCEPT ![p] = None]
    /\ todo' = [todo EXCEPT ![p] = {}]
    /\ owed' = [owed EXCEPT ![p] = {}]
    /\ Goto(p, "idle")
    /\ UNCHANGED <<now, m, tagged, file, calls, key, done, tags, item, back, buf, got, saved, firm,
                   sticky>>

-----------------------------------------------------------------------------
(* DumpToFile: a Range collects the items, expired ones too, under their   *)
(* printed keys; of two keys printed alike the later counts ...            *)
CallDump(p) ==
    /\ Call(p)
    /\ \E S \in SUBSET Keys :
          /\ {k \in Keys : m[k] # None} \subseteq S
          /\ todo' = [todo EXCEPT ![p] = S]
    /\ Goto(p, "dump")
    /\ UNCHANGED <<now, m, index, tagged, file, key, done, tags, tag, map, item, back, buf, got, ghosts>>

DumpStep(p, k) ==
    /\ pc[p] = "dump" /\ k \in todo[p]
    /\ todo' = [todo EXCEPT ![p] = @ \ {k}]
    /\ \/ /\ m[k] = None
          /\ UNCHANGED <<buf, saved>>
       \/ /\ m[k] # None
          /\ buf' = [buf EXCEPT ![p][Printed[k]] = m[k]]
          /\ saved' = IF Expired(m[k]) THEN saved ELSE saved \cup {<<Printed[k], m[k].val>>}
    /\ UNCHANGED <<now, m, index, tagged, file, calls, pc, key, done, tags, tag, map, item, back, got,
                   firm, sticky, owed>>

(* ... MarshalIndent may fail; WriteFile first truncates the file.          *)
Marshal(p) ==
    /\ pc[p] = "dump" /\ todo[p] = {}
    /\ \/ /\ Goto(p, "write")
          /\ file' = None
          /\ UNCHANGED buf
       \/ /\ Goto(p, "idle")
          /\ buf' = [buf EXCEPT ![p] = Empty]
          /\ UNCHANGED file
    /\ UNCHANGED <<now, m, index, tagged, calls, key, todo, done, tags, tag, map, item, back, got,
                   ghosts>>

Write(p) ==
    /\ pc[p] = "write"
    /\ file' = buf[p]
    /\ buf' = [buf EXCEPT ![p] = Empty]
    /\ Goto(p, "idle")
    /\ UNCHANGED <<now, m, index, tagged, calls, key, todo, done, tags, tag, map, item, back, got,
                   ghosts>>

(* RestoreFromFile stores the items of the dump, without their tags and    *)
(* under their printed keys.  A file that is being written does not parse. *)
CallRestore(p) ==
    /\ Call(p) /\ file \notin {None, Empty}
    /\ buf' = [buf EXCEPT ![p] = file]
    /\ todo' = [todo EXCEPT ![p] = {k \in Keys : file[k] # None}]
    /\ Goto(p, "restore")
    /\ UNCHANGED <<now, m, index, tagged, file, key, done, tags, tag, map, item, back, got,
                   ghosts>>

RestoreStep(p, k) ==
    /\ pc[p] = "restore" /\ k \in todo[p]
    /\ m' = [m EXCEPT ![k] = buf[p][k]]
    /\ todo' = [todo EXCEPT ![p] = @ \ {k}]
    /\ buf' = [buf EXCEPT ![p][k] = None]
    /\ Again(p, "restore", todo[p] \ {k})
    /\ NotOwed(k)
    /\ UNCHANGED <<now, index, tagged, file, calls, key, done, tags, tag, map, item, back, got, saved,
                   firm, sticky>>

(* The process ends and is started again: only the file is left.           *)
Crash ==
    /\ m' = Empty
    /\ index' = [t \in Tags |-> None]
    /\ tagged' = [r \in Maps |-> {}]
    /\ pc' = [p \in Procs |-> "idle"]
    /\ key' = [p \in Procs |-> None]
    /\ todo' = [p \in Procs |-> {}]
    /\ done' = [p \in Procs |-> {}]
    /\ tags' = [p \in Procs |-> {}]
    /\ tag' = [p \in Procs |-> None]
    /\ map' = [p \in Procs |-> None]
    /\ item' = [p \in Procs |-> None]
    /\ back' = [p \in Procs |-> "idle"]
    /\ buf' = [p \in Procs |-> Empty]
    /\ got' = [p \in Procs |-> None]
    /\ firm' = [p \in Procs |-> FALSE]
    /\ sticky' = {}
    /\ owed' = [p \in Procs |-> {}]
    /\ UNCHANGED <<now, file, calls, saved>>

Setting(p) == \E k \in Keys, T \in SUBSET Tags :
    \/ \E ttl \in {0, 1} : CallSet(p, k, ttl, T)
    \/ CallTag(p, k, T) \/ CallUntag(p, k, T)
Tagging(p) == TagStore(p) \/ \E t \in Tags : TagLoad(p, t) \/ Untag(p, t)
Reading(p) == \/ \E S \in SUBSET Keys : CallRead(p, S)
              \/ \E k \in Keys : Load(p, k)
              \/ Check(p) \/ Expire(p)
Deleting(p) == \/ \E S \in SUBSET Keys : CallDelete(p, S)
               \/ \E k \in Keys : DeleteKey(p, k) \/ RangeDelete(p, k)
               \/ \E t \in Tags : CallDeleteByTag(p, t)
               \/ RangeEnd(p)
Dumping(p) == \/ CallDump(p) \/ Marshal(p) \/ Write(p) \/ CallRestore(p)
              \/ \E k \in Keys : DumpStep(p, k) \/ RestoreStep(p, k)

Next ==
    \/ Tick \/ Crash
    \/ \E p \in Procs : Setting(p) \/ Tagging(p) \/ Reading(p) \/ Deleting(p) \/ Dumping(p)

Spec == Init /\ [][Next]_vars

-----------------------------------------------------------------------------
(* Types; a goroutine that is in the tag index knows the key, and the map  *)
(* and tag, it is there for; one that checks an item has one.              *)
InRange(p) == pc[p] = "range" \/ (pc[p] = "untag" /\ back[p] = "range")
TypeOK ==
    /\ now \in 0..MaxTime
    /\ m \in Entries(Keys)
    /\ index \in [Tags -> Maps \cup {None}]
    /\ tagged \in [Maps -> SUBSET Keys]
    /\ file \in Entries(Keys) \cup {None}
    /\ calls \in 0..MaxCalls
    /\ pc \in [Procs -> {"idle", "tag", "tagstore", "untag", "read", "check", "expired", "delete",
                         "range", "dump", "write", "restore"}]
    /\ key \in [Procs -> Keys \cup {None}]
    /\ todo \in [Procs -> SUBSET Keys]
    /\ done \in [Procs -> SUBSET Keys]
    /\ tags \in [Procs -> SUBSET Tags]
    /\ tag \in [Procs -> Tags \cup {None}]
    /\ map \in [Procs -> Maps \cup {None}]
    /\ item \in [Procs -> Items \cup {None}]
    /\ back \in [Procs -> {"idle", "read", "delete", "range"}]
    /\ buf \in [Procs -> Entries(Keys)]
    /\ got \in [Procs -> Values \cup {None}]
    /\ saved \in SUBSET (Keys \X Values)
    /\ firm \in [Procs -> BOOLEAN]
    /\ sticky \in SUBSET (Keys \X Tags)
    /\ owed \in [Procs -> SUBSET Keys]
    /\ \A p \in Procs :
          /\ pc[p] \in {"tag", "tagstore", "untag", "check", "expired"} => key[p] # None
          /\ pc[p] = "tagstore" \/ InRange(p) => map[p] # None /\ tag[p] # None
          /\ pc[p] = "check" <=> item[p] # None

(* A key and a tag stay assigned until something is removed, however many  *)
(* goroutines assign tags at once: two that find a tag without a map end   *)
(* up in one map.                                                          *)
TagsStick ==
    \A k \in Keys, t \in Tags :
        <<k, t>> \in sticky => index[t] # None /\ k \in tagged[index[t]]

(* "DeleteByTag deletes all cache entries assigned to a tag": when its     *)
(* Range is over, the entry of each key that had the tag, and was neither  *)
(* stored nor untagged since, is gone, whoever else was deleting.          *)
DeleteByTagDeletes == \A p \in Procs : RangeOver(p) => \A k \in owed[p] : m[k] = None

(* The cache is a store that may forget, but answers no key with a value   *)
(* older than its last, or expired, or of another key; what a restart and  *)
(* a restore bring back was in it when it was saved.                       *)
Current(i) == IF i # None /\ (i.exp = 0 \/ now <= i.exp) THEN i.val ELSE None
Store == INSTANCE ForgetfulStore
    WITH store <- [k \in Keys |-> Current(m[k])],
         seen <- [p \in Procs |-> Current(item[p])],
         answer <- got
ImplementsStore == Store!Spec
=============================================================================

----------------------------- MODULE ForgetfulStore -----------------------------
(***************************************************************************)
(* What a cache promises: a store that may forget anything at any time, but *)
(* never answers a key with a value other than the last one put under it   *)
(* before the key was read, nor with a value it had forgotten by then.  Its *)
(* entries can be saved; once saved, they can come back, under their keys' *)
(* printed forms.                                                          *)
(***************************************************************************)
CONSTANTS Procs, Keys, Values,
          Printed,   \* the key a saved key comes back as
          None

VARIABLES store,   \* key -> its value, or None
          seen,    \* caller -> the value it is about to answer with
          answer,  \* caller -> what its last lookup answered
          saved    \* the entries saved so far

vars == <<store, seen, answer, saved>>

Nothing(S) == [x \in S |-> None]

Init ==
    /\ store = Nothing(Keys)
    /\ seen = Nothing(Procs)
    /\ answer = Nothing(Procs)
    /\ saved = {}

Put(k, v) ==
    /\ store' = [store EXCEPT ![k] = v]
    /\ UNCHANGED <<seen, answer, saved>>

(* Callers about to answer may forget what they read, too.                 *)
Forget(K, P) ==
    /\ store' = [k \in Keys |-> IF k \in K THEN None ELSE store[k]]
    /\ seen' = [p \in Procs |-> IF p \in P THEN None ELSE seen[p]]
    /\ UNCHANGED <<answer, saved>>

Read(p, k) ==
    /\ seen' = [seen EXCEPT ![p] = store[k]]
    /\ UNCHANGED <<store, answer, saved>>

Answer(p) ==
    /\ \E v \in {seen[p], None} : answer' = [answer EXCEPT ![p] = v]
    /\ seen' = [seen EXCEPT ![p] = None]
    /\ UNCHANGED <<store, saved>>

Save(k) ==
    /\ store[k] # None
    /\ saved' = saved \cup {<<Printed[k], store[k]>>}
    /\ UNCHANGED <<store, seen, answer>>

Restore(k) ==
    /\ \E v \in Values : /\ <<k, v>> \in saved
                         /\ store' = [store EXCEPT ![k] = v]
    /\ UNCHANGED <<seen, answer, saved>>

Restart ==
    /\ store' = Nothing(Keys)
    /\ seen' = Nothing(Procs)
    /\ answer' = Nothing(Procs)
    /\ UNCHANGED saved

Next ==
    \/ \E k \in Keys : (\E v \in Values : Put(k, v)) \/ Save(k) \/ Restore(k)
    \/ \E K \in SUBSET Keys, P \in SUBSET Procs : Forget(K, P)
    \/ \E p \in Procs : Answer(p) \/ \E k \in Keys : Read(p, k)
    \/ Restart

Spec == Init /\ [][Next]_vars
=================================================================================

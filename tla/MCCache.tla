-------------------------------- MODULE MCCache --------------------------------
(* Cache on a small instance: two keys, the second printed like the first.  *)
EXTENDS Cache, TLC

CONSTANTS k1, k2

PrintedAlike == k1 :> k2 @@ k2 :> k2
(* What an idle goroutine, or a map nobody refers to, still holds is never *)
(* read again.                                                             *)
Busy(f, x) == [p \in Procs |-> IF pc[p] = "idle" THEN x ELSE f[p]]
View == <<now, m, index, [r \in Maps |-> IF r \in Free THEN {} ELSE tagged[r]], file, calls, pc,
          Busy(key, None), todo, Busy(done, {}), tags, tag, map, item, Busy(back, "idle"), buf,
          got, ghosts>>

Symmetry == Permutations(Procs) \cup Permutations(Maps)
================================================================================

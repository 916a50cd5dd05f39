---------------------------- MODULE MCCategoryRepo ----------------------------
(***************************************************************************)
(* The category repository for TLC: goroutines, stores and ids are model   *)
(* values; goroutines are interchangeable.                                 *)
(***************************************************************************)
EXTENDS CategoryRepo, TLC

Symmetry == Permutations(Procs)
=============================================================================

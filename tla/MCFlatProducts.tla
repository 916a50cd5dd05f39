---------------------------- MODULE MCFlatProducts ----------------------------
(* FlatProducts on small instances.                                         *)
EXTENDS FlatProducts, TLC

(* Catalogues are interchangeable, and so are goroutines: Refs and Procs    *)
(* are sets of model values no definition tells apart.                      *)
Symmetry == Permutations(Procs) \cup Permutations(Refs)
=============================================================================

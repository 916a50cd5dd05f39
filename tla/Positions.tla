------------------------------- MODULE Positions -------------------------------
(***************************************************************************)
(* The elements of a list that a loop keeps: those at a set of positions,  *)
(* in their order.  (SelectSeq says the same of a condition on elements.)   *)
(***************************************************************************)
EXTENDS Naturals, Sequences, FiniteSets

(* How many members of S, a finite set of numbers, are up to x; the member  *)
(* that is the k-th.                                                        *)
Rank(S, x) == Cardinality({y \in S : y <= x})
Nth(S, k) == CHOOSE x \in S : Rank(S, x) = k

Kept(s, S) == [k \in 1..Cardinality(S) |-> s[Nth(S, k)]]

Greatest(S) == CHOOSE k \in S : \A j \in S : j <= k
================================================================================

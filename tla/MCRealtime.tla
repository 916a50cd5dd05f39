------------------------------ MODULE MCRealtime ------------------------------
(* Realtime on a small instance: 4 stands for the missing price.            *)
EXTENDS Realtime

Tier(g, a, n, v) == [group |-> g, all |-> a, qty |-> n, value |-> v]
SomeTiers == {Tier(0, TRUE, 1, 2), Tier(1, FALSE, 1, 0), Tier(0, FALSE, 2, 1)}
Product(b, s, ts) == [base |-> b, special |-> s, tiers |-> ts]

(* Two tiers for a logged-in customer, of which one query takes either, one *)
(* of them a price of 0; a special price and a tier for more than one      *)
(* piece; no price at all.                                                 *)
SomeProducts ==
    {Product(4, Nil, {Tier(0, TRUE, 1, 2), Tier(1, FALSE, 1, 0)}),
     Product(3, 2, {Tier(0, FALSE, 2, 1)}),
     Product(Nil, Nil, {})}
===============================================================================

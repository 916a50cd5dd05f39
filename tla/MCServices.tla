------------------------------ MODULE MCServices ------------------------------
(* Services on small instances.                                             *)
EXTENDS Services

CONSTANTS s1, s2

Cells(q, m, n) == [c \in Columns |-> CASE c = "qty" -> q [] c = "manage_stock" -> m [] OTHER -> n]
Item(s, q, m, n) == [sku |-> s, given |-> Cells(q, m, n)]

(* One SKU twice and another, in two chunks; an item without an SKU; none.  *)
SomeBodies ==
    {<<>>,
     <<Item(s1, 5, Unset, Unset), Item(s2, Unset, 0, 0), Item(s1, 7, 1, 2)>>,
     <<Item(Unset, 1, Unset, Unset), Item(s2, 3, Unset, 0)>>}
===============================================================================

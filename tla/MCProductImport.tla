---------------------------- MODULE MCProductImport ----------------------------
(* ProductImport on a small instance: a file whose first and last rows have *)
(* the same SKU, in different batches, whose second has a price that does   *)
(* not parse, and whose third has no SKU, imported twice.                   *)
EXTENDS ProductImport

CONSTANTS a, b, v, w

Row(s, f) == [sku |-> s, padded |-> FALSE, cell |-> f]
All(x) == [c \in Columns |-> x]

RepeatedFile ==
    {<<Row(a, All(v)), Row(b, [All(v) EXCEPT !["price"] = Bad]), Row(Blank, All(v)), Row(a, All(w))>>}
Catalogues0 == {<<>>, <<a>>}
===============================================================================

-------------------------------- MODULE MCPages --------------------------------
(* Pages for TLC: an outflow without a category, and an inflow with one that *)
(* is typed as budgetStatus names the empty one.                             *)
EXTENDS Pages, TLC

MCEntries ==
  {[amount |-> -2, category |-> "", month |-> 1],
   [amount |-> 1, category |-> Uncategorized, month |-> 1]}

Interchangeable == Permutations(Flow)
=============================================================================

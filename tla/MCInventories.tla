---------------------------- MODULE MCInventories ----------------------------
(* One client id, two inventories, counts up to two of one item, and       *)
(* recipes that make two of it and use one up.                             *)
EXTENDS Inventories

CONSTANTS c1, i1, i2, wood, grow, burn
In  == [r \in Recipes |-> [it \in Items |-> IF r = burn THEN 1 ELSE 0]]
Out == [r \in Recipes |-> [it \in Items |-> IF r = grow THEN 2 ELSE 0]]
TakeOrGive == {-1, 2}
Symmetry == Permutations(Ids)
=============================================================================

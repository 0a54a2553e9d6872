---------------------------- MODULE MCClientViews ----------------------------
(* ClientViews on a line of positions, with views two positions wide and   *)
(* chunks that keep their neighbours in memory.                            *)
EXTENDS ClientViews, TLC

CONSTANTS Length, c1, c2, limbo, forest, dungeon
Line == 1 .. Length
Middle == 1 .. Length - 1
PairView == [p \in Middle |-> {p, p + 1}]
Neighbours == [p \in Line |-> {p - 1, p, p + 1} \cap Line]
Symmetry == Permutations(Clients)
=============================================================================

------------------------------ MODULE MCVision -------------------------------
(* Vision with positions on a line, views two positions wide, and areas of *)
(* one or two neighbouring positions.                                      *)
EXTENDS Vision, TLC

CONSTANTS Length, c1, c2, o1, o2, limbo, p1, p2
Line  == 1 .. Length
Pairs == {{i, i + 1} : i \in 1 .. Length - 1}
Spots == Pairs \cup {{i} : i \in Line}
Symmetry == Permutations(Clients) \cup Permutations(Objects)
                \cup Permutations(Planes \ {PLANE_LIMBO})
=============================================================================

------------------------------ MODULE MCChunks -------------------------------
(* Chunks on two planes that are rows of chunks: the row's neighbour to    *)
(* the left is near, as the three to the left and above are in the code.   *)
EXTENDS Chunks

CONSTANTS Length, p1, p2
Row == 1 .. Length
RowNear == [c \in Row |-> {c - 1, c} \cap Row]
FirstHome == <<p1, 1>>
=============================================================================

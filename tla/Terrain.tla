------------------------------- MODULE Terrain -------------------------------
(***************************************************************************)
(* What terrain_gen.rs and logic/chunks.rs promise to players about one    *)
(* plane, without files, identifiers or the background thread: terrain     *)
(* comes into being once, and after that only edits change it.             *)
(***************************************************************************)
CONSTANTS CPos,        \* the chunks of the plane
          Edits        \* the contents that players and scripts can give one

VARIABLE content       \* "none", "generated" or an edit

Init == content = [c \in CPos |-> "none"]

Generate(c) ==
    /\ content[c] = "none"
    /\ content' = [content EXCEPT ![c] = "generated"]

Edit(c, v) ==
    /\ content[c] # "none"
    /\ content' = [content EXCEPT ![c] = v]

Next == \E c \in CPos : Generate(c) \/ \E v \in Edits : Edit(c, v)

Spec == Init /\ [][Next]_content
=============================================================================

----------------------------- MODULE MCDungeon -----------------------------
(***************************************************************************)
(* A small base graph.  From the entrance at the bottom tunnels start on   *)
(* the left (C1) and on the right (D).  Above them is room for one gem     *)
(* puzzle, at M1 and M2, that can be approached directly from B1 or        *)
(* through X from Y, and beyond it, or in its place, for doors.            *)
(***************************************************************************)
EXTENDS Dungeon

\* Row by row from the top; y points down.
Where ==
    [W |-> <<18, -20>>, V |-> <<24, -10>>,
     U |-> <<6, 0>>, T |-> <<18, 0>>,
     M0 |-> <<0, 10>>, M1 |-> <<12, 10>>, M2 |-> <<24, 10>>,
     B1 |-> <<6, 20>>, B2 |-> <<18, 20>>, B3 |-> <<30, 20>>,
     C0 |-> <<0, 30>>, C1 |-> <<12, 30>>, X |-> <<24, 28>>, Y |-> <<36, 26>>,
     C2 |-> <<24, 40>>, Z |-> <<40, 36>>,
     O |-> <<18, 50>>, D |-> <<30, 50>>]

MCVerts == DOMAIN Where
MCEdges ==
    {{v, w} : v, w \in MCVerts} \cap
    {{"U", "W"}, {"V", "W"}, {"U", "T"}, {"U", "V"}, {"T", "V"}, {"U", "M0"}, {"U", "M1"},
     {"T", "M1"}, {"T", "M2"}, {"M0", "M1"}, {"M1", "M2"}, {"M0", "B1"}, {"M1", "B1"},
     {"M1", "B2"}, {"M2", "B2"}, {"M2", "B3"}, {"B1", "B2"}, {"B2", "B3"},
     {"B1", "C0"}, {"B1", "C1"}, {"B2", "C1"}, {"B2", "X"}, {"B3", "X"},
     {"X", "Y"}, {"Y", "Z"}, {"Z", "D"},
     {"C0", "C1"}, {"C1", "C2"}, {"C1", "O"}, {"C2", "O"}, {"O", "D"}, {"C2", "D"}}

=============================================================================

------------------------------- MODULE MCWalk -------------------------------
(***************************************************************************)
(* Every terrain of two by three tiles made of these columns: a floor, a   *)
(* rock with a floor on it, a ramp (of the only kind the data files can    *)
(* give) that leads up to such a floor, and a floor under a low ceiling.   *)
(* Around them there is nothing.                                           *)
(***************************************************************************)
EXTENDS Walk

Low == <<"Floor", "Empty", "Empty", "Empty">>
Rock == <<"Solid", "Floor", "Empty", "Empty">>
Slope == <<"RampN", "Empty", "Empty", "Empty">>
Cave == <<"Floor", "Empty", "Solid", "Empty">>

MCColumns == {Low, Rock, Slope, Cave}
MCSpawn == <<1, 2>>

=============================================================================

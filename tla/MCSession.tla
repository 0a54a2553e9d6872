------------------------------ MODULE MCSession ------------------------------
(* Two connections of one player's, and a restart.                         *)
EXTENDS Session
=============================================================================

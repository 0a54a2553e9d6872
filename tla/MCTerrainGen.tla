---------------------------- MODULE MCTerrainGen -----------------------------
(* TerrainGen with two chunks.                                             *)
EXTENDS TerrainGen

CONSTANTS c1, c2, e1
TwoChunks == {c1, c2}
OneEdit == {e1}
=============================================================================

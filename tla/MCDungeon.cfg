SPECIFICATION Spec
CONSTANTS
    Verts <- MCVerts
    Pos <- Where
    Edges <- MCEdges
    Origin = "O"
    Counts = {1, 2}
    Lengths = {2}
    Primaries = {0, 2, 4}
INVARIANTS
    Completable
    NoWayRound
CHECK_DEADLOCK FALSE

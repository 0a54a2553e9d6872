SPECIFICATION WalkSpec
CONSTANTS
    TILE_SIZE = 2
    CHUNK_SIZE = 4
    Columns <- MCColumns
    MaxSteps = 8
    Width = 2
    Depth = 3
    Spawn <- MCSpawn
INVARIANTS
    NeverInside
    FeetOnTheGround
PROPERTY WayBack
CHECK_DEADLOCK FALSE

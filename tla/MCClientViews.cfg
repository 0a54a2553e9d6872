\* two players, limbo, the forest and one more plane, and a line of positions
SPECIFICATION Spec
CONSTANTS
    c1 = c1
    c2 = c2
    Clients = {c1, c2}
    limbo = limbo
    forest = forest
    dungeon = dungeon
    StablePlanes = {limbo, forest, dungeon}
    STABLE_PLANE_LIMBO = limbo
    STABLE_PLANE_FOREST = forest
    Length = 4
    Pos <- Line
    Centers <- Middle
    View <- PairView
    Near <- Neighbours
    Start = 1
SYMMETRY Symmetry
INVARIANTS
    UsersAreViews
    NoSurprise
    PawnsPlaced
    ViewFollowsPawn

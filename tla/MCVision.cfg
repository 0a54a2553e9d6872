\* a line of four positions, so that two views may be apart or overlap
SPECIFICATION Spec
CONSTANTS
    c1 = c1
    c2 = c2
    Clients = {c1, c2}
    o1 = o1
    o2 = o2
    Objects = {o1, o2}
    limbo = limbo
    p1 = p1
    p2 = p2
    Planes = {limbo, p1, p2}
    PLANE_LIMBO = limbo
    Length = 4
    Pos <- Line
    Views <- Pairs
    Areas <- Spots
SYMMETRY Symmetry
INVARIANTS
    TablesAgree
    ScreenAgrees
    OneView

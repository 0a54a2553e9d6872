\* each plane a row of three; a panic ends the run
SPECIFICATION Spec
CONSTANTS
    p1 = p1
    p2 = p2
    Planes = {p1, p2}
    Length = 3
    CPos <- Row
    Near <- RowNear
    Home <- FirstHome
    MaxUsers = 2
INVARIANTS
    CountsAgree
    
    
CHECK_DEADLOCK FALSE

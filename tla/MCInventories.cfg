\* counts up to two, so that a request for four is one for one; a panic ends the run
SPECIFICATION Spec
CONSTANTS
    c1 = c1
    Clients = {c1}
    i1 = i1
    i2 = i2
    Ids = {i1, i2}
    wood = wood
    Items = {wood}
    grow = grow
    burn = burn
    Recipes = {grow, burn}
    Inputs <- In
    Outputs <- Out
    U8Max = 2
    Requests = {2, 4}
    Adjusts <- TakeOrGive
    MaxOpen = 2
    MaxQueue = 3
SYMMETRY Symmetry
INVARIANTS
    
    SubscribersTold
    
PROPERTIES
    ItemsConserved
CHECK_DEADLOCK FALSE

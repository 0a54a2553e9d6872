\* a cache of four for three neighbours (nine for nine, in the code), so that a
\* chunk that is not there may push one out, and heights on two steps
SPECIFICATION SeamsSpec
CONSTANTS
    Chunks <- MCChunks
    Seeds = {"x"}
    On <- MCOn
    Trees <- MCTrees
    Crowded <- MCCrowded
    Doors <- MCDoors
    Heights = {99, 100}
    CACHE_LIMIT = 4
    Again <- Far
INVARIANTS
    
    
    EntranceOpens
    StillAround

\* four ids and three answers for two chunks, so that each of them is unloaded
\* and asked for again while the first answer is on its way.  The bound on ids
\* could turn a placeholder that stays into a deadlock; PlaceholdersFilled
\* looks for it instead
SPECIFICATION FairSpec
CONSTANTS
    c1 = c1
    c2 = c2
    CPos <- TwoChunks
    e1 = e1
    Edits <- OneEdit
    MaxId = 4
    MaxInFlight = 3
INVARIANTS
    OwnFile
PROPERTIES
    ImplementsTerrain
    PlaceholdersFilled
CHECK_DEADLOCK FALSE

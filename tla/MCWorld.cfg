SPECIFICATION Spec
CONSTANTS
    Names = {"a"}
    Pos = {0, 1}
    small = small
    large = large
    Templates = {small, large}
    Covers <- Extents
    Most <- Bounds
    MaxStable <- StableBounds
    Pinned = {"inventory"}
    Scripted = {"client"}
    Referred = {"entity"}
    Homes = {2, 3}
CONSTRAINT Small
INVARIANTS
    TreeAgrees
    TablesAgree
    SavedChunksAgree
    AllOrNothing
PROPERTIES
    ReadAsWritten

CONSTANTS
    DpaSpace = 32
    BlockSize = 2
    MaxExtents = 4
    MaxFreeExtents = 4
    Offers <- MCOffers
    Extents <- MCExtents
    Lists <- MCLists
    Liberties = {"more"}
SPECIFICATION Spec
INVARIANTS
    ReclaimOnlyUnused
CHECK_DEADLOCK FALSE

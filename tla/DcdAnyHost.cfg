CONSTANTS
    DpaSpace = 32
    BlockSize = 2
    MaxExtents = 3
    MaxFreeExtents = 3
    Offers <- MCOffers
    Extents <- MCAnyExtents
    Lists <- MCLists
    Liberties <- AnyHost
SPECIFICATION Spec
INVARIANTS
    TypeOK
    AcceptedDisjoint
    AcceptedWithinOffer
    CountMatchesEntries
    LostOnlyWhenFull

    
CHECK_DEADLOCK FALSE

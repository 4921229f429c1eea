CONSTANTS
    DpaSpace = 32
    BlockSize = 2
    MaxExtents = 6
    MaxFreeExtents = 8
    Offers <- MCMixedOffers
    Extents <- MCOrderlyExtents
    Lists <- MCLongLists
    Liberties = {}
    Hosts = {0, 1}
    SharedHosts = {0}
    Tags = {t1, t2, t3}
    MaxTags = 2
    MaxRefs = 2
    Total = 2
    Lengths = {1, 2}
    MaxPending = 1
    FmLiberties = {}
    Entries = {"a", "b", "c"}
    Contents <- MCContents
    Room = 1
    MaxVersions = 3
    NumSlots = 2
    SlotSize = 4
    MaxPiece = 2
    Packages <- MCPackages
    MaxTransfers = 3
    Cap = 3
    PayloadCap = 2
    MaxEvents = 6
    InterruptAt <- SafePlaces
    ReaderLiberties = {"clearAll"}
SPECIFICATION DeviceSpec
INVARIANTS
    CapacityConserved
    SharedAllOrNothing
    TagsTypeOK
    CountsMatchReferences
    KeptWhileUsed
    ReadWhole
    SlotsHoldPackages
    LogTypeOK
    SeenIsFront
PROPERTIES
    LedgerImplemented
    SharingImplemented
    EveryReaderEnds
    TransferEnds
    NothingVanishes
    QueueImplemented
    EventsAreServed
CHECK_DEADLOCK FALSE

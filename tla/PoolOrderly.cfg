CONSTANTS
    Units = 3
    MaxLd = 3
    BankSize = 3
    BramSize = 6
    Requests <- MCRequests
    Grans = {1}
    Liberties = {}
    Writers = {2}
SPECIFICATION Spec
INVARIANTS
    ListsPartition
    Isolation
    MapMatchesLists
    NoForeignData
    BackgroundEnds
PROPERTIES
    RemovesOwnBlocks

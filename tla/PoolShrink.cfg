CONSTANTS
    Units = 4
    MaxLd = 2
    BankSize = 6
    BramSize = 12
    Requests <- MCTwoRequests
    Grans = {1}
    Liberties = {"shrink"}
    Writers = {}
SPECIFICATION Spec
INVARIANTS
    MappedBlocksUsed

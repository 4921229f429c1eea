CONSTANTS
    Units = 2
    MaxLd = 2
    BankSize = 2
    BramSize = 8
    Requests <- MCFewRequests
    Grans = {1, 2}
    Liberties <- BoldFM
    Writers = {}
    Ids = {3}
SPECIFICATION FmSpec
INVARIANTS
    FmTypeOK
    AnswerIsFinal
    GetTellsLists
PROPERTIES
    ActiveMapStable
    FmAnswered

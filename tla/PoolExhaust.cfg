CONSTANTS
    Units = 4
    MaxLd = 4
    BankSize = 5
    BramSize = 10
    Requests <- MCFullRequests
    Grans = {1}
    Liberties = {"exhaust"}
    Writers = {}
SPECIFICATION Spec
INVARIANTS
    Isolation

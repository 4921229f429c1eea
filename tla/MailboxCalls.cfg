CONSTANTS
    MaxNum = 4
    Opcodes <- MCOpcodes
    Requests <- MCWholeReads
    Times = {0, 1}
    Liberties = {}
SPECIFICATION FairSpec
INVARIANTS
    TypeOK
    RingConsistent
PROPERTIES
    CallsImplemented
    CallsAnswered

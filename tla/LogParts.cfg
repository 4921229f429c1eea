CONSTANTS
    MaxNum = 4
    Opcodes <- MCOpcodes
    Requests <- MCAnyReads
    Times = {0, 1}
    Liberties = {"readParts"}
SPECIFICATION Spec
PROPERTIES
    ReadIsExact

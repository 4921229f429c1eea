CONSTANTS
    Cap = 3
    PayloadCap = 2
    MaxEvents = 3
    InterruptAt <- AnyPlace
    ReaderLiberties = {}
SPECIFICATION LogSpec
PROPERTIES
    NothingVanishes

CONSTANTS
    Cap = 3
    PayloadCap = 2
    MaxEvents = 3
    InterruptAt <- SafePlaces
    ReaderLiberties = {}
SPECIFICATION LogSpec
INVARIANTS
    StatusTellsHost

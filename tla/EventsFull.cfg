CONSTANTS
    Cap = 3
    PayloadCap = 2
    MaxEvents = 4
    InterruptAt <- SafePlaces
    ReaderLiberties = {"readOn"}
SPECIFICATION LogSpec
INVARIANTS
    SentOnce

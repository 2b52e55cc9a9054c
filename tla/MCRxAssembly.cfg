SPECIFICATION FairSpec
CONSTANTS
    A = A
    B = B
    C = C
    Station <- Stations
    Offsets <- Together
    Compound = {A}
    RxThreshold = 1
    Minutes = {4, 8}
    MaxText = 2
    MaxMessages = 2
    MaxLost = 1
    Words <- OneWord
INVARIANTS
    HandledWasSent
    SteadyArrives
PROPERTIES
    BuffersClose

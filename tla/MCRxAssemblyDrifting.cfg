SPECIFICATION Spec
CONSTANTS
    A = A
    B = B
    C = C
    Station <- Turns
    Offsets <- Wandering
    Compound = {A}
    RxThreshold = 1
    Minutes = {4, 8}
    MaxText = 2
    MaxMessages = 2
    MaxLost = 0
    Words <- OneWord
INVARIANTS
    DriftingArrives

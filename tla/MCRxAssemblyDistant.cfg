SPECIFICATION Spec
CONSTANTS
    A = A
    B = B
    C = C
    Station <- Distant
    Offsets <- Apart
    Compound = {A}
    RxThreshold = 1
    Minutes = {8}
    MaxText = 1
    MaxMessages = 2
    MaxLost = 0
    Words <- OneWord
INVARIANTS
    AllArrive

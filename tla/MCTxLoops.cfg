SPECIFICATION Spec
CONSTANTS
    Submodes <- MCSubmodes
    Period <- MCPeriod
    HbSubmodes <- MCHbSubmodes
    Intervals <- MCIntervals
    ApiIntervals <- MCApi
    Delays <- MCDelays
    Drifts <- ClockAhead
    ApiEnabled = TRUE
    PastFires = FALSE
    MaxTime = 18
    MaxLate = 1
    MaxInputs = 3
    MaxBoxes = 2
INVARIANTS
    TypeOK
    OneLoop
    StartsWithSlot
    NextIsNear
PROPERTIES
    TriggerKeepsItsLoop
    TransmissionsAreSpaced

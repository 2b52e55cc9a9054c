SPECIFICATION Spec
CONSTANTS
    Submodes <- MCSubmodes
    Period <- MCPeriod
    HbSubmodes <- MCHbSubmodes
    Intervals <- MCIntervals
    ApiIntervals <- MCApi
    Delays <- MCDelays
    Drifts <- NoDrift
    ApiEnabled = TRUE
    PastFires = FALSE
    MaxTime = 20
    MaxLate = 1
    MaxInputs = 3
    MaxBoxes = 2
INVARIANT
    LoopsKnowTheSpeed

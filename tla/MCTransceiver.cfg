SPECIFICATION Spec
CONSTANTS
    Freq <- Dials
    Tuned = 100
    Xit = 10
    SplitModes <- Rigs
    QsyAllowed = FALSE
    PollsToStabilize = 2
    ReleaseFails = FALSE
    MaxQueued = 0
    MaxUpdates = 1
    MaxQsys = 1
    MaxTroubles = 1
INVARIANTS
    OfflineIsReceiving
    SettledAgrees
PROPERTIES
    KeyedOnTxFrequency
    ImplementsPttSwitch

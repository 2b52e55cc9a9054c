SPECIFICATION Spec
CONSTANTS
    Freq <- Dials
    Tuned = 100
    Xit = 10
    SplitModes = {"rig"}
    QsyAllowed = TRUE
    PollsToStabilize = 2
    ReleaseFails = FALSE
    MaxQueued = 0
    MaxUpdates = 1
    MaxQsys = 1
    MaxTroubles = 0
INVARIANT
    NewestAsksForNominal

SPECIFICATION FairSpec
CONSTANTS
    Freq = {100}
    Tuned = 100
    Xit = 10
    SplitModes <- Rigs
    QsyAllowed = FALSE
    PollsToStabilize = 2
    ReleaseFails = FALSE
    MaxQueued = 0
    MaxUpdates = 1
    MaxQsys = 0
    MaxTroubles = 1
PROPERTIES
    PttGoesOff
    FailureIsHandled

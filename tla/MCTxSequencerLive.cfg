SPECIFICATION FairSpec
CONSTANTS
    HoldPtt <- Either
    MaxFrames = 2
    MaxHalts = 1
    MaxChanges = 0
    MayRestart = TRUE
    MayIdle = TRUE
PROPERTIES
    PttGoesOff
    MessageEnds
    MessagesGoOut

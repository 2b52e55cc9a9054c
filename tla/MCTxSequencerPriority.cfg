SPECIFICATION Spec
CONSTANTS
    HoldPtt <- Either
    MaxFrames = 2
    MaxHalts = 0
    MaxChanges = 0
    MayRestart = FALSE
    MayIdle = FALSE
PROPERTIES
    HighPriorityFirst

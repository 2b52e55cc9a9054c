SPECIFICATION Spec
CONSTANTS
    HoldPtt <- Either
    MaxFrames = 3
    MaxHalts = 1
    MaxChanges = 0
    MayRestart = TRUE
    MayIdle = FALSE
INVARIANTS
    KeyedIsOnAir

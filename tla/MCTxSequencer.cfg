SPECIFICATION Spec
CONSTANTS
    HoldPtt <- Either
    MaxFrames = 3
    MaxHalts = 1
    MaxChanges = 1
    MayRestart = FALSE
    MayIdle = FALSE
INVARIANTS
    KeyedIsTransmitting
    PttIsAccountedFor
    AudioOnlyWithPtt
    KeyedIsOnAir
    LockedIsBeingSent
PROPERTIES
    NoFrameIsSkipped
    SendsWhatIsTyped

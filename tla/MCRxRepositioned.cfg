SPECIFICATION Spec
CONSTANTS
    Size = 8
    OneSecond = 1
    Submodes <- MCSubmodes
    CycleFrames <- ShortCycleFrames
    CycleNeeded <- ShortCycleNeeded
    TurboOrUltra <- MCTurboOrUltra
    AutoSyncable <- MCAutoSyncable
    StartKin <- ShortStartKin
    StartOptions <- FastOptions
    Positions <- ShortPositions
    MaxLag = 1
    MaxMinute = 2
    WrapSlack = 0
    MaxChanges = 1
    MayDrift = TRUE
INVARIANTS
    TypeOK
    DecoderToken
    RangesFit
    PromptRangeIsIntact
PROPERTIES
    ImplementsService

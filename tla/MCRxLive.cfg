SPECIFICATION FairSpec
CONSTANTS
    Size = 8
    OneSecond = 1
    Submodes <- MCSubmodes
    CycleFrames <- ShortCycleFrames
    CycleNeeded <- ShortCycleNeeded
    TurboOrUltra <- MCTurboOrUltra
    AutoSyncable <- MCAutoSyncable
    StartKin <- ShortStartKin
    StartOptions <- FastOptions
    Positions <- ShortPositions
    MaxLag = 1
    MaxMinute = 2
    WrapSlack = 0
    MaxChanges = 0
    MayDrift = FALSE
PROPERTIES
    DecoderBecomesFree
    QuitCompletes

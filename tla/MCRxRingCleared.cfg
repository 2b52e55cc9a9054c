SPECIFICATION Spec
CONSTANTS
    Size = 12
    OneSecond = 1
    Submodes <- MCSubmodes
    CycleFrames <- MCCycleFrames
    CycleNeeded <- MCCycleNeeded
    TurboOrUltra <- MCTurboOrUltra
    AutoSyncable <- MCAutoSyncable
    StartKin <- MCStartKin
    StartOptions <- AllOptions
    Positions <- MCPositions
    MaxLag = 2
    MaxMinute = 2
    WrapSlack = 1
    MaxChanges = 0
    MayDrift = FALSE
INVARIANT
    RingKeepsThePreviousMinute

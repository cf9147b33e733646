SPECIFICATION FairSpec
CONSTANTS
    LastSlot = 2
    LastProp = 2
    Data <- MCData
    NameData <- MCNames
    Content <- MCContent
    Writes <- MCWrites
    Adjusts <- MCAdjusts
    Stray <- MCStray
    MaxCalls = 2
INVARIANTS
    TypeOK
    SlotRestored
    ScanTrue
    ScanWhole
    VerifiedWrite
PROPERTIES
    OtherPresetsKept
    PresetCallEnds
CHECK_DEADLOCK FALSE

SPECIFICATION Spec
CONSTANTS
    Values <- MCValues
    Names <- MCNames
    Numbers <- MCNumbers
    Infos <- MCInfos
    Profiles <- MCProfiles
    Edits <- MCEdits
    Presets <- MCPresets
    Bases <- MCBases
    Bytes = {0, 1, 2, 3, 4, 216}
    MaxBytes = 6
    Runes = {0, 65, 65533, 128512}
    MaxRunes = 3
    LongNames = {126, 127, 128, 253, 254, 255, 256, 257, 511}
INVARIANTS
    PanicsOneShort
    NamesComeBack
    NumbersComeBack
    InfoComesBack
    PatchKeepsRest
    PatchReadsBack
    UIComesBack
    BaseKept
CHECK_DEADLOCK FALSE

CONSTANTS
    HalfWord = 128
    Users = {1, 2}
    Owner = 1
    TextLength = 1
    OwnerEdits = 1
    OtherEdits = 1
    InitialText <- MCInitialText
    HistoryLimits = {100}
    Removals = {0, 1}
    Additions = {1}
    MaxEdits <- MCMaxEdits
    MaxShares = 1
    MaxCloses = 0
    MaxFaults = 0
SPECIFICATION Spec
INVARIANTS
    SettledWhenQuiet
CHECK_DEADLOCK FALSE

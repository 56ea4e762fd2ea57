CONSTANTS
    HalfWord = 128
    Users = {1, 2, 3}
    Owner = 1
    TextLength = 2
    OwnerEdits = 1
    OtherEdits = 1
    InitialText <- MCInitialText
    HistoryLimits = {100}
    Removals = {1, 2}
    Additions = {0}
    MaxEdits <- MCMaxEdits
    MaxShares = 1
    MaxCloses = 0
    MaxFaults = 0
SPECIFICATION Spec
INVARIANTS
    LocalView
    Convergence
CHECK_DEADLOCK FALSE

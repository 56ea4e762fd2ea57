CONSTANTS
    HalfWord = 128
    Users = {1, 2}
    Owner = 1
    TextLength = 5
    OwnerEdits = 3
    OtherEdits = 2
    InitialText <- MCInitialText
    HistoryLimits = {100}
    Removals = {0, 1, 2}
    Additions = {0, 1}
    MaxEdits <- MCMaxEdits
    MaxShares = 0
    MaxCloses = 0
    MaxFaults = 0
SPECIFICATION StorySpec
INVARIANTS
    Convergence
CHECK_DEADLOCK FALSE

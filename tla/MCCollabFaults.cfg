CONSTANTS
    HalfWord = 128
    Users = {1, 2}
    Owner = 1
    TextLength = 1
    OwnerEdits = 1
    OtherEdits = 1
    InitialText <- MCInitialText
    HistoryLimits = {1}
    Removals = {0, 1}
    Additions = {1}
    MaxEdits <- MCMaxEdits
    MaxShares = 0
    MaxCloses = 1
    MaxFaults = 1
SPECIFICATION FairSpec
INVARIANTS
    LocalView
    Convergence
    NoGaps
PROPERTIES
    EventuallyConsistent
    LeaversForgotten
CHECK_DEADLOCK FALSE

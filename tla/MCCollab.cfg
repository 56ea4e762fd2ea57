CONSTANTS
    HalfWord = 128
    Users = {1, 2}
    Owner = 1
    TextLength = 2
    OwnerEdits = 2
    OtherEdits = 1
    InitialText <- MCInitialText
    HistoryLimits = {100}
    Removals = {0, 1, 2}
    Additions = {0, 1}
    MaxEdits <- MCMaxEdits
    MaxShares = 0
    MaxCloses = 0
    MaxFaults = 0
SPECIFICATION Spec
INVARIANTS
    TypeOK
    ControllerStates
    LocalView
    Convergence
    NoGaps
    AckMatchesPending
    OneInFlight
PROPERTIES
    ImplementsSharedLog
CHECK_DEADLOCK FALSE

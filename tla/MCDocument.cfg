CONSTANTS
    HalfWord = 128
    Users = {1, 2}
    InitialText <- MCInitialText
    HistoryLimits = {1, 10}
    Insertions <- MCInsertions
    MaxRevision = 3
    MaxIncoming = 1
SPECIFICATION Spec
INVARIANTS
    TypeOK
    HistoryWindow
    HistoryReplays
PROPERTIES
    AuthorAgrees
CHECK_DEADLOCK FALSE

SPECIFICATION Spec
CONSTANTS
    Ids = {1}
    Objects = {1, 2}
    Instances = {1}
    SnapshotThreshold = 2
    MaxOps = 2
    MaxOpenFailures = 1
    MaxEnds = 1
INVARIANTS
    FilesHoldWholeTexts
    CleanMeansSaved
    GracefulStopSaves
    LockHolderGoesOn
PROPERTIES
    DirtyGetsSaved
CHECK_DEADLOCK FALSE

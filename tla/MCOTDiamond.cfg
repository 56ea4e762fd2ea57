CONSTANTS
    HalfWord = 128
    MaxLength = 5
    Texts <- MCTexts
SPECIFICATION Spec
INVARIANTS
    BothPathsConverge
    MergesIntentions
    CursorKeepsPlace
CHECK_DEADLOCK FALSE

SPECIFICATION FairSpec
CONSTANTS
    Texts <- MCTexts
    Engines <- MCUrlAlone
INVARIANTS
    NeverPanics
CHECK_DEADLOCK FALSE

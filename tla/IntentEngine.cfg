SPECIFICATION FairSpec
CONSTANTS
    Texts <- MCTexts
    Engines <- MCEngines
INVARIANTS
    IntentTypeOK
    KeptAreDisjoint
    ResolvedByTheRules
    MarkedAtItsSpans
PROPERTIES
    EveryStepCounts
    MarkReturns
CHECK_DEADLOCK FALSE

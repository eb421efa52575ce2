SPECIFICATION FairSpec
CONSTANTS
    Builds = {b1, b2, b3}
    Loads = {l1}
    Tags = {b1, b2, b3}
    TagOf <- MCTagOf
INVARIANTS
    TypeOK
    PublishedWhole
    LatestNamesManifest
PROPERTIES
    MissOnlyBeforePublication
    ServedAfterOk
    ImplementsRegister

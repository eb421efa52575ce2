SPECIFICATION BundleSpec
CONSTANTS
    Bundles <- MCBundles
    IndexedBundles <- MCIndexedBundles
    LinkSets <- MCLinkSets
    HandMade <- MCHandMade
    Messages <- MCMessages
    CandidateLimit = 2
    MinConfidence = 30
    Longest = 3
    Unit = 6
    BundleName = 2
    ParentName = 3
    Unparsable = Unparsable
    NoTitle = NoTitle
    Clean <- MCClean
    Bytes <- MCBytes
    StopWords = {3}
INVARIANTS
    DocumentedCopyIsServed

SPECIFICATION PathSpec
CONSTANTS
    Builds = {b1, b2}
    Loads = {l1}
    Caller = l1
    Tags = {b1, b2}
    TagOf <- MCTagOf
    Packs = {p1}
    MaxInFlight = 1
    Requests <- MCRequests
    Targets = {p1, ghost}
    Confidence = {0, 1}
    MaxElapsed = 0
    Lower <- MCLower
    Character <- MCCharacter
    Alphanumeric <- MCAlphanumeric
    EndpointPrefix <- MCEndpointPrefix
    MaxEndpointId = 2
    MaxScope = 4
    LinkedOut <- MCLinkedOut
    Endpoint <- MCEndpoint
    Hooks <- MCHooks
    Garbage = Garbage
    NoFile = NoFile
    DefaultConfidence = 1
    DefaultLimit = 20
    DefaultPolicyPath = "default"
    PolicyFiles <- MCPolicyFiles
    Environments <- MCEnvironments
    Matches <- MCMatches
    NoRules <- MCNoRules
    MaxInstalls = 2
SYMMETRY BuildSymmetry
CHECK_DEADLOCK FALSE
INVARIANTS
    DeniedEarly

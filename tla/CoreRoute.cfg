SPECIFICATION RouteFairSpec
CONSTANTS
    f1 = f1
    f2 = f2
    ghost = ghost
    Requests <- MCRequests
    Targets <- MCTargets
    Confidence <- MCConfidence
    MaxElapsed = 3
CHECK_DEADLOCK FALSE
INVARIANTS
    RouteTypeOK
    FilterVerdictIsFinal
    DispatchIsEarned
    LateByOwnWorkOnly
PROPERTIES
    LlmFailsOpen
    EveryRequestAnswered

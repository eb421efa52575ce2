SPECIFICATION Spec
CONSTANTS
    p = p
    q = q
    a = a
    b = b
    t = t
    u = u
    Deploys = {d1, d2}
    Runs = {r1}
    FlowLists <- MCFlowLists
    Teams <- MCTeams
    Queries <- MCQueries
    BlockLists <- MCBlockLists
    Thresholds = {70, 100}
    MaxResults = {1, 5}
    MaxScore = 3
SYMMETRY DeploySymmetry
INVARIANTS
    PackTypeOK
    BlockedNeverReached
    DeniedOnlyIfAllBlocked
    DispatchIsIndexed
    SoleMatchIsDispatched
CHECK_DEADLOCK FALSE

SPECIFICATION PolicySpec
CONSTANTS
    Fields <- MCFields
    Base <- MCBase
    Policies <- MCPolicies
    Requests <- MCRequests
    ValidValue <- MCValidValue
    Rendered <- MCRendered
    Lower <- MCLower
CHECK_DEADLOCK FALSE
INVARIANTS
    StrongestOverrideWins
    WarnedIffOverwritten
    PolicySettingsValid

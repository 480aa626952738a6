SPECIFICATION Spec
CONSTANTS
    MaxInvocations = 2
    Policies <- AllPolicies
INVARIANTS
    ReportsNameACulprit
    ReadMeansConnected
PROPERTY InvocationsReturn
CHECK_DEADLOCK FALSE

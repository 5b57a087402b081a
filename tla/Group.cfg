CONSTANTS
    NoGroup = NoGroup
    Idle = Idle
    Peers = {1, 2, 3}
    Owner = 2
    MaxOps = 2
    MaxMembers = 3
    MaxRevocations = 3
    InitialMembers = {1, 2, 3}
    InitialAdmins = {1,3}
    Aliases = {1}
    MayLeave = {3}
    Rejoin = TRUE
    Overlapping = {3}
    Delayed = {3}
    Churn <- MCChurn
    MaxNet = 1
SPECIFICATION Spec
INVARIANTS TypeOK OnlyOwnerDelegates CertifiedRemovals OwnersRevisionNamesContent
PROPERTIES RemoveWins
CHECK_DEADLOCK FALSE

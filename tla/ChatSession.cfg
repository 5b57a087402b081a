SPECIFICATION FairSpec
CONSTANTS
    MaxSessions = 2
    MaxLinks = 2
    MaxChanges = 1
    MaxFaults = 1
    MaxInFlight = 2
    LateJoin = FALSE
INVARIANTS
    OnlyProvenMembersOpen
    NothingLeftBehind
PROPERTIES
    SessionSettles
CHECK_DEADLOCK FALSE

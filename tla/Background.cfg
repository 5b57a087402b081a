SPECIFICATION FairSpec
CONSTANTS
    Channels = {1, 2}
    Groups = {11}
    Friends = {21, 22}
    MaxChannels = 1
    MaxGroups = 1
    MaxPrivate = 1
    Slots = {1, 2, 3, 4}
    MaxCalls = 3
    MaxFaults = 2
    SerialPrivate = TRUE
INVARIANTS
    SessionsAccountedFor
PROPERTIES
    Converges
CHECK_DEADLOCK FALSE

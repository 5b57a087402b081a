SPECIFICATION FairSpec
CONSTANTS
    film = film
    risk = risk
    Apps <- MCApps
    Risk <- MCRisk
    Channels <- MCChannels
    MaxRequests = 2
    MaxChanges = 1
    MaxFaults = 1
INVARIANTS
    MixIsClean
    NoStrayLoopback
PROPERTIES
    EveryAppIsMixed
CHECK_DEADLOCK FALSE

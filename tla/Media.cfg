SPECIFICATION Spec
CONSTANTS
    MaxCalls = 2
    MaxAsked = 3
    MaxFaults = 2
    Serial = TRUE
INVARIANTS
    NothingLeftRunning
    PeersGetWhatIsTold
PROPERTIES
    ShareStopsForCause
CHECK_DEADLOCK FALSE

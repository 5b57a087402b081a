SPECIFICATION Spec
CONSTANTS
    j1 = j1
    j2 = j2
    Joiners = {j1, j2}
    Creator = creator
    NoPeer = nopeer
    Scenes <- MCScenes
    StorageFails = TRUE
INVARIANTS
    TypeOK
    MutualConsent
    AcceptedIsPersisted
PROPERTIES
    EndedStaysEnded
    EventuallyReleased
\* a session ends: the system stops
CHECK_DEADLOCK FALSE

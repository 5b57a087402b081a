\* Two members and one disturbance of any kind.
SPECIFICATION FairSpec
CONSTANTS
  Peers = {2, 3}
  Me = 1
  SlowContext = FALSE
  Capacity = 3
  MaxJoins = 2
  MaxFaults = 1
INVARIANTS
    MediaIsEarned
    ConnectionsReleased
PROPERTIES
    MediaGranted
CHECK_DEADLOCK FALSE

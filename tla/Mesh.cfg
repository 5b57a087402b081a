\* A pair of peers with one disturbance of any kind or one change of the published tracks.
SPECIFICATION FairSpec
CONSTANTS
  Publishing = {1}
  MaxFaults = 1
INVARIANTS
    ConnectionsAreSound
PROPERTIES
    PairConverges
CHECK_DEADLOCK FALSE

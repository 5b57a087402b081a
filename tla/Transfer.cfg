\* Two transfers of a file of two chunks, one intervention or fault of any kind.
SPECIFICATION FairSpec
CONSTANTS
  Chunks <- TwoChunks
  Setups <- ThreeSetups
  MaxTransfers = 2
  MaxIncoming = 1
  MaxQueue = 2
  AnyoneResumes = FALSE
  MaxFaults = 1
INVARIANTS
    DiskIsAccountedFor
PROPERTIES
    Delivers
    Completes
CHECK_DEADLOCK FALSE

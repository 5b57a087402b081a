SPECIFICATION Spec
CONSTANTS
    Peers = {1, 2}
    Messages = {2}
    Events = {1, 3}
    Author <- MCAuthor
    Starts <- MCStarts
    NoRequest = NoRequest
    PageSize = 1
    ChunkSize = 1
    MaxBuffer = 3
    MayExpire = {2}
    MaxFaults = 1
INVARIANTS
    DeliveredOrQueued
    HistoryComplete
PROPERTIES
    EventuallyDelivered

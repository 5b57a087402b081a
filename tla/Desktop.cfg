SPECIFICATION FairSpec
CONSTANTS
    MaxAttempts = 2
    MaxSpawns = 4
    MaxCrashes = 1
    MaxFailures = 2
    QuietAfter = 1
    t1 = t1
    t2 = t2
    film = film
    song = song
    Transfers <- MCTransfers
    ContentOf <- MCContentOf
    ChunksOf <- MCChunksOf
    SizeOf <- MCSizeOf
    Legacy <- MCLegacy
    Quota = 1
    AtOnce = 2
    Apart = TRUE
    Resumes = {"prepare"}
    r1 = r1
    r2 = r2
    r3 = r3
    Requests = {r1, r2, r3}
    For <- MCFor
    Uses <- MCUses
    Stale = {t1}
    Corrupt <- MCCorrupt
INVARIANTS
    BackendAttended
    ReservationsFit
    ContentIsWhole
PROPERTIES
    MarkedChunksArrived
    BackendReturns
CHECK_DEADLOCK FALSE

\* A streamed request that names its slot, and a plain one that continues it.
SPECIFICATION FairSpec
CONSTANTS
    r1 = r1
    r2 = r2
    Requests = {r1, r2}
    Streams = {r1}
    Naming = {r1}
    Prompt <- FollowUp
    KvSlots = 2
    MaxQueue = 1
    MaxChunks = 2
CHECK_DEADLOCK FALSE
INVARIANTS TypeOK OwnAnswer BetweenTurns GoesBackToItsRows OnlyErrorsInterleave DoneIsLast
PROPERTIES TurnsEnd

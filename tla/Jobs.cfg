SPECIFICATION Spec
CONSTANTS
    laser = laser
    inkjet = inkjet
    Dests <- TwoDests
    Sizes <- ChunkBoundaries
    MaxSize = 4
    ChunkSize = 2
    Statuses <- AnyOk
    LostReplies = TRUE
    MaxCalls = 4
INVARIANTS TypeOK HandlesAreJobs AcknowledgedWhole OnlyNulLeaks
PROPERTY ImplementsService
CHECK_DEADLOCK FALSE

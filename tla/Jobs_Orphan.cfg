SPECIFICATION Spec
CONSTANTS
    laser = laser
    inkjet = inkjet
    Dests <- OneDest
    Sizes <- OneSize
    MaxSize = 4
    ChunkSize = 2
    Statuses <- AnyOk
    LostReplies = FALSE
    MaxCalls = 2
INVARIANTS EveryJobHasAHandle
CHECK_DEADLOCK FALSE

SPECIFICATION Spec
CONSTANTS
    first = first
    second = second
    laser = laser
    inkjet = inkjet
    duplex = duplex
    A4 = A4
    None = None
    NoValue = NoValue
    Owners <- TwoOwners
    Names <- TwoNames
    Instances <- Duplex
    Rank <- Sorted
    Values <- OneValue
    MaxCalls = 5
SYMMETRY Owner
INVARIANTS TypeOK CountIsExact FoundOncePerVisit OneDefault
PROPERTY SavesKeepOthers
CHECK_DEADLOCK FALSE

SPECIFICATION Spec
CONSTANTS
    main = main
    worker = worker
    custom = custom
    Default = Default
    Unset = Unset
    Threads <- TwoThreads
    Values <- TwoValues
    MaxSets = 3
    MaxGuards = 2
INVARIANTS Restored
CHECK_DEADLOCK FALSE

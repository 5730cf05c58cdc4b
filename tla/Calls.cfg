SPECIFICATION Spec
CONSTANTS
    t1 = t1
    t2 = t2
    c1 = c1
    s1 = s1
    s2 = s2
    p1 = p1
    p2 = p2
    p3 = p3
    None = None
    NULL = NULL
    Threads <- TwoThreads
    Kinds <- TwoKinds
    Callbacks <- OneCallback
    Strings <- TwoStrings
    Pointers <- ThreePointers
    MaxCalls = 4
    MaxSets = 2
SYMMETRY Symmetry
CHECK_DEADLOCK FALSE
INVARIANTS TypeOK RegisteredIffStored RunningIsStored PasswordsKept HeapOwned

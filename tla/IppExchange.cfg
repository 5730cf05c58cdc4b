SPECIFICATION Spec
CONSTANTS
    h1 = h1
    h2 = h2
    m1 = m1
    m2 = m2
    m3 = m3
    state = state
    Uri = Uri
    laser = laser
    inkjet = inkjet
    NULL = NULL
    PrintJob = PrintJob
    GetPrinterAttributes = GetPrinterAttributes
    Headers <- TwoOperations
    Https <- TwoHttps
    Messages <- ThreeMessages
    Attributes <- TwoAttributes
    Servers <- TwoServers
SYMMETRY Pointers
INVARIANTS TypeOK ConnectionsOwned MessagesOwned
PROPERTY KnownOptionsKept ImplementsCalls

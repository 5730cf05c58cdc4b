SPECIFICATION FairSpec
CONSTANTS
    Handles = {browser, resolver, query}
    Clones = {dnssd, copy}
    None = None
INVARIANTS
    TypeOK
    CallbackStateAlive
    ContextOutlivesHandles
    ContextReleased
PROPERTIES
    DropsFinish
\* A program that has dropped everything is done with DNS-SD.
CHECK_DEADLOCK FALSE

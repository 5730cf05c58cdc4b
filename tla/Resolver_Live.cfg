SPECIFICATION FairSpec
CONSTANTS
    a4 = a4
    a6 = a6
    b4 = b4
    None = None
    Hostnames <- MCHostnames
    NormalizedName <- MCNormalizedName
    Services <- RoamingServices
    Pool <- RoamingPool
    IPv4 <- MCIPv4
    IPv6 <- MCIPv6
    StartOutcomes <- BothStart
    MaxAnnouncements = 3
    MaxChanges = 1
INVARIANTS OwnAddressesOnly SettledKnows TrueUntilChanged
PROPERTIES EveryAddressReported ImplementsUpdates

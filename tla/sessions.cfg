CONSTANTS
    a1 = a1
    a2 = a2
    IPs <- TwoAddresses
    RateLimit = 2
    FlagThreshold = 5
    MaxRequests = 7
SPECIFICATION Spec
INVARIANTS
    SessionsTypeOK
    HourlyLimit
    LifetimeLimit

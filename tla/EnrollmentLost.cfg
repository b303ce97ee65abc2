SPECIFICATION RegistrySpec
CONSTANTS
    Server = {s1}
    Host = {h1, h2}
    MaxTries = 2
    MaxDrawn = 3
    MaxRequests = 3
    MaxMishaps = 1
CHECK_DEADLOCK FALSE
INVARIANT
    DiscardedWasNeverAccepted

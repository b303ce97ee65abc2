SPECIFICATION RegistrySpec
CONSTANTS
    Server = {s1}
    Host = {h1, h2}
    MaxTries = 2
    MaxDrawn = 3
    MaxRequests = 3
    MaxMishaps = 2
SYMMETRY HostSymmetry
CHECK_DEADLOCK FALSE
INVARIANTS
    OneActiveCredential
PROPERTIES
    EnrolledKeepsCredential

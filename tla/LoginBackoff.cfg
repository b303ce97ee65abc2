SPECIFICATION Spec
CONSTANTS
    PairLimit = 1
    ClientLimit = 1
    BackoffFrom = 2
    FailureCap = 3
    Window = 2
    BaseDelay = 2
    MaxRows = 12
    None = None
    Client = {c1, c2}
    Name = {admin, guest}
    Admin = admin
    Request = {r1, r2}
    SessionLimit = 1
    Idle = 2
    Absolute = 3
    TouchInterval = 1
    MaxRevision = 2
    MaxSessions = 2
    MaxRotations = 1
    MaxAttempts = 4
    MaxTime = 3
    MaxEvents = 7
SYMMETRY LoginSymmetry
CHECK_DEADLOCK FALSE
PROPERTY RefusedForCause

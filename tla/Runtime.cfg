SPECIFICATION Spec
CONSTANTS
    Admin = {a1, a2}
    Job = {j1}
    Variable = {v1, v2}
    Setting = {s1, s2}
    None = None
    MaxRevision = 2
    MaxVersions = 3
    MaxChanges = 2
    MaxAttempts = 2
SYMMETRY RuntimeSymmetry
CHECK_DEADLOCK FALSE
INVARIANTS
    RetryRepeatsFirst
    DeliveredWhole
PROPERTIES
    FrozenConfigIsCurrent
    FreshEditReplacesWhatItShowed
    CondemnedNeverRead

SPECIFICATION Spec
CONSTANTS
    Admin = {a1, a2}
    Job = {j1}
    Variable = {v1}
    Setting = {s1, s2}
    None = None
    MaxRevision = 2
    MaxVersions = 1
    MaxChanges = 1
    MaxAttempts = 1
CHECK_DEADLOCK FALSE
PROPERTY EditReplacesWhatWasShown

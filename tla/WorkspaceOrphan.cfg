SPECIFICATION Spec
CONSTANTS
    Client = {c1}
    MaxProject = 3
    MaxFaults = 2
    Operations = 2
INVARIANT
    NeverOrphaned

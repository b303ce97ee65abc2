SPECIFICATION Spec
CONSTANTS
    Client = {c1}
    MaxProject = 2
    MaxFaults = 2
    Operations = 1
INVARIANT
    RestartIsSurvivable

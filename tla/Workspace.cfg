SPECIFICATION FairSpec
CONSTANTS
    Client = {c1}
    MaxProject = 3
    MaxFaults = 2
    Operations = 2
INVARIANTS
    LedgerAccounts
    FilesAreCounted
    HolderKeepsWorkspace
PROPERTIES
    CheckoutEnds

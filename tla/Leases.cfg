SPECIFICATION Spec
CONSTANTS
  j1 = j1
  j2 = j2
  e1 = e1
  e2 = e2
  s1 = s1
  None = None
  Job <- TwoJobs
  Env = {e1}
  Server = {s1}
  EnvironmentOf <- SharedEnvironment
  ServerOf <- SharedServer
  MaxAttempts = 2
  MaxRevision = 0
  AgentReport = {"success"}
SYMMETRY JobSymmetry
CHECK_DEADLOCK FALSE
INVARIANTS
    TypeInvariant
    LeaseOwnsSlot
    FencesUnique
    UnresolvedOwnsEnvironment
    RowsAgree
    RecoveryNeverRefused
PROPERTIES
    ClosedStaysClosed
    RefinesFencedEnvironment

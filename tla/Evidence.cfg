SPECIFICATION FairSpec
CONSTANTS
  j1 = j1
  j2 = j2
  e1 = e1
  e2 = e2
  s1 = s1
  None = None
  Job <- OneJob
  Env = {e1}
  Server = {s1}
  EnvironmentOf <- OneJobsEnvironment
  ServerOf <- OneJobsServer
  MaxAttempts = 2
  MaxRevision = 2
  AgentReport = {"success", "mismatch", "failure"}
CHECK_DEADLOCK FALSE
INVARIANTS
  CancelledNeverActivates
  FlagResolvable
PROPERTIES
  OutcomeIsDeclaredOnce
  RouteMovesUnderFence
  EvidenceNeverLost
  LapsedLeaseRecovered

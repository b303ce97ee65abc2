SPECIFICATION Spec
CONSTANTS
  j1 = j1
  j2 = j2
  e1 = e1
  e2 = e2
  s1 = s1
  None = None
  Job <- TwoJobs
  Env = {e1, e2}
  Server = {s1}
  EnvironmentOf <- ApartEnvironments
  ServerOf <- SharedServer
  MaxAttempts = 2
  MaxRevision = 0
  AgentReport = {"success"}
CHECK_DEADLOCK FALSE
INVARIANTS
  UnresolvedOwnsEnvironment
  FlagResolvable
PROPERTIES
  RefinesFencedEnvironment

SPECIFICATION CancelFairSpec
CONSTANTS
  j1 = j1
  j2 = j2
  e1 = e1
  e2 = e2
  s1 = s1
  None = None
  Job <- OneJob
  Env = {e1}
  Server = {s1}
  EnvironmentOf <- OneJobsEnvironment
  ServerOf <- OneJobsServer
  MaxAttempts = 2
  MaxRevision = 0
  AgentReport = {"success"}
CHECK_DEADLOCK FALSE
PROPERTIES
  CancellationEnds

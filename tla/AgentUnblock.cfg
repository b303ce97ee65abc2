SPECIFICATION AgentFairSpec
CONSTANTS
  e1 = e1
  e2 = e2
  h1 = h1
  h2 = h2
  None = None
  Missing = Missing
  Garbage = Garbage
  Env = {e1}
  Holder = {h1, h2}
  MaxRenewals = 1
  MaxDamage = 0
CHECK_DEADLOCK FALSE
PROPERTIES
  ReconciliationUnblocks

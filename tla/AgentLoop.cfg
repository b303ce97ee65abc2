SPECIFICATION AgentFairSpec
CONSTANTS
  e1 = e1
  e2 = e2
  h1 = h1
  h2 = h2
  None = None
  Missing = Missing
  Garbage = Garbage
  Env = {e1, e2}
  Holder = {h1, h2}
  MaxRenewals = 2
  MaxDamage = 1
CHECK_DEADLOCK FALSE
INVARIANTS
    LoadRemembers
    OnlyLostLeasesAreGivenUp
PROPERTIES
    NoLeaseIsKeptForever

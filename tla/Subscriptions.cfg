SPECIFICATION FairSpec
CONSTANTS
  a = a
  b = b
  other = other
  h1 = h1
  h2 = h2
  None = None
  Accounts <- MCAccounts
  References <- MCReferences
  Traces <- MCTraces
  Settings <- MCSettings
  Profiles = {p, q}
  Clients = {c1}
  MaxChanges = 2
  MaxFailures = 1
  MaxAsks = 2
INVARIANT TypeOK Sound Once Timers
PROPERTY Complete Refreshed RoutingEnds

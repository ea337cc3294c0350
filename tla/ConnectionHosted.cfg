SPECIFICATION ConnFairSpec
CONSTANTS
  Jobs = {j1, j2}
  None = None
  MaxProcs = 2
  MaxTimers = 1
  Faults = {"throw"}
  Unparsable = {j1}
  Tenants = {a}
  Hosted = TRUE
  Routes = {"graph", "browse"}
INVARIANT CertOnlyOfLateConnect
PROPERTIES EveryConnectEnds EveryWatcherStops EveryJobEnds
CHECK_DEADLOCK FALSE

SPECIFICATION ConnSpec
CONSTANTS
  Jobs = {j1, j2, j3}
  None = None
  MaxProcs = 1
  MaxTimers = 0
  Faults = {}
  Unparsable = {}
  Tenants = {a, b}
  Hosted = FALSE
  Routes = {"graph", "exchange", "disconnect", "browse", "run"}
SYMMETRY ConnSymmetry
INVARIANT CacheIsOfConnectedTenant
CHECK_DEADLOCK FALSE

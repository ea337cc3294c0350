SPECIFICATION ConnSpec
CONSTANTS
  Jobs = {j1, j2}
  None = None
  MaxProcs = 2
  MaxTimers = 0
  Faults = {}
  Unparsable = {}
  Tenants = {a}
  Hosted = FALSE
  Routes = {"graph", "exchange", "disconnect", "browse", "run"}
INVARIANT BannerIsTrue
CHECK_DEADLOCK FALSE

SPECIFICATION ConnSpec
CONSTANTS
  Jobs = {j1, j2}
  None = None
  MaxProcs = 2
  MaxTimers = 1
  Faults = {}
  Unparsable = {}
  Tenants = {a, b}
  Hosted = FALSE
  Routes = {"graph", "exchange", "disconnect", "browse", "run"}
SYMMETRY ConnSymmetry
INVARIANTS ConnTypeOK NoHiddenConnection NoStalePrompt ConnInv
CHECK_DEADLOCK FALSE

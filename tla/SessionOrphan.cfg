SPECIFICATION Spec
CONSTANTS
  Jobs = {j1, j2}
  None = None
  MaxProcs = 3
  MaxTimers = 1
  Faults = {}
  Unparsable = {}
INVARIANT NoOrphan
CHECK_DEADLOCK FALSE

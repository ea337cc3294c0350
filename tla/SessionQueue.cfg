SPECIFICATION Spec
CONSTANTS
  Jobs = {j1, j2, j3}
  None = None
  MaxProcs = 2
  MaxTimers = 1
  Faults = {"disk", "noexe", "throw"}
  Unparsable = {j1, j2, j3}
SYMMETRY JobSymmetry
INVARIANTS TypeOK QueueInv OnlyAbandonedScriptsLinger ParseErrorIsOwn ScriptInv AliveIsNotClosed
PROPERTIES IsFifoService EvictedIsSilent
CHECK_DEADLOCK FALSE

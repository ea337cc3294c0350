SPECIFICATION Spec
CONSTANTS
  candidates <- MCcandidates
  d1 = d1
  Startup = d1
  Detections = {d1, d2}
  Installs = {i1}
  Null = Null
INVARIANT VerdictFitsProbe
CHECK_DEADLOCK FALSE

SPECIFICATION FairSpec
CONSTANTS
  Length = 4
  Exchange = {2}
  Unrunnable = {3}
  Others = {o}
  JobLimit = 2
  WaitLimit = 3
INVARIANTS TypeOK PackInv
PROPERTY PackEnds

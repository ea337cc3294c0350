SPECIFICATION Spec
CONSTANTS
  MaxEntries = 3
  MaxMonths = 1
  MaxRuns = 2
  MaxLegacy = 1
  Null = Null
  NoHash = NoHash
INVARIANTS TypeOK CompleteLogVerifies VerifiedIsGenuine LossIsNoticed
PROPERTIES StaysBroken
CHECK_DEADLOCK FALSE

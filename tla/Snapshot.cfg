SPECIFICATION Spec
CONSTANTS
  keyed = keyed
  guessed = guessed
  unkeyed = unkeyed
  one = one
  quoted = quoted
  Null = Null
  Torn = Torn
  Reports = {keyed, guessed, unkeyed}
  Ids = {id}
  Values = {Null, one, quoted}
  Text <- MCText
  KEY_COLUMNS <- MCKeyColumns
  KEY_HEURISTICS <- MCHeuristics
  NoKey = "none"
  Columns <- MCColumns
  MaxRows = 2
INVARIANTS TypeOK DiffIsExact NothingInvented CountsBalance
CHECK_DEADLOCK FALSE
